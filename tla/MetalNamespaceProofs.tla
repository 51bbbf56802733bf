------------------------ MODULE MetalNamespaceProofs ------------------------
(***************************************************************************)
(* Proofs about module MetalNamespace: the directories stay a tree, and    *)
(* the paths that can be resolved follow from the links between inodes.    *)
(***************************************************************************)
EXTENDS MetalNamespaceTree, TLAPS, WellFoundedInduction

----------------------------------------------------------------------------
(* Induction over the natural numbers and recursive functions on 0 .. n,   *)
(* stated with sets and functions in the place of predicates and           *)
(* operators, which is the form in which the provers can use them.         *)

\* Less-than on the natural numbers is well founded.
LEMMA LessWellFounded ==
    IsWellFoundedOn({ss \in Nat \X Nat : ss[1] < ss[2]}, Nat)
<1>1. OpToRel(<, Nat) = {ss \in Nat \X Nat : ss[1] < ss[2]}
  BY DEF OpToRel
<1> QED  BY <1>1, NatLessThanWellFounded, Zenon

\* A set of natural numbers that is not empty has a least element.
LEMMA LeastElement ==
    ASSUME NEW T, T \subseteq Nat, T # {}
    PROVE  \E m \in T : \A k \in T : m <= k
<1> DEFINE R == {ss \in Nat \X Nat : ss[1] < ss[2]}
<1>1. IsWellFoundedOn(R, Nat)
  BY LessWellFounded
<1>2. PICK m \in T : \A k \in T : ~ (<<k, m>> \in R)
  <2> HIDE DEF R
  <2> QED  BY <1>1, WFMin, Zenon
<1>3. ASSUME NEW k \in T PROVE m <= k
  <2>1. m \in Nat /\ k \in Nat
    OBVIOUS
  <2>2. ~ (k < m)
    BY <1>2, <2>1, Zenon
  <2> QED  BY <2>1, <2>2
<1> QED  BY <1>3

\* A set that has 0, and with every number the next one, has all of them.
LEMMA Inductive ==
    ASSUME NEW S, 0 \in S, \A n \in Nat : n \in S => n + 1 \in S
    PROVE  \A n \in Nat : n \in S
<1> SUFFICES ASSUME NEW n \in Nat, n \notin S
             PROVE  FALSE
  OBVIOUS
<1> DEFINE T == {k \in Nat : k \notin S}
<1>1. PICK m \in T : \A k \in T : m <= k
  <2>1. T \subseteq Nat /\ T # {}
    OBVIOUS
  <2> HIDE DEF T
  <2> QED  BY <2>1, LeastElement, Zenon
<1>2. m - 1 \in Nat /\ m - 1 \notin T
  BY <1>1
<1> QED  BY <1>1, <1>2

IsStep(S, step) == step \in [S -> [Nat -> S]]

\* The values of g on 0 .. n follow from one another, from c on.
Follows(S, c, step, n, g) ==
    /\ g \in [0 .. n -> S]
    /\ g[0] = c
    /\ \A k \in 1 .. n : g[k] = step[g[k - 1]][k]

\* There is such a function, whatever the step and the number of values.
LEMMA Recursion ==
    ASSUME NEW S, NEW c \in S, NEW step, IsStep(S, step), NEW n \in Nat
    PROVE  \E g : Follows(S, c, step, n, g)
<1> DEFINE T == {m \in Nat : \E g : Follows(S, c, step, m, g)}
<1>1. 0 \in T
  <2> DEFINE h == [k \in 0 .. 0 |-> c]
  <2>1. h \in [0 .. 0 -> S] /\ h[0] = c
    OBVIOUS
  <2>2. \A k \in 1 .. 0 : h[k] = step[h[k - 1]][k]
    OBVIOUS
  <2> HIDE DEF h
  <2>3. Follows(S, c, step, 0, h)
    BY <2>1, <2>2 DEF Follows
  <2> QED  BY <2>3
<1>2. ASSUME NEW m \in Nat, m \in T PROVE m + 1 \in T
  <2>1. PICK g : Follows(S, c, step, m, g)
    BY <1>2
  <2> DEFINE h == [k \in 0 .. m + 1 |->
                      IF k <= m THEN g[k] ELSE step[g[m]][m + 1]]
  <2>2. h \in [0 .. m + 1 -> S]
    BY <2>1 DEF Follows, IsStep
  <2>3. h[0] = c
    BY <2>1 DEF Follows
  <2>4. ASSUME NEW k \in 1 .. m + 1 PROVE h[k] = step[h[k - 1]][k]
    <3>1. CASE k <= m
      <4>1. k \in 1 .. m /\ k - 1 \in 0 .. m
        BY <3>1
      <4> QED  BY <2>1, <4>1 DEF Follows
    <3>2. CASE k = m + 1
      BY <3>2
    <3> QED  BY <3>1, <3>2
  <2> HIDE DEF h
  <2>5. Follows(S, c, step, m + 1, h)
    BY <2>2, <2>3, <2>4 DEF Follows
  <2> QED  BY <2>5
<1>3. n \in T
  <2> HIDE DEF T
  <2> QED  BY <1>1, <1>2, Inductive
<1> QED  BY <1>3

----------------------------------------------------------------------------
(* What the databases hold. *)

EntryOf(n) == [name : Names \cup Dots, id : 0 .. n - 1]

Inode(n) == [type : {"DIRECTORY", "FILE"}, entries : Seq(EntryOf(n))]

\* All ids are below n, and a file has no entries.
Typed(db, n) ==
    /\ n \in Nat /\ Root \in DOMAIN db /\ DOMAIN db \subseteq 0 .. n - 1
    /\ \A i \in DOMAIN db : /\ db[i] \in Inode(n)
                            /\ db[i].type = "FILE" => db[i].entries = <<>>

\* No two entries have the same name.
Distinct(entries) ==
    \A j, k \in DOMAIN entries : entries[j].name = entries[k].name => j = k

\* The links L make a tree of the inodes D.
Forest(D, L) ==
    /\ Root \in D
    /\ \A l \in L : l.dir \in D /\ l.id \in D \ {Root}
    /\ \A l, m \in L : l.id = m.id => l = m
    /\ \A S \in SUBSET (D \ {Root}) :
         S # {} => \E l \in L : l.id \in S /\ l.dir \notin S

Sound(db, n) ==
    /\ Typed(db, n) /\ Forest(DOMAIN db, Links(db))
    /\ \A d \in DOMAIN db : Distinct(db[d].entries)

IndInv ==
    /\ Sound(inodes, nextId) /\ nextId \in 1 .. MaxInodes + 1 /\ result \in Codes

Linked(d, name, id) == [dir |-> d, name |-> name, id |-> id]

\* The links are the entries that are not "." or "..".
LEMMA LinksAre ==
    ASSUME NEW db, NEW l
    PROVE  l \in Links(db) <=>
             \E d \in DOMAIN db : \E k \in DOMAIN db[d].entries :
               /\ db[d].entries[k].name \notin Dots
               /\ l = Linked(d, db[d].entries[k].name, db[d].entries[k].id)
<1> DEFINE named(d) == {m \in DOMAIN db[d].entries : db[d].entries[m].name \notin Dots}
           from(d) == {Linked(d, db[d].entries[k].name, db[d].entries[k].id) :
                         k \in named(d)}
<1>1. l \in Links(db) <=> \E d \in DOMAIN db : l \in from(d)
  <2>1. Links(db) = UNION {from(d) : d \in DOMAIN db}
    BY Zenon DEF Links, Linked
  <2> HIDE DEF from
  <2> QED  BY <2>1
<1>2. ASSUME NEW d PROVE l \in from(d) <=> \E k \in DOMAIN db[d].entries :
               /\ db[d].entries[k].name \notin Dots
               /\ l = Linked(d, db[d].entries[k].name, db[d].entries[k].id)
  OBVIOUS
<1> HIDE DEF from
<1> QED  BY <1>1, <1>2, Zenon

\* The parts of a link.
LEMMA LinkParts ==
    ASSUME NEW d, NEW name, NEW id
    PROVE  /\ Linked(d, name, id).dir = d
           /\ Linked(d, name, id).name = name
           /\ Linked(d, name, id).id = id
BY DEF Linked

\* Where a link comes from.
LEMMA LinkFrom ==
    ASSUME NEW db, NEW l \in Links(db)
    PROVE  \E d \in DOMAIN db : \E k \in DOMAIN db[d].entries :
               /\ db[d].entries[k].name \notin Dots
               /\ l = Linked(d, db[d].entries[k].name, db[d].entries[k].id)
BY LinksAre, Zenon

\* A link leads from a directory to the inode its entry names.
LEMMA LinkTyped ==
    ASSUME NEW db, NEW l \in Links(db)
    PROVE  /\ l.dir \in DOMAIN db /\ l.name \notin Dots
           /\ \E k \in DOMAIN db[l.dir].entries :
                db[l.dir].entries[k].name = l.name /\ db[l.dir].entries[k].id = l.id
<1>0. PICK d \in DOMAIN db : \E k \in DOMAIN db[d].entries :
          /\ db[d].entries[k].name \notin Dots
          /\ l = Linked(d, db[d].entries[k].name, db[d].entries[k].id)
  BY LinksAre, Zenon
<1>1. PICK k \in DOMAIN db[d].entries :
          /\ db[d].entries[k].name \notin Dots
          /\ l = Linked(d, db[d].entries[k].name, db[d].entries[k].id)
  BY <1>0, Zenon
<1>2. l.dir = d /\ l.name = db[d].entries[k].name /\ l.id = db[d].entries[k].id
  BY <1>1, LinkParts
<1> QED  BY <1>1, <1>2, Zenon

\* Soundness is the property of the tree, with the types.
LEMMA SoundTree ==
    ASSUME NEW db, NEW n, Typed(db, n)
    PROVE  Sound(db, n) <=> FormsTree(db)
<1>1. \A l \in Links(db) : l.dir \in DOMAIN db
  BY LinkTyped, Zenon
<1>2. Root \in DOMAIN db
  BY DEF Typed
<1> QED  BY <1>1, <1>2, Zenon DEF Sound, Forest, FormsTree, Distinct

\* The parts of what the database has of an inode.
LEMMA InodeTyped ==
    ASSUME NEW db, NEW n, Typed(db, n), NEW d \in DOMAIN db
    PROVE  /\ db[d].type \in {"DIRECTORY", "FILE"}
           /\ db[d].entries \in Seq(EntryOf(n))
           /\ DOMAIN db[d].entries = 1 .. Len(db[d].entries)
           /\ Len(db[d].entries) \in Nat
           /\ \A k \in DOMAIN db[d].entries :
                /\ db[d].entries[k].name \in Names \cup Dots
                /\ db[d].entries[k].id \in 0 .. n - 1
                /\ db[d].entries[k]
                     = Entry(db[d].entries[k].name, db[d].entries[k].id)
<1>1. db[d] \in Inode(n)
  BY DEF Typed
<1>2. db[d].type \in {"DIRECTORY", "FILE"} /\ db[d].entries \in Seq(EntryOf(n))
  BY <1>1 DEF Inode
<1>3. ASSUME NEW k \in DOMAIN db[d].entries PROVE db[d].entries[k] \in EntryOf(n)
  BY <1>2
<1>4. \A e \in EntryOf(n) : /\ e.name \in Names \cup Dots /\ e.id \in 0 .. n - 1
                            /\ e = Entry(e.name, e.id)
  BY DEF EntryOf, Entry
<1> QED  BY <1>2, <1>3, <1>4

----------------------------------------------------------------------------
(* Paths. *)

\* What a call gets is a path of one name or more.
LEMMA PathTyped ==
    ASSUME NEW path \in CallPaths
    PROVE  /\ path \in Seq(Names) /\ Len(path) \in Nat \ {0}
           /\ Basename(path) \in Names /\ Basename(path) \notin Dots
           /\ Dirname(path) \in Seq(Names) /\ Len(Dirname(path)) = Len(path) - 1
           /\ \A k \in 1 .. Len(path) - 1 : Dirname(path)[k] = path[k]
<1>1. PICK n \in 1 .. MaxDepth : path \in [1 .. n -> Names]
  BY Zenon DEF CallPaths
<1>2. n \in Nat \ {0}
  BY NamespaceAssumption
<1>3. path \in Seq(Names) /\ Len(path) = n
  BY <1>1, <1>2
<1>4. Basename(path) \in Names
  BY <1>2, <1>3 DEF Basename
<1>5. Basename(path) \notin Dots
  BY <1>4, NamespaceAssumption
<1>6. /\ Dirname(path) \in Seq(Names) /\ Len(Dirname(path)) = Len(path) - 1
      /\ \A k \in 1 .. Len(path) - 1 : Dirname(path)[k] = path[k]
  BY <1>2, <1>3 DEF Dirname
<1> QED  BY <1>2, <1>3, <1>4, <1>5, <1>6

----------------------------------------------------------------------------
(* Walking down a path. *)

\* What the search of a directory finds: an entry with the name.
LEMMA SearchFacts ==
    ASSUME NEW db, NEW n, Typed(db, n), NEW d \in DOMAIN db, NEW name
    PROVE  LET r == ResolveInDirectory(db, d, name)
               named(k) == db[d].entries[k].name = name
           IN  /\ r.res \in Codes /\ r = [res |-> r.res, id |-> r.id]
               /\ r.res # "SUCCESS" => r.id = Root
               /\ r.res = "SUCCESS" =>
                    /\ db[d].type = "DIRECTORY"
                    /\ \E k \in DOMAIN db[d].entries : named(k) /\ db[d].entries[k].id = r.id
               /\ db[d].type = "DIRECTORY" /\ (\E k \in DOMAIN db[d].entries : named(k)) =>
                    r.res = "SUCCESS"
<1> DEFINE entries == db[d].entries
           found == {k \in DOMAIN entries : entries[k].name = name}
           r == ResolveInDirectory(db, d, name)
<1>1. ASSUME found # {} PROVE Least(found) \in found
  <2>1. found \subseteq Nat
    <3>1. DOMAIN entries = 1 .. Len(entries) /\ Len(entries) \in Nat
      BY InodeTyped
    <3> QED  BY <3>1
  <2>2. \E m \in found : \A k \in found : m <= k
    <3> HIDE DEF found
    <3> QED  BY <1>1, <2>1, LeastElement, Zenon
  <2> HIDE DEF found
  <2> QED  BY <2>2, Zenon DEF Least
<1>2. CASE db[d].type # "DIRECTORY"
  <2>1. r = [res |-> "NOTDIRECTORY", id |-> Root]
    BY <1>2, Zenon DEF ResolveInDirectory
  <2> QED  BY <1>2, <2>1 DEF Codes
<1>3. CASE db[d].type = "DIRECTORY" /\ found = {}
  <2>1. r = [res |-> "NOENTRY", id |-> Root]
    BY <1>3, Zenon DEF ResolveInDirectory
  <2>2. \A k \in DOMAIN entries : entries[k].name # name
    BY <1>3, Zenon
  <2> QED  BY <2>1, <2>2 DEF Codes
<1>4. CASE db[d].type = "DIRECTORY" /\ found # {}
  <2>1. r = [res |-> "SUCCESS", id |-> entries[Least(found)].id]
    BY <1>4, Zenon DEF ResolveInDirectory
  <2>2. Least(found) \in DOMAIN entries /\ entries[Least(found)].name = name
    BY <1>1, <1>4, Zenon
  <2> HIDE DEF found
  <2> QED  BY <1>4, <2>1, <2>2 DEF Codes
<1> QED  BY <1>2, <1>3, <1>4, Zenon

\* What a path finds in a directory is linked there.
LEMMA SearchLinks ==
    ASSUME NEW db, NEW n, Sound(db, n), NEW d \in DOMAIN db, NEW name \in Names,
           ResolveInDirectory(db, d, name).res = "SUCCESS"
    PROVE  LET id == ResolveInDirectory(db, d, name).id
           IN  /\ db[d].type = "DIRECTORY"
               /\ Linked(d, name, id) \in Links(db) /\ id \in DOMAIN db \ {Root}
<1> DEFINE id == ResolveInDirectory(db, d, name).id
<1>0. Typed(db, n)
  BY DEF Sound
<1>1. PICK k \in DOMAIN db[d].entries : db[d].entries[k].name = name /\ db[d].entries[k].id = id
  BY <1>0, SearchFacts
<1>2. db[d].type = "DIRECTORY"
  BY <1>0, SearchFacts
<1> HIDE DEF id
<1>3. name \notin Dots
  BY NamespaceAssumption
<1>4. Linked(d, name, id) \in Links(db)
  BY <1>1, <1>3, LinksAre, Zenon
<1>5. id \in DOMAIN db \ {Root}
  <2>1. Linked(d, name, id).id \in DOMAIN db \ {Root}
    BY <1>4, Zenon DEF Sound, Forest
  <2> QED  BY <2>1, LinkParts
<1> QED  BY <1>2, <1>4, <1>5 DEF id

Start == [res |-> "SUCCESS", id |-> Root]

WalkOn(db, name, at) ==
    LET search == [d \in DOMAIN db |-> ResolveInDirectory(db, d, name)]
    IN  IF at.res = "SUCCESS" THEN search[at.id] ELSE at

WalkStep(db, path, g) ==
    [k \in 0 .. Len(path) |-> IF k = 0 THEN Start ELSE WalkOn(db, path[k], g[k - 1])]

WalkOf(db, path) == CHOOSE g : g = WalkStep(db, path, g)

Reached(db) == [res : Codes, id : DOMAIN db]

\* A walk that has come to an inode comes to an inode with the next name, or
\* reports why not.
LEMMA WalkOnTyped ==
    ASSUME NEW db, NEW n, Sound(db, n), NEW name \in Names, NEW at \in Reached(db)
    PROVE  WalkOn(db, name, at) \in Reached(db)
<1>0. Typed(db, n) /\ Root \in DOMAIN db
  BY DEF Sound, Typed
<1>1. at.id \in DOMAIN db
  BY DEF Reached
<1> DEFINE r == ResolveInDirectory(db, at.id, name)
<1>2. r.res \in Codes /\ r = [res |-> r.res, id |-> r.id] /\ (r.res # "SUCCESS" => r.id = Root)
  BY <1>0, <1>1, SearchFacts
<1>3. r.res = "SUCCESS" => r.id \in DOMAIN db
  BY <1>1, SearchLinks, Zenon
<1>4. at.res = "SUCCESS" => WalkOn(db, name, at) = r
  BY <1>1, Zenon DEF WalkOn
<1>5. at.res # "SUCCESS" => WalkOn(db, name, at) = at
  BY Zenon DEF WalkOn
<1>6. r \in Reached(db)
  <2> HIDE DEF r
  <2> QED  BY <1>0, <1>2, <1>3 DEF Reached
<1> QED  BY <1>4, <1>5, <1>6, Zenon

\* The recursion along a path has a solution.
LEMMA WalkExists ==
    ASSUME NEW db, NEW n, Sound(db, n), NEW path \in Seq(Names)
    PROVE  \E g : g = WalkStep(db, path, g)
<1> DEFINE R == Reached(db)
           more(at, k) == IF k \in 1 .. Len(path) THEN WalkOn(db, path[k], at) ELSE at
           step == [at \in R |-> [k \in Nat |-> more(at, k)]]
<1>1. Len(path) \in Nat /\ \A k \in 1 .. Len(path) : path[k] \in Names
  OBVIOUS
<1>2. IsStep(R, step)
  <2>1. \A at \in R, k \in Nat : more(at, k) \in R
    <3> HIDE DEF R
    <3> SUFFICES ASSUME NEW at \in R, NEW k \in Nat PROVE more(at, k) \in R
      BY Zenon
    <3>1. k \in 1 .. Len(path) => WalkOn(db, path[k], at) \in R
      BY <1>1, WalkOnTyped, Zenon DEF R
    <3> QED  BY <3>1, Zenon
  <2> HIDE DEF more, R
  <2> QED  BY <2>1, Zenon DEF IsStep
<1>3. PICK g : Follows(R, Start, step, Len(path), g)
  <2>1. Start \in R
    BY DEF Start, Reached, Codes, Sound, Typed
  <2> HIDE DEF step, R
  <2> QED  BY <1>1, <1>2, <2>1, Recursion, Zenon
<1> HIDE DEF R
<1>4. ASSUME NEW k \in 0 .. Len(path)
      PROVE  g[k] = IF k = 0 THEN Start ELSE WalkOn(db, path[k], g[k - 1])
  <2>1. CASE k = 0
    BY <1>3, <2>1 DEF Follows
  <2>2. CASE k # 0
    <3>1. k \in 1 .. Len(path) /\ k \in Nat /\ k - 1 \in 0 .. Len(path)
      BY <1>1, <2>2
    <3>2. g[k - 1] \in R
      BY <1>3, <3>1 DEF Follows
    <3>3. step[g[k - 1]][k] = more(g[k - 1], k)
      <4> HIDE DEF more
      <4> QED  BY <3>1, <3>2
    <3> QED  BY <1>3, <2>2, <3>1, <3>3, Zenon DEF Follows
  <2> QED  BY <2>1, <2>2
<1>5. g = WalkStep(db, path, g)
  BY <1>3, <1>4 DEF WalkStep, Follows
<1> QED  BY <1>5

\* The walk that mtl_resolve_inode makes: each name leads on from where the
\* names before it led.
LEMMA WalkFacts ==
    ASSUME NEW db, NEW n, Sound(db, n), NEW path \in Seq(Names)
    PROVE  /\ Resolve(db, path) = WalkOf(db, path)[Len(path)]
           /\ WalkOf(db, path)[0] = Start
           /\ \A k \in 1 .. Len(path) :
                WalkOf(db, path)[k] = WalkOn(db, path[k], WalkOf(db, path)[k - 1])
<1>1. Resolve(db, path) = WalkOf(db, path)[Len(path)]
  BY DEF Resolve, WalkOf, WalkStep, WalkOn, Start
<1>2. WalkOf(db, path) = WalkStep(db, path, WalkOf(db, path))
  <2> HIDE DEF WalkStep
  <2> QED  BY WalkExists DEF WalkOf
<1>3. Len(path) \in Nat
  OBVIOUS
<1>4. WalkOf(db, path)[0] = Start
  <2> HIDE DEF WalkOf
  <2> QED  BY <1>2, <1>3 DEF WalkStep
<1>5. ASSUME NEW k \in 1 .. Len(path)
      PROVE  WalkOf(db, path)[k] = WalkOn(db, path[k], WalkOf(db, path)[k - 1])
  <2>1. k \in 0 .. Len(path) /\ k # 0
    BY <1>3
  <2> HIDE DEF WalkOf
  <2> QED  BY <1>2, <2>1 DEF WalkStep
<1> QED  BY <1>1, <1>4, <1>5

\* A walk is always at an inode.
LEMMA WalkTyped ==
    ASSUME NEW db, NEW n, Sound(db, n), NEW path \in Seq(Names)
    PROVE  \A k \in 0 .. Len(path) : WalkOf(db, path)[k] \in Reached(db)
<1> DEFINE w == WalkOf(db, path)
           T == {k \in Nat : k <= Len(path) => w[k] \in Reached(db)}
<1>1. /\ w[0] = Start
      /\ \A k \in 1 .. Len(path) : w[k] = WalkOn(db, path[k], w[k - 1])
  BY WalkFacts, Zenon
<1> HIDE DEF w
<1>2. 0 \in T
  BY <1>1 DEF Start, Reached, Codes, Sound, Typed
<1>3. ASSUME NEW k \in Nat, k \in T PROVE k + 1 \in T
  <2>1. CASE k + 1 <= Len(path)
    <3>1. k + 1 \in 1 .. Len(path) /\ k <= Len(path) /\ k + 1 - 1 = k
      BY <2>1
    <3>2. w[k] \in Reached(db) /\ path[k + 1] \in Names
      BY <1>3, <3>1
    <3>3. w[k + 1] = WalkOn(db, path[k + 1], w[k])
      BY <1>1, <3>1
    <3>4. w[k + 1] \in Reached(db)
      BY <3>2, <3>3, WalkOnTyped, Zenon
    <3> QED  BY <3>4
  <2>2. CASE ~(k + 1 <= Len(path))
    BY <2>2
  <2> QED  BY <2>1, <2>2
<1>4. \A k \in Nat : k \in T
  <2> HIDE DEF T
  <2> QED  BY <1>2, <1>3, Inductive, Zenon
<1>5. \A k \in 0 .. Len(path) : k \in Nat /\ k <= Len(path)
  OBVIOUS
<1> QED  BY <1>4, <1>5 DEF w

\* A walk goes along links.
LEMMA WalkLinks ==
    ASSUME NEW db, NEW n, Sound(db, n), NEW path \in Seq(Names), NEW k \in 1 .. Len(path),
           WalkOf(db, path)[k].res = "SUCCESS"
    PROVE  LET w == WalkOf(db, path)
           IN  /\ w[k - 1].res = "SUCCESS" /\ w[k].id # Root
               /\ Linked(w[k - 1].id, path[k], w[k].id) \in Links(db)
<1> DEFINE w == WalkOf(db, path)
           at == w[k - 1]
<1>1. k - 1 \in 0 .. Len(path) /\ path[k] \in Names
  OBVIOUS
<1>2. w[k] = WalkOn(db, path[k], at)
  BY WalkFacts, Zenon
<1>3. at.id \in DOMAIN db
  <2>1. at \in Reached(db)
    BY <1>1, WalkTyped, Zenon
  <2> QED  BY <2>1 DEF Reached
<1>4. w[k].res = "SUCCESS"
  OBVIOUS
<1> HIDE DEF w
<1>5. at.res = "SUCCESS"
  BY <1>2, <1>4, Zenon DEF WalkOn
<1> HIDE DEF at
<1>6. w[k] = ResolveInDirectory(db, at.id, path[k])
  BY <1>2, <1>3, <1>5, Zenon DEF WalkOn
<1>7. /\ Linked(at.id, path[k], w[k].id) \in Links(db) /\ w[k].id \in DOMAIN db \ {Root}
  BY <1>1, <1>3, <1>4, <1>6, SearchLinks
<1> QED  BY <1>5, <1>7 DEF at, w

\* Two walks come to the same inode only with the same names.
LEMMA WalksMeet ==
    ASSUME NEW db, NEW n, Sound(db, n), NEW a \in Seq(Names), NEW b \in Seq(Names)
    PROVE  LET u == WalkOf(db, a)
               w == WalkOf(db, b)
           IN  \A p \in 0 .. Len(a), q \in 0 .. Len(b) :
                 u[p].res = "SUCCESS" /\ w[q].res = "SUCCESS" /\ u[p].id = w[q].id =>
                   p = q /\ \A i \in 1 .. p : a[i] = b[i]
<1> DEFINE u == WalkOf(db, a)
           w == WalkOf(db, b)
           Meet(p, q) == /\ u[p].res = "SUCCESS" /\ w[q].res = "SUCCESS"
                         /\ u[p].id = w[q].id
           Same(p, q) == p = q /\ \A i \in 1 .. p : a[i] = b[i]
           T == {p \in Nat : p <= Len(a) =>
                   \A q \in 0 .. Len(b) : Meet(p, q) => Same(p, q)}
<1>0. Len(a) \in Nat /\ Len(b) \in Nat
  OBVIOUS
<1>1. u[0] = Start /\ w[0] = Start /\ Start.id = Root
  BY WalkFacts DEF Start
<1>2. ASSUME NEW p \in 1 .. Len(a), u[p].res = "SUCCESS"
      PROVE  /\ u[p - 1].res = "SUCCESS" /\ u[p].id # Root
             /\ Linked(u[p - 1].id, a[p], u[p].id) \in Links(db)
  BY <1>2, WalkLinks, Zenon
<1>3. ASSUME NEW q \in 1 .. Len(b), w[q].res = "SUCCESS"
      PROVE  /\ w[q - 1].res = "SUCCESS" /\ w[q].id # Root
             /\ Linked(w[q - 1].id, b[q], w[q].id) \in Links(db)
  BY <1>3, WalkLinks, Zenon
<1> HIDE DEF u, w
<1>4. 0 \in T
  <2> SUFFICES ASSUME NEW q \in 0 .. Len(b), Meet(0, q) PROVE q = 0
    BY <1>0
  <2>1. w[q].id = Root
    BY <1>1
  <2>2. q \notin 1 .. Len(b)
    BY <1>3, <2>1
  <2> QED  BY <1>0, <2>2
<1>5. ASSUME NEW p \in Nat, p \in T PROVE p + 1 \in T
  <2>0. p + 1 \in Nat
    OBVIOUS
  <2> SUFFICES ASSUME p + 1 <= Len(a), NEW q \in 0 .. Len(b), Meet(p + 1, q)
               PROVE  Same(p + 1, q)
    BY <2>0, Zenon
  <2>1. p + 1 \in 1 .. Len(a) /\ p <= Len(a) /\ p + 1 - 1 = p
    BY <1>0
  <2>2. /\ u[p].res = "SUCCESS" /\ u[p + 1].id # Root
        /\ Linked(u[p].id, a[p + 1], u[p + 1].id) \in Links(db)
    BY <1>2, <2>1
  <2>3. q \in 1 .. Len(b) /\ q - 1 \in 0 .. Len(b) /\ q \in Nat
    <3>1. q # 0
      BY <1>1, <2>2
    <3> QED  BY <1>0, <3>1
  <2>4. /\ w[q - 1].res = "SUCCESS"
        /\ Linked(w[q - 1].id, b[q], w[q].id) \in Links(db)
    BY <1>3, <2>3
  <2>5. Linked(u[p].id, a[p + 1], u[p + 1].id) = Linked(w[q - 1].id, b[q], w[q].id)
    <3>1. \A l, m \in Links(db) : l.id = m.id => l = m
      BY DEF Sound, Forest
    <3>2. Linked(u[p].id, a[p + 1], u[p + 1].id).id = Linked(w[q - 1].id, b[q], w[q].id).id
      BY LinkParts
    <3> QED  BY <2>2, <2>4, <3>1, <3>2, Zenon
  <2>6. u[p].id = w[q - 1].id /\ a[p + 1] = b[q]
    BY <2>5, LinkParts
  <2>7. Same(p, q - 1)
    <3> HIDE DEF Same
    <3> QED  BY <1>5, <2>1, <2>2, <2>3, <2>4, <2>6
  <2>8. q = p + 1
    BY <2>3, <2>7
  <2>9. \A i \in 1 .. p + 1 : i \in 1 .. p \/ i = p + 1
    OBVIOUS
  <2> QED  BY <2>6, <2>7, <2>8, <2>9, Zenon
<1>6. \A p \in Nat : p \in T
  <2> HIDE DEF T
  <2> QED  BY <1>4, <1>5, Inductive, Zenon
<1>7. \A p \in 0 .. Len(a) : p \in Nat /\ p <= Len(a)
  BY <1>0
<1> QED  BY <1>6, <1>7 DEF u, w

\* What mtl_resolve_inode comes to.
LEMMA ResolveTyped ==
    ASSUME NEW db, NEW n, Sound(db, n), NEW path \in Seq(Names)
    PROVE  Resolve(db, path).res \in Codes /\ Resolve(db, path).id \in DOMAIN db
<1>1. Len(path) \in 0 .. Len(path)
  OBVIOUS
<1>2. Resolve(db, path) \in Reached(db)
  BY <1>1, WalkFacts, WalkTyped, Zenon
<1> QED  BY <1>2 DEF Reached

----------------------------------------------------------------------------
(* Copying the entries of a directory but for one. *)

Lists(n) == Seq(EntryOf(n))

\* The entries of a list, and how long their encoding is.
LEMMA ListTyped ==
    ASSUME NEW n, NEW list \in Lists(n)
    PROVE  /\ Len(list) \in Nat /\ DOMAIN list = 1 .. Len(list)
           /\ \A k \in 1 .. Len(list) :
                /\ list[k] \in EntryOf(n) /\ list[k].id \in 0 .. n - 1
                /\ list[k].name \in Names \cup Dots
                /\ EntryLen(list[k].name) \in Nat \ {0}
<1>1. /\ Len(list) \in Nat /\ DOMAIN list = 1 .. Len(list)
      /\ \A k \in 1 .. Len(list) : list[k] \in EntryOf(n)
  BY DEF Lists
<1>2. \A e \in EntryOf(n) : e.name \in Names \cup Dots /\ e.id \in 0 .. n - 1
  BY DEF EntryOf
<1>3. \A name \in Names \cup Dots : EntryLen(name) \in Nat \ {0}
  BY NamespaceAssumption DEF EntryLen
<1> QED  BY <1>1, <1>2, <1>3, Zenon

LengthStep(list, g) ==
    [k \in 0 .. Len(list) |-> IF k = 0 THEN 0 ELSE g[k - 1] + EntryLen(list[k].name)]

LengthOf(list) == CHOOSE g : g = LengthStep(list, g)

\* The recursion that adds up the lengths has a solution.
LEMMA LengthExists ==
    ASSUME NEW n, NEW list \in Lists(n)
    PROVE  \E g : g = LengthStep(list, g)
<1> DEFINE more(m, k) == IF k \in 1 .. Len(list) THEN m + EntryLen(list[k].name) ELSE m
           step == [m \in Nat |-> [k \in Nat |-> more(m, k)]]
<1>1. Len(list) \in Nat /\ \A k \in 1 .. Len(list) : EntryLen(list[k].name) \in Nat
  BY ListTyped
<1>2. IsStep(Nat, step)
  <2>1. \A m \in Nat, k \in Nat : more(m, k) \in Nat
    BY <1>1
  <2> HIDE DEF more
  <2> QED  BY <2>1, Zenon DEF IsStep
<1>3. PICK g : Follows(Nat, 0, step, Len(list), g)
  <2> HIDE DEF step
  <2> QED  BY <1>1, <1>2, Recursion, Zenon
<1>4. ASSUME NEW k \in 0 .. Len(list)
      PROVE  g[k] = IF k = 0 THEN 0 ELSE g[k - 1] + EntryLen(list[k].name)
  <2>1. CASE k = 0
    BY <1>3, <2>1 DEF Follows
  <2>2. CASE k # 0
    <3>1. k \in 1 .. Len(list) /\ k \in Nat /\ k - 1 \in 0 .. Len(list)
      BY <1>1, <2>2
    <3>2. g[k - 1] \in Nat
      BY <1>3, <3>1 DEF Follows
    <3>3. step[g[k - 1]][k] = more(g[k - 1], k)
      <4> HIDE DEF more
      <4> QED  BY <3>1, <3>2
    <3> QED  BY <1>3, <2>2, <3>1, <3>3, Zenon DEF Follows
  <2> QED  BY <2>1, <2>2
<1>5. g = LengthStep(list, g)
  BY <1>3, <1>4 DEF LengthStep, Follows
<1> QED  BY <1>5

\* The lengths of the entries add up from the first one on.
LEMMA LengthFacts ==
    ASSUME NEW n, NEW list \in Lists(n)
    PROVE  /\ DataLength(list) = LengthOf(list)[Len(list)]
           /\ LengthOf(list)[0] = 0
           /\ \A k \in 1 .. Len(list) :
                LengthOf(list)[k] = LengthOf(list)[k - 1] + EntryLen(list[k].name)
<1>1. DataLength(list) = LengthOf(list)[Len(list)]
  BY DEF DataLength, LengthOf, LengthStep
<1>2. LengthOf(list) = LengthStep(list, LengthOf(list))
  <2> HIDE DEF LengthStep
  <2> QED  BY LengthExists DEF LengthOf
<1>3. Len(list) \in Nat
  BY ListTyped
<1>4. LengthOf(list)[0] = 0
  <2> HIDE DEF LengthOf
  <2> QED  BY <1>2, <1>3 DEF LengthStep
<1>5. ASSUME NEW k \in 1 .. Len(list)
      PROVE  LengthOf(list)[k] = LengthOf(list)[k - 1] + EntryLen(list[k].name)
  <2>1. k \in 0 .. Len(list) /\ k # 0
    BY <1>3
  <2> HIDE DEF LengthOf
  <2> QED  BY <1>2, <2>1 DEF LengthStep
<1> QED  BY <1>1, <1>4, <1>5

Copies(n) == [kept : Lists(n), length : Nat, id : 0 .. n - 1]

Nothing == [kept |-> <<>>, length |-> 0, id |-> Root]

CopyOn(entry, name, c) ==
    IF entry.name = name THEN [c EXCEPT !.id = entry.id]
    ELSE [c EXCEPT !.kept = Append(@, entry), !.length = @ + EntryLen(entry.name)]

CopyStep(list, name, g) ==
    [k \in 0 .. Len(list) |-> IF k = 0 THEN Nothing ELSE CopyOn(list[k], name, g[k - 1])]

CopyOf(list, name) == CHOOSE g : g = CopyStep(list, name, g)

\* What copying one more entry does to what has been copied.
LEMMA CopyOnFacts ==
    ASSUME NEW n, NEW entry \in EntryOf(n), EntryLen(entry.name) \in Nat, NEW name,
           NEW c \in Copies(n)
    PROVE  /\ CopyOn(entry, name, c) \in Copies(n)
           /\ entry.name = name =>
                /\ CopyOn(entry, name, c).kept = c.kept
                /\ CopyOn(entry, name, c).length = c.length
                /\ CopyOn(entry, name, c).id = entry.id
           /\ entry.name # name =>
                /\ CopyOn(entry, name, c).kept = Append(c.kept, entry)
                /\ CopyOn(entry, name, c).length = c.length + EntryLen(entry.name)
                /\ CopyOn(entry, name, c).id = c.id
<1>1. c.kept \in Seq(EntryOf(n)) /\ c.length \in Nat /\ c.id \in 0 .. n - 1
  BY DEF Copies, Lists
<1>2. Append(c.kept, entry) \in Seq(EntryOf(n)) /\ c.length + EntryLen(entry.name) \in Nat
  BY <1>1
<1>3. entry.id \in 0 .. n - 1
  BY DEF EntryOf
<1>4. CASE entry.name = name
  <2>1. CopyOn(entry, name, c) = [c EXCEPT !.id = entry.id]
    BY <1>4, Zenon DEF CopyOn
  <2> QED  BY <1>3, <1>4, <2>1 DEF Copies
<1>5. CASE entry.name # name
  <2> DEFINE l == c.length + EntryLen(entry.name)
             s == Append(c.kept, entry)
  <2>1. CopyOn(entry, name, c) = [c EXCEPT !.kept = s, !.length = l]
    BY <1>5, Zenon DEF CopyOn
  <2>2. s \in Lists(n) /\ l \in Nat
    BY <1>2 DEF Lists
  <2> HIDE DEF l, s
  <2>3. /\ CopyOn(entry, name, c) \in Copies(n)
        /\ CopyOn(entry, name, c).kept = s /\ CopyOn(entry, name, c).length = l
        /\ CopyOn(entry, name, c).id = c.id
    BY <2>1, <2>2, Zenon DEF Copies
  <2> QED  BY <1>5, <2>3 DEF l, s
<1> QED  BY <1>4, <1>5

\* The recursion that copies has a solution.
LEMMA CopyExists ==
    ASSUME NEW n \in Nat \ {0}, NEW list \in Lists(n), NEW name
    PROVE  \E g : g = CopyStep(list, name, g)
<1> DEFINE R == Copies(n)
           more(c, k) == IF k \in 1 .. Len(list) THEN CopyOn(list[k], name, c) ELSE c
           step == [c \in R |-> [k \in Nat |-> more(c, k)]]
<1>1. Len(list) \in Nat /\ \A k \in 1 .. Len(list) : list[k] \in EntryOf(n)
                                      /\ EntryLen(list[k].name) \in Nat
  BY ListTyped
<1>2. IsStep(R, step)
  <2>1. \A c \in R, k \in Nat : more(c, k) \in R
    <3> HIDE DEF R
    <3> SUFFICES ASSUME NEW c \in R, NEW k \in Nat PROVE more(c, k) \in R
      BY Zenon
    <3>1. k \in 1 .. Len(list) => CopyOn(list[k], name, c) \in R
      BY <1>1, CopyOnFacts, Zenon DEF R
    <3> QED  BY <3>1, Zenon
  <2> HIDE DEF more, R
  <2> QED  BY <2>1, Zenon DEF IsStep
<1>3. PICK g : Follows(R, Nothing, step, Len(list), g)
  <2>1. Nothing \in R
    <3>1. <<>> \in Lists(n) /\ Root \in 0 .. n - 1
      BY DEF Lists, Root
    <3> QED  BY <3>1 DEF Nothing, Copies
  <2> HIDE DEF step, R
  <2> QED  BY <1>1, <1>2, <2>1, Recursion, Zenon
<1> HIDE DEF R
<1>4. ASSUME NEW k \in 0 .. Len(list)
      PROVE  g[k] = IF k = 0 THEN Nothing ELSE CopyOn(list[k], name, g[k - 1])
  <2>1. CASE k = 0
    BY <1>3, <2>1 DEF Follows
  <2>2. CASE k # 0
    <3>1. k \in 1 .. Len(list) /\ k \in Nat /\ k - 1 \in 0 .. Len(list)
      BY <1>1, <2>2
    <3>2. g[k - 1] \in R
      BY <1>3, <3>1 DEF Follows
    <3>3. step[g[k - 1]][k] = more(g[k - 1], k)
      <4> HIDE DEF more
      <4> QED  BY <3>1, <3>2
    <3> QED  BY <1>3, <2>2, <3>1, <3>3, Zenon DEF Follows
  <2> QED  BY <2>1, <2>2
<1>5. g = CopyStep(list, name, g)
  BY <1>3, <1>4 DEF CopyStep, Follows
<1> QED  BY <1>5

\* The copy of mtl_remove_entry_from_directory grows entry by entry.
LEMMA CopyFacts ==
    ASSUME NEW n \in Nat \ {0}, NEW list \in Lists(n), NEW name
    PROVE  /\ Copied(list, name) = CopyOf(list, name)[Len(list)]
           /\ CopyOf(list, name)[0] = Nothing
           /\ \A k \in 1 .. Len(list) :
                CopyOf(list, name)[k] = CopyOn(list[k], name, CopyOf(list, name)[k - 1])
<1>1. Copied(list, name) = CopyOf(list, name)[Len(list)]
  BY DEF Copied, CopyOf, CopyStep, CopyOn, Nothing
<1>2. CopyOf(list, name) = CopyStep(list, name, CopyOf(list, name))
  <2> HIDE DEF CopyStep
  <2> QED  BY CopyExists DEF CopyOf
<1>3. Len(list) \in Nat
  BY ListTyped
<1>4. CopyOf(list, name)[0] = Nothing
  <2> HIDE DEF CopyOf
  <2> QED  BY <1>2, <1>3 DEF CopyStep
<1>5. ASSUME NEW k \in 1 .. Len(list)
      PROVE  CopyOf(list, name)[k] = CopyOn(list[k], name, CopyOf(list, name)[k - 1])
  <2>1. k \in 0 .. Len(list) /\ k # 0
    BY <1>3
  <2> HIDE DEF CopyOf
  <2> QED  BY <1>2, <2>1 DEF CopyStep
<1> QED  BY <1>1, <1>4, <1>5

\* The copy is always a list of entries, with its length.
LEMMA CopyTyped ==
    ASSUME NEW n \in Nat \ {0}, NEW list \in Lists(n), NEW name
    PROVE  \A k \in 0 .. Len(list) : CopyOf(list, name)[k] \in Copies(n)
<1> DEFINE c == CopyOf(list, name)
           T == {k \in Nat : k <= Len(list) => c[k] \in Copies(n)}
<1>1. c[0] = Nothing /\ \A k \in 1 .. Len(list) : c[k] = CopyOn(list[k], name, c[k - 1])
  BY CopyFacts, Zenon
<1>2. Len(list) \in Nat /\ \A k \in 1 .. Len(list) : list[k] \in EntryOf(n)
                                      /\ EntryLen(list[k].name) \in Nat
  BY ListTyped
<1> HIDE DEF c
<1>3. 0 \in T
  <2>1. <<>> \in Lists(n) /\ Root \in 0 .. n - 1
    BY DEF Lists, Root
  <2> QED  BY <1>1, <2>1 DEF Nothing, Copies
<1>4. ASSUME NEW k \in Nat, k \in T PROVE k + 1 \in T
  <2>1. CASE k + 1 <= Len(list)
    <3>1. k + 1 \in 1 .. Len(list) /\ k <= Len(list) /\ k + 1 - 1 = k
      BY <1>2, <2>1
    <3>2. c[k] \in Copies(n) /\ c[k + 1] = CopyOn(list[k + 1], name, c[k])
      BY <1>1, <1>4, <3>1
    <3>0. list[k + 1] \in EntryOf(n) /\ EntryLen(list[k + 1].name) \in Nat
      BY <1>2, <3>1, Zenon
    <3>3. c[k + 1] \in Copies(n)
      BY <3>0, <3>2, CopyOnFacts
    <3> QED  BY <3>3
  <2>2. CASE ~(k + 1 <= Len(list))
    BY <2>2
  <2> QED  BY <2>1, <2>2
<1>5. \A k \in Nat : k \in T
  <2> HIDE DEF T
  <2> QED  BY <1>3, <1>4, Inductive, Zenon
<1>6. \A k \in 0 .. Len(list) : k \in Nat /\ k <= Len(list)
  BY <1>2
<1> QED  BY <1>5, <1>6 DEF c

\* The entry after the first k, and the copy before and after it.
LEMMA CopyNext ==
    ASSUME NEW n \in Nat \ {0}, NEW list \in Lists(n), NEW name,
           NEW k \in Nat, k + 1 <= Len(list)
    PROVE  /\ CopyOf(list, name)[k] \in Copies(n)
           /\ list[k + 1] \in EntryOf(n) /\ EntryLen(list[k + 1].name) \in Nat \ {0}
           /\ CopyOf(list, name)[k + 1] = CopyOn(list[k + 1], name, CopyOf(list, name)[k])
<1>1. k + 1 \in 1 .. Len(list) /\ k \in 0 .. Len(list) /\ k + 1 - 1 = k
  BY ListTyped
<1>2. list[k + 1] \in EntryOf(n) /\ EntryLen(list[k + 1].name) \in Nat \ {0}
  BY <1>1, ListTyped
<1>3. CopyOf(list, name)[k] \in Copies(n)
  BY <1>1, CopyTyped, Zenon
<1>4. CopyOf(list, name)[k + 1] = CopyOn(list[k + 1], name, CopyOf(list, name)[k])
  BY <1>1, CopyFacts
<1> QED  BY <1>2, <1>3, <1>4

\* An entry with the name is left out, and its id remembered.
LEMMA CopySkips ==
    ASSUME NEW n \in Nat \ {0}, NEW list \in Lists(n), NEW name,
           NEW k \in Nat, k + 1 <= Len(list), list[k + 1].name = name
    PROVE  /\ CopyOf(list, name)[k + 1].kept = CopyOf(list, name)[k].kept
           /\ CopyOf(list, name)[k + 1].length = CopyOf(list, name)[k].length
           /\ CopyOf(list, name)[k + 1].id = list[k + 1].id
<1> DEFINE c == CopyOf(list, name)
           e == list[k + 1]
<1>1. /\ c[k] \in Copies(n) /\ e \in EntryOf(n) /\ EntryLen(e.name) \in Nat
      /\ c[k + 1] = CopyOn(e, name, c[k]) /\ e.name = name
  BY CopyNext
<1> HIDE DEF c, e
<1>2. /\ c[k + 1].kept = c[k].kept /\ c[k + 1].length = c[k].length
      /\ c[k + 1].id = e.id
  BY <1>1, CopyOnFacts
<1> QED  BY <1>2 DEF c, e

\* Another entry is copied.
LEMMA CopyTakes ==
    ASSUME NEW n \in Nat \ {0}, NEW list \in Lists(n), NEW name,
           NEW k \in Nat, k + 1 <= Len(list), list[k + 1].name # name
    PROVE  /\ CopyOf(list, name)[k + 1].kept = Append(CopyOf(list, name)[k].kept, list[k + 1])
           /\ CopyOf(list, name)[k + 1].length
                = CopyOf(list, name)[k].length + EntryLen(list[k + 1].name)
           /\ CopyOf(list, name)[k + 1].id = CopyOf(list, name)[k].id
<1> DEFINE c == CopyOf(list, name)
           e == list[k + 1]
<1>1. /\ c[k] \in Copies(n) /\ e \in EntryOf(n) /\ EntryLen(e.name) \in Nat
      /\ c[k + 1] = CopyOn(e, name, c[k]) /\ e.name # name
  BY CopyNext
<1> HIDE DEF c, e
<1>2. /\ c[k + 1].kept = Append(c[k].kept, e) /\ c[k + 1].id = c[k].id
      /\ c[k + 1].length = c[k].length + EntryLen(e.name)
  <2> DEFINE b == c[k]
  <2>1. /\ CopyOn(e, name, b).kept = Append(b.kept, e)
        /\ CopyOn(e, name, b).id = b.id
        /\ CopyOn(e, name, b).length = b.length + EntryLen(e.name)
    <3>1. b \in Copies(n)
      BY <1>1
    <3> HIDE DEF b
    <3> QED  BY <1>1, <3>1, CopyOnFacts
  <2> QED  BY <1>1, <2>1, Zenon
<1> QED  BY <1>2 DEF c, e

\* Appending an entry.
LEMMA AppendFacts ==
    ASSUME NEW S, NEW s \in Seq(S), NEW e \in S
    PROVE  /\ Append(s, e) \in Seq(S) /\ Len(s) \in Nat
           /\ DOMAIN s = 1 .. Len(s) /\ DOMAIN Append(s, e) = 1 .. Len(s) + 1
           /\ Append(s, e)[Len(s) + 1] = e
           /\ \A i \in DOMAIN s : i \in DOMAIN Append(s, e) /\ Append(s, e)[i] = s[i]
           /\ \A i \in DOMAIN Append(s, e) : i = Len(s) + 1 \/ i \in DOMAIN s
OBVIOUS

\* s has exactly the entries of the list with another name, no two with the
\* same.
Others(s, list, name) ==
    /\ Distinct(s)
    /\ \A i \in DOMAIN s : \E j \in DOMAIN list : s[i] = list[j] /\ list[j].name # name
    /\ \A j \in DOMAIN list : list[j].name # name => \E i \in DOMAIN s : s[i] = list[j]

\* The copy has the other entries.
LEMMA CopyKept ==
    ASSUME NEW n \in Nat \ {0}, NEW list \in Lists(n), NEW name, Distinct(list)
    PROVE  /\ Copied(list, name).kept \in Lists(n)
           /\ Others(Copied(list, name).kept, list, name)
<1> DEFINE c == CopyOf(list, name)
           From(s, k) == \A i \in DOMAIN s :
                           \E j \in 1 .. k : s[i] = list[j] /\ list[j].name # name
           Into(s, k) == \A j \in 1 .. k :
                           list[j].name # name => \E i \in DOMAIN s : s[i] = list[j]
           T == {k \in Nat : k <= Len(list) =>
                   From(c[k].kept, k) /\ Into(c[k].kept, k) /\ Distinct(c[k].kept)}
<1>1. Len(list) \in Nat /\ DOMAIN list = 1 .. Len(list)
  BY ListTyped
<1>2. 0 \in T
  <2>1. c[0].kept = <<>>
    BY CopyFacts DEF Nothing
  <2> HIDE DEF c
  <2> QED  BY <2>1 DEF Distinct
<1>3. ASSUME NEW k \in Nat, k \in T PROVE k + 1 \in T
  <2>0. k + 1 \in Nat
    OBVIOUS
  <2> SUFFICES ASSUME k + 1 <= Len(list)
               PROVE  /\ From(c[k + 1].kept, k + 1) /\ Into(c[k + 1].kept, k + 1)
                      /\ Distinct(c[k + 1].kept)
    <3> HIDE DEF c, From, Into
    <3> QED  BY <2>0, Zenon
  <2> DEFINE s == c[k].kept
             t == c[k + 1].kept
             e == list[k + 1]
  <2>1. s \in Seq(EntryOf(n)) /\ e \in EntryOf(n)
    <3>1. c[k] \in Copies(n) /\ e \in EntryOf(n)
      BY CopyNext
    <3> HIDE DEF c, e
    <3> QED  BY <3>1 DEF Copies, Lists
  <2>2. ASSUME e.name = name PROVE t = s
    BY <2>2, CopySkips
  <2>3. ASSUME e.name # name PROVE t = Append(s, e)
    BY <2>3, CopyTakes
  <2>4. From(s, k) /\ Into(s, k) /\ Distinct(s)
    <3>1. k <= Len(list)
      BY <1>1
    <3> HIDE DEF c, From, Into
    <3> QED  BY <1>3, <3>1
  <2>5. \A j \in 1 .. k + 1 : j \in 1 .. k \/ j = k + 1
    OBVIOUS
  <2>6. (\A j \in 1 .. k : j \in 1 .. k + 1) /\ k + 1 \in 1 .. k + 1
    OBVIOUS
  <2> HIDE DEF c, s, t
  <2>7. CASE e.name = name
    <3>1. From(t, k + 1)
      <4> SUFFICES ASSUME NEW i \in DOMAIN t
                   PROVE  \E j \in 1 .. k + 1 : t[i] = list[j] /\ list[j].name # name
        BY Zenon
      <4>1. t = s
        BY <2>2, <2>7
      <4>2. PICK j \in 1 .. k : t[i] = list[j] /\ list[j].name # name
        BY <2>4, <4>1
      <4> QED  BY <2>6, <4>2, Zenon
    <3>2. Into(t, k + 1)
      BY <2>2, <2>4, <2>5, <2>7, Zenon
    <3> QED  BY <2>2, <2>4, <2>7, <3>1, <3>2 DEF s, t
  <2>8. CASE e.name # name
    <3>1. /\ t = Append(s, e) /\ DOMAIN t = 1 .. Len(s) + 1 /\ t[Len(s) + 1] = e
          /\ \A i \in DOMAIN s : i \in DOMAIN t /\ t[i] = s[i]
          /\ \A i \in DOMAIN t : i = Len(s) + 1 \/ i \in DOMAIN s
          /\ Len(s) + 1 \in DOMAIN t
      <4>1. t = Append(s, e)
        BY <2>3, <2>8
      <4>2. Len(s) \in Nat
        BY <2>1
      <4>3. Len(s) + 1 \in 1 .. Len(s) + 1
        BY <4>2
      <4> HIDE DEF e
      <4> QED  BY <2>1, <4>1, <4>3, AppendFacts
    <3>2. From(t, k + 1)
      <4> SUFFICES ASSUME NEW i \in DOMAIN t
                   PROVE  \E j \in 1 .. k + 1 : t[i] = list[j] /\ list[j].name # name
        BY Zenon
      <4>1. CASE i = Len(s) + 1
        BY <2>6, <2>8, <3>1, <4>1, Zenon
      <4>2. CASE i \in DOMAIN s
        <5>1. PICK j \in 1 .. k : s[i] = list[j] /\ list[j].name # name
          BY <2>4, <4>2, Zenon
        <5> QED  BY <2>6, <3>1, <4>2, <5>1, Zenon
      <4> QED  BY <3>1, <4>1, <4>2, Zenon
    <3>3. Into(t, k + 1)
      <4> SUFFICES ASSUME NEW j \in 1 .. k + 1, list[j].name # name
                   PROVE  \E i \in DOMAIN t : t[i] = list[j]
        BY Zenon
      <4>1. CASE j = k + 1
        BY <3>1, <4>1, Zenon
      <4>2. CASE j \in 1 .. k
        BY <2>4, <3>1, <4>2, Zenon
      <4> QED  BY <2>5, <4>1, <4>2, Zenon
    <3>4. ASSUME NEW i \in DOMAIN s PROVE s[i].name # e.name
      <4>1. PICK j \in 1 .. k : s[i] = list[j]
        BY <2>4, Zenon
      <4>2. j \in DOMAIN list /\ k + 1 \in DOMAIN list /\ j # k + 1
        BY <1>1
      <4> QED  BY <4>1, <4>2, Zenon DEF Distinct
    <3>5. Distinct(t)
      <4> SUFFICES ASSUME NEW i \in DOMAIN t, NEW j \in DOMAIN t, t[i].name = t[j].name
                   PROVE  i = j
        BY Zenon DEF Distinct
      <4>1. CASE i \in DOMAIN s /\ j \in DOMAIN s
        BY <2>4, <3>1, <4>1, Zenon DEF Distinct
      <4>2. CASE i \in DOMAIN s /\ j = Len(s) + 1
        BY <3>1, <3>4, <4>2, Zenon
      <4>3. CASE i = Len(s) + 1 /\ j \in DOMAIN s
        BY <3>1, <3>4, <4>3, Zenon
      <4> QED  BY <3>1, <4>1, <4>2, <4>3, Zenon
    <3> QED  BY <3>2, <3>3, <3>5 DEF t
  <2> QED  BY <2>7, <2>8
<1>4. Len(list) \in T
  <2> HIDE DEF T
  <2> QED  BY <1>1, <1>2, <1>3, Inductive, Zenon
<1> DEFINE s == Copied(list, name).kept
<1>5. s = c[Len(list)].kept
  BY CopyFacts
<1>6. s \in Lists(n)
  <2>1. Len(list) \in 0 .. Len(list)
    BY <1>1
  <2>2. c[Len(list)] \in Copies(n)
    BY <2>1, CopyTyped, Zenon
  <2> QED  BY <1>5, <2>2 DEF Copies
<1> HIDE DEF c, s
<1>7. From(s, Len(list)) /\ Into(s, Len(list)) /\ Distinct(s)
  BY <1>1, <1>4, <1>5
<1> QED  BY <1>1, <1>6, <1>7, Zenon DEF s, Others

\* Room for the copy is what tells whether there was an entry to leave out.
LEMMA CopyRoom ==
    ASSUME NEW n \in Nat \ {0}, NEW list \in Lists(n), NEW name \in Names
    PROVE  HasRoom(list, name) <=> \E j \in DOMAIN list : list[j].name = name
<1> DEFINE c == CopyOf(list, name)
           b == LengthOf(list)
           E == EntryLen(name)
           Absent(k) == \A j \in 1 .. k : list[j].name # name
           Good(k) == /\ c[k].length \in Nat /\ b[k] \in Nat /\ c[k].length <= b[k]
                      /\ Absent(k) => c[k].length = b[k]
                      /\ ~Absent(k) => c[k].length + E <= b[k]
           T == {k \in Nat : k <= Len(list) => Good(k)}
<1>1. Len(list) \in Nat /\ DOMAIN list = 1 .. Len(list) /\ E \in Nat \ {0}
  BY ListTyped, NamespaceAssumption DEF EntryLen
<1>2. 0 \in T
  <2>1. c[0].length = 0 /\ b[0] = 0
    BY CopyFacts, LengthFacts DEF Nothing
  <2>2. Absent(0)
    OBVIOUS
  <2> HIDE DEF c, b, E, Absent
  <2> QED  BY <2>1, <2>2
<1>3. ASSUME NEW k \in Nat, k \in T PROVE k + 1 \in T
  <2>0. k + 1 \in Nat
    OBVIOUS
  <2> SUFFICES ASSUME k + 1 <= Len(list) PROVE Good(k + 1)
    <3> HIDE DEF Good
    <3> QED  BY <2>0, Zenon
  <2> DEFINE e == list[k + 1]
  <2>1. EntryLen(e.name) \in Nat \ {0}
    BY CopyNext
  <2>2. b[k + 1] = b[k] + EntryLen(e.name)
    <3>1. k + 1 \in 1 .. Len(list) /\ k + 1 - 1 = k
      BY <1>1
    <3> QED  BY <3>1, LengthFacts
  <2>3. ASSUME e.name = name PROVE c[k + 1].length = c[k].length
    BY <2>3, CopySkips
  <2>4. ASSUME e.name # name PROVE c[k + 1].length = c[k].length + EntryLen(e.name)
    BY <2>4, CopyTakes
  <2>5. Good(k)
    <3>1. k <= Len(list)
      BY <1>1
    <3> HIDE DEF Good
    <3> QED  BY <1>3, <3>1
  <2>6. Absent(k + 1) <=> Absent(k) /\ e.name # name
    <3>1. \A j : j \in 1 .. k + 1 <=> j \in 1 .. k \/ j = k + 1
      OBVIOUS
    <3> QED  BY <3>1, Zenon
  <2>7. CASE e.name = name
    <3>1. c[k + 1].length = c[k].length /\ b[k + 1] = b[k] + E /\ ~Absent(k + 1)
      BY <2>2, <2>3, <2>6, <2>7
    <3> HIDE DEF c, b, E, e, Absent
    <3> QED  BY <1>1, <2>5, <3>1
  <2>8. CASE e.name # name
    <3> DEFINE g == EntryLen(e.name)
    <3>1. c[k + 1].length = c[k].length + g /\ (Absent(k + 1) <=> Absent(k))
      BY <2>4, <2>6, <2>8
    <3>2. g \in Nat /\ b[k + 1] = b[k] + g
      BY <2>1, <2>2
    <3> DEFINE x == c[k].length
               y == b[k]
               P == Absent(k)
    <3>3. /\ x \in Nat /\ y \in Nat /\ x <= y /\ (P => x = y) /\ (~P => x + E <= y)
      BY <2>5
    <3>4. E \in Nat
      BY <1>1
    <3> HIDE DEF E, g, x, y, P
    <3>5. /\ x + g \in Nat /\ y + g \in Nat /\ x + g <= y + g
          /\ (P => x + g = y + g) /\ (~P => x + g + E <= y + g)
      BY <3>2, <3>3, <3>4
    <3>6. c[k + 1].length = x + g /\ b[k + 1] = y + g /\ (Absent(k + 1) <=> P)
      BY <3>1, <3>2, Zenon DEF x, y, P
    <3> HIDE DEF c, b, Absent
    <3> QED  BY <3>5, <3>6, Zenon
  <2> HIDE DEF Good
  <2> QED  BY <2>7, <2>8
<1>4. Len(list) \in T
  <2> HIDE DEF T
  <2> QED  BY <1>1, <1>2, <1>3, Inductive, Zenon
<1>5. Good(Len(list))
  <2> HIDE DEF Good
  <2> QED  BY <1>1, <1>4
<1>6. HasRoom(list, name) <=> c[Len(list)].length <= b[Len(list)] - E
  BY CopyFacts, LengthFacts DEF HasRoom
<1>7. HasRoom(list, name) <=> ~Absent(Len(list))
  <2> HIDE DEF c, b, E, Absent
  <2> QED  BY <1>1, <1>5, <1>6
<1> QED  BY <1>1, <1>7, Zenon

\* The id that is remembered is that of the entry left out.
LEMMA CopyId ==
    ASSUME NEW n \in Nat \ {0}, NEW list \in Lists(n), NEW name, Distinct(list),
           NEW j \in DOMAIN list, list[j].name = name
    PROVE  Copied(list, name).id = list[j].id
<1> DEFINE c == CopyOf(list, name)
           T == {k \in Nat : k <= Len(list) /\ j <= k => c[k].id = list[j].id}
<1>1. Len(list) \in Nat /\ DOMAIN list = 1 .. Len(list) /\ j \in 1 .. Len(list)
  BY ListTyped
<1>2. 0 \in T
  BY <1>1
<1>3. ASSUME NEW k \in Nat, k \in T PROVE k + 1 \in T
  <2>0. k + 1 \in Nat
    OBVIOUS
  <2> SUFFICES ASSUME k + 1 <= Len(list), j <= k + 1 PROVE c[k + 1].id = list[j].id
    BY <2>0, Zenon
  <2>1. CASE j = k + 1
    <3>1. list[k + 1].name = name
      BY <2>1
    <3>2. c[k + 1].id = list[k + 1].id
      BY <3>1, CopySkips, Zenon
    <3> QED  BY <2>1, <3>2
  <2>2. CASE j # k + 1
    <3>1. k + 1 \in DOMAIN list /\ k <= Len(list) /\ j <= k
      BY <1>1, <2>2
    <3>2. list[k + 1].name # name
      BY <2>2, <3>1, Zenon DEF Distinct
    <3>3. c[k + 1].id = c[k].id
      BY <3>2, CopyTakes
    <3>4. c[k].id = list[j].id
      BY <1>3, <3>1
    <3> QED  BY <3>3, <3>4
  <2> QED  BY <2>1, <2>2
<1>4. Len(list) \in T
  <2> HIDE DEF T
  <2> QED  BY <1>1, <1>2, <1>3, Inductive, Zenon
<1>5. c[Len(list)].id = list[j].id
  BY <1>1, <1>4
<1> QED  BY <1>5, CopyFacts

----------------------------------------------------------------------------
(* What the helpers of inode.c do to the links. *)

\* An inode is put under its id; the others stay.
LEMMA PutFacts ==
    ASSUME NEW db, NEW id, NEW inode
    PROVE  /\ DOMAIN PutInode(db, id, inode) = DOMAIN db \cup {id}
           /\ PutInode(db, id, inode)[id] = inode
           /\ \A i \in DOMAIN db : i # id => PutInode(db, id, inode)[i] = db[i]
BY DEF PutInode

\* An entry is a link of its directory.
LEMMA EntryLinks ==
    ASSUME NEW db, NEW d \in DOMAIN db, NEW k \in DOMAIN db[d].entries,
           db[d].entries[k].name \notin Dots
    PROVE  Linked(d, db[d].entries[k].name, db[d].entries[k].id) \in Links(db)
BY LinksAre, Zenon

\* Where only the entries of one directory change, the links from the others
\* stay.
LEMMA OtherLinks ==
    ASSUME NEW a, NEW b, NEW d, DOMAIN a = DOMAIN b,
           \A i \in DOMAIN a : i # d => a[i].entries = b[i].entries,
           NEW l \in Links(a), l.dir # d
    PROVE  l \in Links(b)
<1>1. PICK i \in DOMAIN a : \E k \in DOMAIN a[i].entries :
          /\ a[i].entries[k].name \notin Dots
          /\ l = Linked(i, a[i].entries[k].name, a[i].entries[k].id)
  BY LinkFrom, Zenon
<1>2. i # d
  BY <1>1, LinkParts
<1>3. a[i].entries = b[i].entries /\ i \in DOMAIN b
  BY <1>2, Zenon
<1>4. \E k \in DOMAIN b[i].entries :
          /\ b[i].entries[k].name \notin Dots
          /\ l = Linked(i, b[i].entries[k].name, b[i].entries[k].id)
  BY <1>1, <1>3, Zenon
<1> QED  BY <1>3, <1>4, LinksAre, Zenon

\* A link is determined by its parts.
LEMMA LinkIs ==
    ASSUME NEW db, NEW l \in Links(db)
    PROVE  l = Linked(l.dir, l.name, l.id)
<1>1. PICK d \in DOMAIN db : \E k \in DOMAIN db[d].entries :
          /\ db[d].entries[k].name \notin Dots
          /\ l = Linked(d, db[d].entries[k].name, db[d].entries[k].id)
  BY LinkFrom, Zenon
<1>2. PICK k \in DOMAIN db[d].entries :
          l = Linked(d, db[d].entries[k].name, db[d].entries[k].id)
  BY <1>1, Zenon
<1> QED  BY <1>2, LinkParts

\* An inode with new entries is as well typed as they are.
LEMMA PutTyped ==
    ASSUME NEW db, NEW n, Typed(db, n), NEW d \in DOMAIN db, db[d].type = "DIRECTORY",
           NEW list \in Lists(n)
    PROVE  LET new == PutInode(db, d, [db[d] EXCEPT !.entries = list])
           IN  /\ Typed(new, n) /\ DOMAIN new = DOMAIN db /\ new[d].entries = list
               /\ \A i \in DOMAIN db : new[i].type = db[i].type
               /\ \A i \in DOMAIN db : i # d => new[i].entries = db[i].entries
<1> DEFINE inode == [db[d] EXCEPT !.entries = list]
           new == PutInode(db, d, inode)
<1>1. db[d] \in Inode(n)
  BY DEF Typed
<1>2. inode \in Inode(n) /\ inode.entries = list /\ inode.type = "DIRECTORY"
  BY <1>1 DEF Inode, Lists
<1> HIDE DEF inode
<1>3. /\ DOMAIN new = DOMAIN db /\ new[d] = inode
      /\ \A i \in DOMAIN db : i # d => new[i] = db[i]
  <2>1. DOMAIN new = DOMAIN db \cup {d}
    BY PutFacts, Zenon
  <2>2. new[d] = inode /\ \A i \in DOMAIN db : i # d => new[i] = db[i]
    BY DEF PutInode
  <2> HIDE DEF new
  <2> QED  BY <2>1, <2>2
<1> HIDE DEF new
<1>4. Typed(new, n)
  <2>1. ASSUME NEW i \in DOMAIN db
        PROVE  new[i] \in Inode(n) /\ (new[i].type = "FILE" => new[i].entries = <<>>)
    <3>1. CASE i = d
      BY <1>2, <1>3, <3>1
    <3>2. CASE i # d
      BY <1>3, <3>2, Zenon DEF Typed
    <3> QED  BY <3>1, <3>2
  <2> QED  BY <1>3, <2>1, Zenon DEF Typed
<1>5. \A i \in DOMAIN db : new[i].type = db[i].type
  BY <1>2, <1>3, Zenon
<1> QED  BY <1>2, <1>3, <1>4, <1>5, Zenon DEF new, inode

Allied(a, b) ==
    /\ DOMAIN a = DOMAIN b
    /\ \A i \in DOMAIN a : a[i].type = b[i].type

AllDistinct(db) == \A i \in DOMAIN db : Distinct(db[i].entries)

\* mtl_remove_entry_from_directory finds the entries there are.
LEMMA RemoveFinds ==
    ASSUME NEW db, NEW n, Typed(db, n), NEW d \in DOMAIN db, NEW name \in Names
    PROVE  /\ RemoveEntry(db, d, name).res \in Codes
           /\ RemoveEntry(db, d, name).res = "SUCCESS" <=>
                /\ db[d].type = "DIRECTORY"
                /\ \E k \in DOMAIN db[d].entries : db[d].entries[k].name = name
<1>1. n \in Nat \ {0}
  BY DEF Typed
<1>2. db[d].entries \in Lists(n)
  BY InodeTyped DEF Lists
<1>3. HasRoom(db[d].entries, name)
        <=> \E k \in DOMAIN db[d].entries : db[d].entries[k].name = name
  BY <1>1, <1>2, CopyRoom
<1>4. CASE db[d].type # "DIRECTORY"
  <2>1. RemoveEntry(db, d, name) = Failed("NOTDIRECTORY")
    BY <1>4, Zenon DEF RemoveEntry
  <2> QED  BY <1>4, <2>1 DEF Failed, Codes
<1>5. CASE db[d].type = "DIRECTORY" /\ ~HasRoom(db[d].entries, name)
  <2>1. RemoveEntry(db, d, name) = Failed("NOENTRY")
    BY <1>5, Zenon DEF RemoveEntry
  <2> QED  BY <1>3, <1>5, <2>1 DEF Failed, Codes
<1>6. CASE db[d].type = "DIRECTORY" /\ HasRoom(db[d].entries, name)
  <2>1. RemoveEntry(db, d, name).res = "SUCCESS"
    BY <1>6 DEF RemoveEntry
  <2> QED  BY <1>3, <1>6, <2>1 DEF Codes
<1> QED  BY <1>4, <1>5, <1>6, Zenon

\* It takes away the one link it was asked for.
LEMMA RemoveFacts ==
    ASSUME NEW db, NEW n, Typed(db, n), AllDistinct(db), NEW d \in DOMAIN db,
           NEW name \in Names, RemoveEntry(db, d, name).res = "SUCCESS"
    PROVE  LET entry == RemoveEntry(db, d, name)
               gone  == Linked(d, name, entry.id)
           IN  /\ gone \in Links(db) /\ Links(entry.db) = Links(db) \ {gone}
               /\ Typed(entry.db, n) /\ AllDistinct(entry.db) /\ Allied(entry.db, db)
<1> DEFINE list == db[d].entries
           copied == Copied(list, name)
           entry == RemoveEntry(db, d, name)
           new == PutInode(db, d, [db[d] EXCEPT !.entries = copied.kept])
           gone == Linked(d, name, copied.id)
<1>0. n \in Nat \ {0} /\ list \in Lists(n) /\ Distinct(list) /\ name \notin Dots
  BY InodeTyped, NamespaceAssumption DEF Lists, Typed, AllDistinct
<1>1. db[d].type = "DIRECTORY" /\ \E k \in DOMAIN list : list[k].name = name
  BY RemoveFinds
<1>2. entry = [res |-> "SUCCESS", id |-> copied.id, db |-> new]
  <2>1. HasRoom(list, name)
    BY <1>0, <1>1, CopyRoom
  <2> QED  BY <1>1, <2>1, Zenon DEF RemoveEntry
<1>3. PICK j \in DOMAIN list : list[j].name = name
  BY <1>1, Zenon
<1>4. copied.id = list[j].id
  BY <1>0, <1>3, CopyId
<1> DEFINE kept == copied.kept
<1>5. /\ kept \in Lists(n) /\ Distinct(kept)
      /\ \A i \in DOMAIN kept : \E k \in DOMAIN list : kept[i] = list[k] /\ list[k].name # name
      /\ \A k \in DOMAIN list : list[k].name # name => \E i \in DOMAIN kept : kept[i] = list[k]
  <2>1. kept \in Lists(n) /\ Others(kept, list, name)
    <3> HIDE DEF list
    <3> QED  BY <1>0, CopyKept
  <2> QED  BY <2>1, Zenon DEF Others
<1>6. /\ Typed(new, n) /\ DOMAIN new = DOMAIN db /\ new[d].entries = kept
      /\ \A i \in DOMAIN db : new[i].type = db[i].type
      /\ \A i \in DOMAIN db : i # d => new[i].entries = db[i].entries
  <2> HIDE DEF kept
  <2>1. LET put == PutInode(db, d, [db[d] EXCEPT !.entries = kept])
        IN  /\ Typed(put, n) /\ DOMAIN put = DOMAIN db /\ put[d].entries = kept
            /\ \A i \in DOMAIN db : put[i].type = db[i].type
            /\ \A i \in DOMAIN db : i # d => put[i].entries = db[i].entries
    BY <1>1, <1>5, PutTyped
  <2> QED  BY <2>1, Zenon DEF kept
<1> HIDE DEF new, kept, copied
<1>7. gone \in Links(db)
  BY <1>0, <1>3, <1>4, EntryLinks
<1>8. AllDistinct(new)
  <2> SUFFICES ASSUME NEW i \in DOMAIN db PROVE Distinct(new[i].entries)
    BY <1>6, Zenon DEF AllDistinct
  <2>1. CASE i = d
    BY <1>5, <1>6, <2>1, Zenon
  <2>2. CASE i # d
    <3>1. new[i].entries = db[i].entries
      BY <1>6, <2>2, Zenon
    <3> QED  BY <3>1, Zenon DEF AllDistinct
  <2> QED  BY <2>1, <2>2, Zenon
<1>9. ASSUME NEW l \in Links(new) PROVE l \in Links(db) /\ l # gone
  <2>1. CASE l.dir # d
    <3>1. l \in Links(db)
      BY <1>6, <2>1, OtherLinks, Zenon
    <3>2. gone.dir = d
      BY LinkParts
    <3> QED  BY <2>1, <3>1, <3>2, Zenon
  <2>2. CASE l.dir = d
    <3>1. PICK i \in DOMAIN new[d].entries :
              new[d].entries[i].name = l.name /\ new[d].entries[i].id = l.id
      BY <2>2, LinkTyped
    <3>2. PICK k \in DOMAIN list : kept[i] = list[k] /\ list[k].name # name
      BY <1>5, <1>6, <3>1, Zenon
    <3>3. list[k].name = l.name /\ list[k].id = l.id /\ l.name \notin Dots
      <4>1. l.name \notin Dots
        BY LinkTyped, Zenon
      <4> QED  BY <1>6, <3>1, <3>2, <4>1, Zenon
    <3>4. l = Linked(d, l.name, l.id)
      BY <2>2, LinkIs, Zenon
    <3>5. l \in Links(db)
      BY <3>3, <3>4, EntryLinks
    <3>6. l.name # gone.name
      BY <3>2, <3>3, LinkParts
    <3> QED  BY <3>5, <3>6, Zenon
  <2> QED  BY <2>1, <2>2, Zenon
<1>10. ASSUME NEW l \in Links(db), l # gone PROVE l \in Links(new)
  <2>1. CASE l.dir # d
    BY <1>6, <2>1, OtherLinks, Zenon
  <2>2. CASE l.dir = d
    <3>1. PICK k \in DOMAIN list : list[k].name = l.name /\ list[k].id = l.id
      BY <2>2, LinkTyped
    <3>2. l.name \notin Dots
      BY LinkTyped, Zenon
    <3>3. l = Linked(d, l.name, l.id)
      BY <2>2, LinkIs, Zenon
    <3>4. list[k].name # name
      <4> SUFFICES ASSUME list[k].name = name PROVE FALSE
        OBVIOUS
      <4>1. k = j
        BY <1>0, <1>3, Zenon DEF Distinct
      <4> QED  BY <1>4, <1>10, <3>1, <3>3, <4>1, Zenon
    <3>5. PICK i \in DOMAIN kept : kept[i] = list[k]
      BY <1>5, <3>4, Zenon
    <3>6. /\ i \in DOMAIN new[d].entries /\ d \in DOMAIN new
          /\ new[d].entries[i].name = l.name /\ new[d].entries[i].id = l.id
      BY <1>6, <3>1, <3>5, Zenon
    <3> QED  BY <3>2, <3>3, <3>6, EntryLinks
  <2> QED  BY <2>1, <2>2, Zenon
<1>11. Links(new) = Links(db) \ {gone}
  BY <1>9, <1>10
<1>12. entry.db = new /\ entry.id = copied.id
  BY <1>2
<1> QED  BY <1>6, <1>7, <1>8, <1>11, <1>12, Zenon DEF Allied

\* mtl_append_inode_id_to_directory adds one link, with a name that is new in
\* the directory.
LEMMA AddFacts ==
    ASSUME NEW db, NEW n, Typed(db, n), AllDistinct(db), NEW d \in DOMAIN db,
           NEW name \in Names, NEW id \in 0 .. n - 1,
           AppendInodeId(db, d, name, id).res = "SUCCESS"
    PROVE  LET added == AppendInodeId(db, d, name, id)
           IN  /\ db[d].type = "DIRECTORY"
               /\ Links(added.db) = Links(db) \cup {Linked(d, name, id)}
               /\ Typed(added.db, n) /\ AllDistinct(added.db) /\ Allied(added.db, db)
<1> DEFINE list == db[d].entries
           e == Entry(name, id)
           longer == Append(list, e)
           added == AppendInodeId(db, d, name, id)
           new == PutInode(db, d, [db[d] EXCEPT !.entries = longer])
           link == Linked(d, name, id)
<1>0. list \in Lists(n) /\ Distinct(list) /\ name \notin Dots /\ e \in EntryOf(n)
  BY InodeTyped, NamespaceAssumption DEF Lists, AllDistinct, Entry, EntryOf
<1>1. db[d].type = "DIRECTORY"
  <2> SUFFICES ASSUME db[d].type # "DIRECTORY" PROVE added.res # "SUCCESS"
    OBVIOUS
  <2>1. added = Failed("NOTDIRECTORY")
    BY Zenon DEF AppendInodeId
  <2> QED  BY <2>1 DEF Failed
<1>2. \A k \in DOMAIN list : list[k].name # name
  <2> SUFFICES ASSUME ~ \A k \in DOMAIN list : list[k].name # name PROVE added.res # "SUCCESS"
    OBVIOUS
  <2>1. added = Failed("EXISTS")
    BY <1>1, Zenon DEF AppendInodeId
  <2> QED  BY <2>1 DEF Failed
<1>3. added.db = new
  <2>1. added = [res |-> "SUCCESS", id |-> id, db |-> new]
    BY <1>1, <1>2, Zenon DEF AppendInodeId
  <2> QED  BY <2>1
<1>4. e.name = name /\ e.id = id
  BY DEF Entry
<1>5. /\ longer \in Lists(n) /\ longer[Len(list) + 1] = e
      /\ Len(list) + 1 \in DOMAIN longer
      /\ \A i \in DOMAIN list : i \in DOMAIN longer /\ longer[i] = list[i]
      /\ \A i \in DOMAIN longer : i = Len(list) + 1 \/ i \in DOMAIN list
  <2> HIDE DEF list, e
  <2>1. list \in Seq(EntryOf(n))
    BY <1>0 DEF Lists
  <2>2. Len(list) + 1 \in 1 .. Len(list) + 1
    BY <2>1
  <2> QED  BY <1>0, <2>1, <2>2, AppendFacts DEF Lists
<1>6. /\ Typed(new, n) /\ DOMAIN new = DOMAIN db /\ new[d].entries = longer
      /\ \A i \in DOMAIN db : new[i].type = db[i].type
      /\ \A i \in DOMAIN db : i # d => new[i].entries = db[i].entries
  <2> HIDE DEF longer
  <2> QED  BY <1>1, <1>5, PutTyped
<1> HIDE DEF new, longer, e
<1>7. AllDistinct(new)
  <2> SUFFICES ASSUME NEW i \in DOMAIN db PROVE Distinct(new[i].entries)
    BY <1>6, Zenon DEF AllDistinct
  <2>1. CASE i = d
    <3> SUFFICES ASSUME NEW j \in DOMAIN longer, NEW k \in DOMAIN longer,
                        longer[j].name = longer[k].name
                 PROVE  j = k
      BY <1>6, <2>1, Zenon DEF Distinct
    <3>1. CASE j \in DOMAIN list /\ k \in DOMAIN list
      BY <1>0, <1>5, <3>1, Zenon DEF Distinct
    <3>2. CASE j \in DOMAIN list /\ k = Len(list) + 1
      BY <1>2, <1>4, <1>5, <3>2, Zenon
    <3>3. CASE j = Len(list) + 1 /\ k \in DOMAIN list
      BY <1>2, <1>4, <1>5, <3>3, Zenon
    <3> QED  BY <1>5, <3>1, <3>2, <3>3, Zenon
  <2>2. CASE i # d
    <3>1. new[i].entries = db[i].entries
      BY <1>6, <2>2, Zenon
    <3> QED  BY <3>1, Zenon DEF AllDistinct
  <2> QED  BY <2>1, <2>2, Zenon
<1>8. ASSUME NEW l \in Links(new) PROVE l \in Links(db) \/ l = link
  <2>1. CASE l.dir # d
    BY <1>6, <2>1, OtherLinks, Zenon
  <2>2. CASE l.dir = d
    <3>1. PICK i \in DOMAIN new[d].entries :
              new[d].entries[i].name = l.name /\ new[d].entries[i].id = l.id
      BY <2>2, LinkTyped
    <3>2. l.name \notin Dots
      BY LinkTyped, Zenon
    <3>3. l = Linked(d, l.name, l.id)
      BY <2>2, LinkIs, Zenon
    <3>4. CASE i = Len(list) + 1
      BY <1>4, <1>5, <1>6, <3>1, <3>3, <3>4, Zenon
    <3>5. CASE i \in DOMAIN list
      <4>1. list[i].name = l.name /\ list[i].id = l.id
        BY <1>5, <1>6, <3>1, <3>5, Zenon
      <4>2. l \in Links(db)
        BY <3>2, <3>3, <3>5, <4>1, EntryLinks
      <4> QED  BY <4>2
    <3> QED  BY <1>5, <1>6, <3>1, <3>4, <3>5, Zenon
  <2> QED  BY <2>1, <2>2, Zenon
<1>9. link \in Links(new)
  <2>1. /\ Len(list) + 1 \in DOMAIN new[d].entries /\ d \in DOMAIN new
        /\ new[d].entries[Len(list) + 1].name = name
        /\ new[d].entries[Len(list) + 1].id = id
    BY <1>4, <1>5, <1>6, Zenon
  <2> QED  BY <1>0, <2>1, EntryLinks
<1>10. ASSUME NEW l \in Links(db) PROVE l \in Links(new)
  <2>1. CASE l.dir # d
    BY <1>6, <2>1, OtherLinks, Zenon
  <2>2. CASE l.dir = d
    <3>1. PICK k \in DOMAIN list : list[k].name = l.name /\ list[k].id = l.id
      BY <2>2, LinkTyped
    <3>2. l.name \notin Dots
      BY LinkTyped, Zenon
    <3>3. l = Linked(d, l.name, l.id)
      BY <2>2, LinkIs, Zenon
    <3>4. /\ k \in DOMAIN new[d].entries /\ d \in DOMAIN new
          /\ new[d].entries[k].name = l.name /\ new[d].entries[k].id = l.id
      BY <1>5, <1>6, <3>1, Zenon
    <3> QED  BY <3>2, <3>3, <3>4, EntryLinks
  <2> QED  BY <2>1, <2>2, Zenon
<1>11. Links(new) = Links(db) \cup {link}
  BY <1>8, <1>9, <1>10
<1> QED  BY <1>1, <1>3, <1>6, <1>7, <1>11, Zenon DEF Allied

\* Deleting an inode from which no link comes takes no link away.
LEMMA DeleteFacts ==
    ASSUME NEW db, NEW n, Typed(db, n), AllDistinct(db), NEW m \in DOMAIN db \ {Root},
           \A k \in DOMAIN db[m].entries : db[m].entries[k].name \in Dots
    PROVE  LET new == DeleteInode(db, m)
           IN  /\ DOMAIN new = DOMAIN db \ {m} /\ Links(new) = Links(db)
               /\ Typed(new, n) /\ AllDistinct(new)
               /\ \A i \in DOMAIN new : new[i].type = db[i].type
<1> DEFINE new == DeleteInode(db, m)
<1>1. DOMAIN new = DOMAIN db \ {m} /\ \A i \in DOMAIN db \ {m} : new[i] = db[i]
  BY DEF DeleteInode
<1> HIDE DEF new
<1>2. Typed(new, n) /\ AllDistinct(new)
  BY <1>1 DEF Typed, AllDistinct
<1>3. ASSUME NEW l \in Links(new) PROVE l \in Links(db)
  <2>1. /\ l.dir \in DOMAIN new /\ l.name \notin Dots
        /\ \E k \in DOMAIN new[l.dir].entries :
             new[l.dir].entries[k].name = l.name /\ new[l.dir].entries[k].id = l.id
    BY LinkTyped
  <2>2. PICK k \in DOMAIN db[l.dir].entries :
            db[l.dir].entries[k].name = l.name /\ db[l.dir].entries[k].id = l.id
    BY <1>1, <2>1, Zenon
  <2>3. l = Linked(l.dir, l.name, l.id)
    BY LinkIs, Zenon
  <2>4. l.dir \in DOMAIN db
    BY <1>1, <2>1
  <2> QED  BY <2>1, <2>2, <2>3, <2>4, EntryLinks
<1>4. ASSUME NEW l \in Links(db) PROVE l \in Links(new)
  <2>1. /\ l.dir \in DOMAIN db /\ l.name \notin Dots
        /\ \E k \in DOMAIN db[l.dir].entries :
             db[l.dir].entries[k].name = l.name /\ db[l.dir].entries[k].id = l.id
    BY LinkTyped
  <2>2. l.dir # m
    BY <2>1, Zenon
  <2>3. l.dir \in DOMAIN new /\ new[l.dir] = db[l.dir]
    BY <1>1, <2>1, <2>2
  <2>4. PICK k \in DOMAIN new[l.dir].entries :
            new[l.dir].entries[k].name = l.name /\ new[l.dir].entries[k].id = l.id
    BY <2>1, <2>3, Zenon
  <2>5. l = Linked(l.dir, l.name, l.id)
    BY LinkIs, Zenon
  <2> QED  BY <2>1, <2>3, <2>4, <2>5, EntryLinks
<1>5. Links(new) = Links(db)
  BY <1>3, <1>4
<1> QED  BY <1>1, <1>2, <1>5, Zenon DEF new

\* The database may be read with more ids than are in use.
LEMMA MoreIds ==
    ASSUME NEW db, NEW n, Typed(db, n)
    PROVE  Typed(db, n + 1)
<1>1. n \in Nat /\ 0 .. n - 1 \subseteq 0 .. (n + 1) - 1 /\ n + 1 \in Nat
  BY DEF Typed
<1>2. EntryOf(n) \subseteq EntryOf(n + 1)
  BY <1>1 DEF EntryOf
<1>3. Inode(n) \subseteq Inode(n + 1)
  <2>1. Seq(EntryOf(n)) \subseteq Seq(EntryOf(n + 1))
    <3> SUFFICES ASSUME NEW list \in Seq(EntryOf(n)) PROVE list \in Seq(EntryOf(n + 1))
      OBVIOUS
    <3>1. Len(list) \in Nat /\ list \in [1 .. Len(list) -> EntryOf(n)]
      OBVIOUS
    <3>2. list \in [1 .. Len(list) -> EntryOf(n + 1)]
      BY <1>2, <3>1
    <3> QED  BY <3>1, <3>2
  <2> QED  BY <2>1 DEF Inode
<1> QED  BY <1>1, <1>3 DEF Typed

\* The database new has the inode m besides those of db.
NewIn(db, n, m, type, new) ==
    /\ DOMAIN new = DOMAIN db \cup {m} /\ Links(new) = Links(db)
    /\ Typed(new, n) /\ AllDistinct(new)
    /\ new[m].type = type /\ \A i \in DOMAIN db : new[i].type = db[i].type

\* Writing an inode with a new id adds no link: what the new directory names
\* are itself and its parent.
LEMMA NewFacts ==
    ASSUME NEW db, NEW n, Typed(db, n), AllDistinct(db), NEW m \in (0 .. n - 1) \ DOMAIN db,
           NEW type \in {"DIRECTORY", "FILE"}, NEW parent \in DOMAIN db
    PROVE  NewIn(db, n, m, type, PutInode(db, m, NewInode(type, m, parent)))
<1> DEFINE inode == NewInode(type, m, parent)
           new == PutInode(db, m, inode)
<1>1. parent \in 0 .. n - 1
  BY DEF Typed
<1>2. /\ inode \in Inode(n) /\ (inode.type = "FILE" => inode.entries = <<>>)
      /\ inode.type = type
      /\ Distinct(inode.entries)
      /\ \A k \in DOMAIN inode.entries : inode.entries[k].name \in Dots
  <2>1. CASE type = "FILE"
    <3>1. inode = [type |-> "FILE", entries |-> <<>>]
      BY <2>1 DEF NewInode, NewFile
    <3>2. <<>> \in Seq(EntryOf(n)) /\ DOMAIN <<>> = {}
      OBVIOUS
    <3> HIDE DEF inode
    <3> QED  BY <2>1, <3>1, <3>2 DEF Inode, Distinct
  <2>2. CASE type = "DIRECTORY"
    <3> DEFINE one == Entry(".", m)
               two == Entry("..", parent)
               list == <<one, two>>
    <3>1. inode = [type |-> "DIRECTORY", entries |-> list]
      BY <2>2 DEF NewInode, NewDirectory
    <3>2. /\ one \in EntryOf(n) /\ two \in EntryOf(n)
          /\ one.name = "." /\ two.name = ".."
      BY <1>1 DEF Entry, EntryOf, Dots
    <3> HIDE DEF one, two
    <3>3. list \in Seq(EntryOf(n)) /\ DOMAIN list = 1 .. 2 /\ list[1] = one /\ list[2] = two
      BY <3>2
    <3> HIDE DEF list, inode
    <3>4. Distinct(list) /\ \A k \in DOMAIN list : list[k].name \in Dots
      BY <3>2, <3>3 DEF Distinct, Dots
    <3> QED  BY <2>2, <3>1, <3>3, <3>4 DEF Inode
  <2> QED  BY <2>1, <2>2
<1> HIDE DEF inode
<1>3. /\ DOMAIN new = DOMAIN db \cup {m} /\ new[m] = inode
      /\ \A i \in DOMAIN db : i # m /\ new[i] = db[i]
  BY DEF PutInode
<1> HIDE DEF new
<1>4. Typed(new, n)
  BY <1>2, <1>3 DEF Typed
<1>5. AllDistinct(new)
  BY <1>2, <1>3, Zenon DEF AllDistinct
<1>6. ASSUME NEW l \in Links(new) PROVE l \in Links(db)
  <2>1. /\ l.dir \in DOMAIN new /\ l.name \notin Dots
        /\ \E k \in DOMAIN new[l.dir].entries :
             new[l.dir].entries[k].name = l.name /\ new[l.dir].entries[k].id = l.id
    BY LinkTyped
  <2>2. l.dir # m
    BY <1>2, <1>3, <2>1, Zenon
  <2>3. l.dir \in DOMAIN db /\ new[l.dir] = db[l.dir]
    BY <1>3, <2>1, <2>2
  <2>4. PICK k \in DOMAIN db[l.dir].entries :
            db[l.dir].entries[k].name = l.name /\ db[l.dir].entries[k].id = l.id
    BY <2>1, <2>3, Zenon
  <2>5. l = Linked(l.dir, l.name, l.id)
    BY LinkIs, Zenon
  <2> QED  BY <2>1, <2>3, <2>4, <2>5, EntryLinks
<1>7. ASSUME NEW l \in Links(db) PROVE l \in Links(new)
  <2>1. /\ l.dir \in DOMAIN db /\ l.name \notin Dots
        /\ \E k \in DOMAIN db[l.dir].entries :
             db[l.dir].entries[k].name = l.name /\ db[l.dir].entries[k].id = l.id
    BY LinkTyped
  <2>2. l.dir \in DOMAIN new /\ new[l.dir] = db[l.dir]
    BY <1>3, <2>1
  <2>3. PICK k \in DOMAIN new[l.dir].entries :
            new[l.dir].entries[k].name = l.name /\ new[l.dir].entries[k].id = l.id
    BY <2>1, <2>2, Zenon
  <2>4. l = Linked(l.dir, l.name, l.id)
    BY LinkIs, Zenon
  <2> QED  BY <2>1, <2>2, <2>3, <2>4, EntryLinks
<1>8. Links(new) = Links(db)
  BY <1>6, <1>7
<1>9. new[m].type = type /\ \A i \in DOMAIN db : new[i].type = db[i].type
  BY <1>2, <1>3, Zenon
<1> QED  BY <1>3, <1>4, <1>5, <1>8, <1>9, Zenon DEF NewIn, new, inode

\* The calls' helpers report with the codes of the file system.
LEMMA ReportCodes ==
    ASSUME NEW db, NEW d, NEW name, NEW id
    PROVE  AppendInodeId(db, d, name, id).res \in Codes /\ RemoveDirectory(db, d).res \in Codes
<1>1. AppendInodeId(db, d, name, id).res \in Codes
  BY DEF AppendInodeId, Failed, Codes
<1>2. RemoveDirectory(db, d).res \in Codes
  BY DEF RemoveDirectory, Failed, Codes
<1> QED  BY <1>1, <1>2

----------------------------------------------------------------------------
(* Trees. *)

\* A new inode with a link from an old one.
LEMMA GrowForest ==
    ASSUME NEW D, NEW L, Forest(D, L), NEW new, new.id \notin D, new.dir \in D
    PROVE  Forest(D \cup {new.id}, L \cup {new})
<1> DEFINE m == new.id
<1>1. m # Root /\ Root \in D /\ new.dir # m
  BY DEF Forest
<1>2. \A l \in L : l.dir \in D /\ l.id \in D /\ l.id # Root /\ l.id # m /\ l.dir # m
  BY DEF Forest
<1>3. \A k, l \in L : k.id = l.id => k = l
  BY Zenon DEF Forest
<1>4. ASSUME NEW S \in SUBSET ((D \cup {m}) \ {Root}), S # {}
      PROVE  \E l \in L \cup {new} : l.id \in S /\ l.dir \notin S
  <2>1. CASE S \subseteq {m}
    BY <1>1, <1>4, <2>1
  <2>2. CASE ~(S \subseteq {m})
    <3>1. S \ {m} \in SUBSET (D \ {Root}) /\ S \ {m} # {}
      BY <2>2
    <3>2. PICK l \in L : l.id \in S \ {m} /\ l.dir \notin S \ {m}
      BY <3>1, Zenon DEF Forest
    <3> QED  BY <1>2, <3>2
  <2> QED  BY <2>1, <2>2
<1> HIDE DEF m
<1>5. \A l \in L \cup {new} : l.dir \in D \cup {m} /\ l.id \in (D \cup {m}) \ {Root}
  BY <1>1, <1>2 DEF m
<1>6. \A k, l \in L \cup {new} : k.id = l.id => k = l
  BY <1>2, <1>3 DEF m
<1> QED  BY <1>1, <1>4, <1>5, <1>6 DEF Forest, m

\* An inode from which no link comes goes, with the link to it.
LEMMA LeafForest ==
    ASSUME NEW D, NEW L, Forest(D, L), NEW gone \in L, \A l \in L : l.dir # gone.id
    PROVE  Forest(D \ {gone.id}, L \ {gone})
<1> DEFINE m == gone.id
<1>1. m # Root /\ Root \in D
  BY DEF Forest
<1>2. \A k, l \in L : k.id = l.id => k = l
  BY Zenon DEF Forest
<1>3. \A l \in L \ {gone} : l.dir \in D \ {m} /\ l.id \in (D \ {m}) \ {Root}
  BY <1>2 DEF Forest
<1>4. ASSUME NEW S \in SUBSET ((D \ {m}) \ {Root}), S # {}
      PROVE  \E l \in L \ {gone} : l.id \in S /\ l.dir \notin S
  <2>1. S \in SUBSET (D \ {Root}) /\ m \notin S
    OBVIOUS
  <2>2. PICK l \in L : l.id \in S /\ l.dir \notin S
    BY <1>4, <2>1, Zenon DEF Forest
  <2> QED  BY <2>1, <2>2
<1> HIDE DEF m
<1> QED  BY <1>1, <1>2, <1>3, <1>4 DEF Forest, m

\* Whatever leads to the new directory does not go through the moved inode.
Outside(D, L, old, new) ==
    \A S \in SUBSET (D \ {Root}) :
        old.id \in S /\ new.dir \in S => \E l \in L \ {old} : l.id \in S /\ l.dir \notin S

\* An inode is moved to a directory that is not below it.
LEMMA MoveForest ==
    ASSUME NEW D, NEW L, Forest(D, L), NEW old \in L, NEW new, new.id = old.id,
           new.dir \in D, Outside(D, L, old, new)
    PROVE  Forest(D, (L \ {old}) \cup {new})
<1> DEFINE M == (L \ {old}) \cup {new}
<1>1. Root \in D /\ \A l \in M : l.dir \in D /\ l.id \in D \ {Root}
  BY DEF Forest
<1>2. \A k, l \in L : k.id = l.id => k = l
  BY Zenon DEF Forest
<1>3. \A k, l \in M : k.id = l.id => k = l
  BY <1>2
<1>4. ASSUME NEW S \in SUBSET (D \ {Root}), S # {}
      PROVE  \E l \in M : l.id \in S /\ l.dir \notin S
  <2>1. PICK l \in L : l.id \in S /\ l.dir \notin S
    BY <1>4, Zenon DEF Forest
  <2>2. CASE l # old
    BY <2>1, <2>2
  <2>3. CASE l = old /\ new.dir \notin S
    BY <2>1, <2>3
  <2>4. CASE l = old /\ new.dir \in S
    <3>1. PICK k \in L \ {old} : k.id \in S /\ k.dir \notin S
      BY <2>1, <2>4, Zenon DEF Outside
    <3> QED  BY <3>1
  <2> QED  BY <2>2, <2>3, <2>4
<1> HIDE DEF M
<1> QED  BY <1>1, <1>3, <1>4 DEF Forest, M

\* A tree has no link from an inode to itself.
LEMMA NoSelfLink ==
    ASSUME NEW D, NEW L, Forest(D, L), NEW l \in L
    PROVE  l.dir # l.id
<1>1. {l.id} \in SUBSET (D \ {Root}) /\ {l.id} # {}
  BY DEF Forest
<1>2. PICK k \in L : k.id \in {l.id} /\ k.dir \notin {l.id}
  BY <1>1, Zenon DEF Forest
<1>3. k = l
  BY <1>2, Zenon DEF Forest
<1> QED  BY <1>2, <1>3

----------------------------------------------------------------------------
(* What the calls do. *)

\* Soundness in its parts.
LEMMA SoundParts ==
    ASSUME NEW db, NEW n
    PROVE  Sound(db, n) <=> /\ Typed(db, n) /\ Forest(DOMAIN db, Links(db))
                            /\ AllDistinct(db)
BY Zenon DEF Sound, AllDistinct

\* A directory has one link of a name.
LEMMA SameName ==
    ASSUME NEW db, AllDistinct(db), NEW d, NEW name, NEW a, NEW b,
           Linked(d, name, a) \in Links(db), Linked(d, name, b) \in Links(db)
    PROVE  a = b
<1>1. /\ Linked(d, name, a).dir = d /\ Linked(d, name, a).name = name
      /\ Linked(d, name, a).id = a
  BY LinkParts
<1>2. /\ Linked(d, name, b).dir = d /\ Linked(d, name, b).name = name
      /\ Linked(d, name, b).id = b
  BY LinkParts
<1>3. d \in DOMAIN db /\ \E k \in DOMAIN db[d].entries :
          db[d].entries[k].name = name /\ db[d].entries[k].id = a
  <2> DEFINE l == Linked(d, name, a)
  <2>1. l \in Links(db) /\ l.dir = d /\ l.name = name /\ l.id = a
    BY <1>1
  <2> HIDE DEF l
  <2> QED  BY <2>1, LinkTyped
<1>4. \E k \in DOMAIN db[d].entries :
          db[d].entries[k].name = name /\ db[d].entries[k].id = b
  <2> DEFINE l == Linked(d, name, b)
  <2>1. l \in Links(db) /\ l.dir = d /\ l.name = name /\ l.id = b
    BY <1>2
  <2> HIDE DEF l
  <2> QED  BY <2>1, LinkTyped
<1>5. Distinct(db[d].entries)
  BY <1>3, Zenon DEF AllDistinct
<1> QED  BY <1>3, <1>4, <1>5, Zenon DEF Distinct

\* The database new lacks the link gone and the inode it leads to.
Taken(db, n, gone, new) ==
    /\ gone \in Links(db) /\ \A l \in Links(db) : l.dir # gone.id
    /\ DOMAIN new = DOMAIN db \ {gone.id} /\ Links(new) = Links(db) \ {gone}
    /\ Sound(new, n) /\ \A i \in DOMAIN new : new[i].type = db[i].type

\* Taking the entry of an inode without children away, and then the inode,
\* leaves a tree (mtl_rmdir, mtl_unlink).
LEMMA RemoveLeaf ==
    ASSUME NEW db, NEW n, Sound(db, n), NEW d \in DOMAIN db, NEW name \in Names,
           RemoveEntry(db, d, name).res = "SUCCESS",
           LET entry == RemoveEntry(db, d, name)
           IN  \A k \in DOMAIN entry.db[entry.id].entries :
                 entry.db[entry.id].entries[k].name \in Dots
    PROVE  LET entry == RemoveEntry(db, d, name)
           IN  Taken(db, n, Linked(d, name, entry.id), DeleteInode(entry.db, entry.id))
<1> DEFINE entry == RemoveEntry(db, d, name)
           m == entry.id
           gone == Linked(d, name, m)
           new == DeleteInode(entry.db, m)
<1>0. Typed(db, n) /\ Forest(DOMAIN db, Links(db)) /\ AllDistinct(db)
  BY SoundParts, Zenon
<1>1. /\ gone \in Links(db) /\ Links(entry.db) = Links(db) \ {gone}
      /\ Typed(entry.db, n) /\ AllDistinct(entry.db) /\ Allied(entry.db, db)
  BY <1>0, RemoveFacts, Zenon
<1>2. gone.id = m /\ gone.dir # m
  BY <1>0, <1>1, LinkParts, NoSelfLink
<1>3. \A k \in DOMAIN entry.db[m].entries : entry.db[m].entries[k].name \in Dots
  BY Zenon
<1> HIDE DEF entry, m, gone
<1>4. DOMAIN entry.db = DOMAIN db /\ m \in DOMAIN db \ {Root}
  BY <1>0, <1>1, <1>2 DEF Allied, Forest
<1>5. /\ DOMAIN new = DOMAIN db \ {m} /\ Links(new) = Links(db) \ {gone}
      /\ Typed(new, n) /\ AllDistinct(new)
      /\ \A i \in DOMAIN new : new[i].type = entry.db[i].type
  BY <1>1, <1>3, <1>4, DeleteFacts, Zenon
<1> HIDE DEF new
<1>6. ASSUME NEW l \in Links(db) PROVE l.dir # m
  <2>1. CASE l = gone
    BY <1>2, <2>1
  <2>2. CASE l # gone
    <3>1. l \in Links(entry.db)
      BY <1>1, <2>2
    <3>2. /\ l.name \notin Dots
          /\ \E k \in DOMAIN entry.db[l.dir].entries : entry.db[l.dir].entries[k].name = l.name
      BY <3>1, LinkTyped
    <3> QED  BY <1>3, <3>2, Zenon
  <2> QED  BY <2>1, <2>2
<1>7. Forest(DOMAIN new, Links(new))
  BY <1>0, <1>1, <1>2, <1>5, <1>6, LeafForest
<1>8. Sound(new, n)
  BY <1>5, <1>7, SoundParts, Zenon
<1>9. \A i \in DOMAIN new : new[i].type = db[i].type
  BY <1>1, <1>4, <1>5 DEF Allied
<1>10. Taken(db, n, gone, new)
  BY <1>1, <1>2, <1>5, <1>6, <1>8, <1>9, Zenon DEF Taken
<1> QED  BY <1>10 DEF new, gone, m, entry

\* A path comes to where its beginning leads on the way.
LEMMA WalkSub ==
    ASSUME NEW db, NEW m, Sound(db, m), NEW path \in Seq(Names), NEW n \in 0 .. Len(path)
    PROVE  /\ SubSeq(path, 1, n) \in Seq(Names) /\ Len(SubSeq(path, 1, n)) = n
           /\ Resolve(db, SubSeq(path, 1, n)) = WalkOf(db, path)[n]
<1> DEFINE a == SubSeq(path, 1, n)
           u == WalkOf(db, a)
           w == WalkOf(db, path)
           T == {k \in Nat : k <= n => u[k] = w[k]}
<1>1. /\ a \in Seq(Names) /\ Len(a) = n /\ n \in Nat /\ n <= n
      /\ \A k \in 1 .. n : a[k] = path[k] /\ k \in 1 .. Len(path)
  OBVIOUS
<1>2. u[0] = Start /\ \A k \in 1 .. n : u[k] = WalkOn(db, a[k], u[k - 1])
  <2> HIDE DEF a
  <2> QED  BY <1>1, WalkFacts, Zenon
<1>3. w[0] = Start /\ \A k \in 1 .. Len(path) : w[k] = WalkOn(db, path[k], w[k - 1])
  BY WalkFacts, Zenon
<1>4. Resolve(db, a) = u[n]
  <2> HIDE DEF a
  <2> QED  BY <1>1, WalkFacts, Zenon
<1> HIDE DEF u, w, a
<1>5. 0 \in T
  BY <1>2, <1>3
<1>6. ASSUME NEW k \in Nat, k \in T PROVE k + 1 \in T
  <2>0. k + 1 \in Nat
    OBVIOUS
  <2> SUFFICES ASSUME k + 1 <= n PROVE u[k + 1] = w[k + 1]
    BY <2>0, Zenon
  <2>1. k + 1 \in 1 .. n /\ k <= n /\ (k + 1) - 1 = k
    BY <1>1
  <2>2. u[k] = w[k]
    BY <1>6, <2>1, Zenon
  <2> QED  BY <1>1, <1>2, <1>3, <2>1, <2>2, Zenon
<1>7. \A k \in Nat : k \in T
  <2> HIDE DEF T
  <2> QED  BY <1>5, <1>6, Inductive, Zenon
<1>8. u[n] = w[n]
  BY <1>1, <1>7, Zenon
<1> QED  BY <1>1, <1>4, <1>8, Zenon DEF a, w

\* A path comes to its directory on the way.
LEMMA WalkPrefix ==
    ASSUME NEW db, NEW n, Sound(db, n), NEW path \in CallPaths
    PROVE  Resolve(db, Dirname(path)) = WalkOf(db, path)[Len(path) - 1]
<1>1. path \in Seq(Names) /\ Len(path) - 1 \in 0 .. Len(path)
  BY PathTyped
<1> QED  BY <1>1, WalkSub, Zenon DEF Dirname

\* The directory an inode is renamed into is not below it: its path would
\* begin with the path of the inode, which the VFS refuses.
LEMMA RenameOutside ==
    ASSUME NEW db, NEW n, Sound(db, n), NEW from \in CallPaths, NEW to \in CallPaths,
           VfsRenames(from, to), NEW m, NEW name,
           Resolve(db, Dirname(from)).res = "SUCCESS", Resolve(db, Dirname(to)).res = "SUCCESS"
    PROVE  Outside(DOMAIN db, Links(db),
                   Linked(Resolve(db, Dirname(from)).id, Basename(from), m),
                   Linked(Resolve(db, Dirname(to)).id, name, m))
<1> DEFINE u == WalkOf(db, from)
           w == WalkOf(db, to)
           p == Len(from) - 1
           q == Len(to) - 1
           old == Linked(Resolve(db, Dirname(from)).id, Basename(from), m)
           new == Linked(Resolve(db, Dirname(to)).id, name, m)
<1>1. /\ from \in Seq(Names) /\ to \in Seq(Names) /\ p \in Nat /\ q \in Nat
      /\ p \in 0 .. Len(from) /\ q \in 0 .. Len(to)
      /\ Len(from) = p + 1 /\ Len(to) = q + 1
  BY PathTyped
<1>2. Resolve(db, Dirname(from)) = u[p] /\ Resolve(db, Dirname(to)) = w[q]
  BY WalkPrefix, Zenon
<1>3. /\ u[p].res = "SUCCESS" /\ w[q].res = "SUCCESS"
      /\ old.dir = u[p].id /\ old.name = Basename(from) /\ new.dir = w[q].id
  BY <1>2, LinkParts
<1>4. Basename(from) = from[p + 1]
  BY <1>1 DEF Basename
<1>5. w[0] = Start
  BY <1>1, WalkFacts, Zenon
<1>6. \A i \in 0 .. Len(from), j \in 0 .. Len(to) :
          u[i].res = "SUCCESS" /\ w[j].res = "SUCCESS" /\ u[i].id = w[j].id =>
            i = j /\ \A k \in 1 .. i : from[k] = to[k]
  BY <1>1, WalksMeet, SMTT(20)
<1>7. \A k \in 1 .. Len(to) : w[k].res = "SUCCESS" =>
          w[k - 1].res = "SUCCESS" /\ Linked(w[k - 1].id, to[k], w[k].id) \in Links(db)
  BY <1>1, WalkLinks, Zenon
<1> HIDE DEF u, w, old, new, p, q
<1> SUFFICES ASSUME NEW S \in SUBSET (DOMAIN db \ {Root}), new.dir \in S
             PROVE  \E l \in Links(db) \ {old} : l.id \in S /\ l.dir \notin S
  BY Zenon DEF Outside, old, new
<1> DEFINE T == {j \in 0 .. q : w[j].res = "SUCCESS" /\ w[j].id \in S}
<1>8. q \in T /\ T \subseteq Nat
  BY <1>1, <1>3
<1>9. PICK j \in T : \A k \in T : j <= k
  <2> HIDE DEF T
  <2> QED  BY <1>8, LeastElement, Zenon
<1>10. j \in 0 .. q /\ w[j].res = "SUCCESS" /\ w[j].id \in S
  OBVIOUS
<1>11. j # 0
  BY <1>5, <1>10 DEF Start
<1>12. j \in 1 .. Len(to) /\ j - 1 \in 0 .. q /\ j - 1 \in 0 .. Len(to) /\ ~ (j <= j - 1)
  BY <1>1, <1>10, <1>11
<1> DEFINE l == Linked(w[j - 1].id, to[j], w[j].id)
<1>13. w[j - 1].res = "SUCCESS" /\ l \in Links(db)
  BY <1>7, <1>10, <1>12, Zenon
<1>14. w[j - 1].id \notin S
  <2>1. j - 1 \notin T
    <3> HIDE DEF T
    <3> QED  BY <1>9, <1>12, Zenon
  <2> QED  BY <1>12, <1>13, <2>1
<1>15. l.dir = w[j - 1].id /\ l.id = w[j].id /\ l.name = to[j]
  BY LinkParts
<1> HIDE DEF T, l
<1>16. l # old
  <2> SUFFICES ASSUME l = old PROVE FALSE
    OBVIOUS
  <2>1. u[p].id = w[j - 1].id /\ from[p + 1] = to[j]
    BY <1>3, <1>4, <1>15, Zenon
  <2>2. p = j - 1 /\ \A k \in 1 .. p : from[k] = to[k]
    BY <1>1, <1>3, <1>6, <1>12, <1>13, <2>1, Zenon
  <2>3. j = p + 1 /\ Len(from) < Len(to)
    BY <1>1, <1>10, <2>2
  <2>4. \A k \in 1 .. Len(from) : from[k] = to[k]
    BY <1>1, <2>1, <2>2, <2>3
  <2> QED  BY <2>3, <2>4, Zenon DEF VfsRenames
<1> QED  BY <1>10, <1>13, <1>14, <1>15, <1>16

\* The database new has one inode more, at the end of the link.
Placed(db, n, link, type, new) ==
    /\ link.id \notin DOMAIN db /\ link.dir \in DOMAIN db
    /\ db[link.dir].type = "DIRECTORY"
    /\ DOMAIN new = DOMAIN db \cup {link.id} /\ Links(new) = Links(db) \cup {link}
    /\ Sound(new, n + 1) /\ new[link.id].type = type
    /\ \A i \in DOMAIN db : new[i].type = db[i].type

\* mtl_create_directory_in_directory and mtl_create_file_in_directory.
LEMMA MakeDoes ==
    ASSUME NEW db, NEW m \in Nat, Sound(db, m), NEW d \in DOMAIN db, NEW name \in Names,
           NEW type \in {"DIRECTORY", "FILE"}, AppendInodeId(db, d, name, m).res = "SUCCESS"
    PROVE  Placed(db, m, Linked(d, name, m), type,
                  PutInode(AppendInodeId(db, d, name, m).db, m, NewInode(type, m, d)))
<1> DEFINE n == m + 1
           put == AppendInodeId(db, d, name, m).db
           link == Linked(d, name, m)
           new == PutInode(put, m, NewInode(type, m, d))
<1>0. Typed(db, m) /\ Forest(DOMAIN db, Links(db)) /\ AllDistinct(db)
  BY SoundParts, Zenon
<1>1. m \in 0 .. n - 1 /\ m \notin DOMAIN db /\ Typed(db, n)
  <2>1. m \in 0 .. n - 1 /\ m \notin 0 .. m - 1
    OBVIOUS
  <2>2. DOMAIN db \subseteq 0 .. m - 1
    BY <1>0, Zenon DEF Typed
  <2> QED  BY <1>0, <2>1, <2>2, MoreIds
<1> HIDE DEF n
<1>2. /\ Links(put) = Links(db) \cup {link} /\ db[d].type = "DIRECTORY"
      /\ Typed(put, n) /\ AllDistinct(put) /\ Allied(put, db)
  BY <1>0, <1>1, AddFacts, SMTT(20)
<1>3. link.id = m /\ link.dir = d
  BY LinkParts
<1> HIDE DEF put, link
<1>4. DOMAIN put = DOMAIN db /\ \A i \in DOMAIN db : put[i].type = db[i].type
  BY <1>2, Zenon DEF Allied
<1>5. NewIn(put, n, m, type, new)
  <2>1. m \in (0 .. n - 1) \ DOMAIN put /\ d \in DOMAIN put
    BY <1>1, <1>4
  <2> QED  BY <1>2, <2>1, NewFacts, SMTT(20)
<1> HIDE DEF new
<1>6. /\ DOMAIN new = DOMAIN db \cup {link.id} /\ Links(new) = Links(db) \cup {link}
      /\ Typed(new, n) /\ AllDistinct(new) /\ new[link.id].type = type
      /\ \A i \in DOMAIN db : new[i].type = db[i].type
  BY <1>2, <1>3, <1>4, <1>5, Zenon DEF NewIn
<1>7. Forest(DOMAIN db \cup {link.id}, Links(db) \cup {link})
  BY <1>0, <1>1, <1>3, GrowForest, Zenon
<1>8. Sound(new, n)
  BY <1>6, <1>7, SoundParts, Zenon
<1>9. Placed(db, m, link, type, new)
  BY <1>1, <1>2, <1>3, <1>6, <1>8, Zenon DEF Placed, n
<1> QED  BY <1>9 DEF link, new, put

\* mtl_remove_directory, when it agrees: the directory was empty.
LEMMA RmdirDoes ==
    ASSUME NEW db, NEW n, Sound(db, n), NEW d \in DOMAIN db, NEW name \in Names,
           RemoveEntry(db, d, name).res = "SUCCESS",
           RemoveDirectory(RemoveEntry(db, d, name).db, RemoveEntry(db, d, name).id).res
             = "SUCCESS"
    PROVE  LET entry == RemoveEntry(db, d, name)
           IN  Taken(db, n, Linked(d, name, entry.id), RemoveDirectory(entry.db, entry.id).db)
<1> DEFINE entry == RemoveEntry(db, d, name)
           removed == RemoveDirectory(entry.db, entry.id)
           new == DeleteInode(entry.db, entry.id)
           list == entry.db[entry.id].entries
<1>1. removed = IF entry.db[entry.id].type # "DIRECTORY" THEN Failed("NOTDIRECTORY")
                ELSE IF \E k \in DOMAIN list : list[k].name \notin Dots
                     THEN Failed("NOTEMPTY")
                ELSE [res |-> "SUCCESS", id |-> entry.id, db |-> new]
  BY Zenon DEF RemoveDirectory
<1> HIDE DEF removed, new, entry
<1>2. removed.db = new /\ \A k \in DOMAIN list : list[k].name \in Dots
  <2>1. removed.res = "SUCCESS"
    BY Zenon DEF removed, entry
  <2> QED  BY <1>1, <2>1 DEF Failed
<1>3. Taken(db, n, Linked(d, name, entry.id), new)
  BY <1>2, RemoveLeaf, Zenon DEF new, entry
<1> QED  BY <1>2, <1>3, Zenon DEF removed, entry

\* mtl_unlink, although it does not look at what its helpers report: there is
\* an entry because the VFS has found the file.
LEMMA UnlinkDoes ==
    ASSUME NEW db, NEW n, Sound(db, n), NEW path \in CallPaths,
           Resolve(db, path).res = "SUCCESS", db[Resolve(db, path).id].type = "FILE"
    PROVE  LET d == Resolve(db, Dirname(path)).id
               entry == RemoveEntry(db, d, Basename(path))
           IN  Taken(db, n, Linked(d, Basename(path), Resolve(db, path).id),
                     DeleteInode(entry.db, entry.id))
<1> DEFINE parent == Resolve(db, Dirname(path))
           d == parent.id
           name == Basename(path)
           entry == RemoveEntry(db, d, name)
           file == Resolve(db, path)
           w == WalkOf(db, path)
           link == Linked(d, name, file.id)
           new == DeleteInode(entry.db, entry.id)
<1>0. Typed(db, n) /\ AllDistinct(db)
  BY SoundParts, Zenon
<1>1. /\ path \in Seq(Names) /\ Dirname(path) \in Seq(Names) /\ name \in Names
      /\ Len(path) \in 1 .. Len(path) /\ name = path[Len(path)] /\ name \notin Dots
  BY PathTyped DEF Basename
<1>2. d \in DOMAIN db /\ file.id \in DOMAIN db
  BY <1>0, <1>1, ResolveTyped, Zenon
<1>3. file.res = "SUCCESS" /\ db[file.id].type = "FILE"
  BY Zenon
<1>4. parent = w[Len(path) - 1] /\ file = w[Len(path)]
  BY <1>0, <1>1, WalkPrefix, WalkFacts, Zenon
<1>5. link \in Links(db)
  <2>1. w[Len(path)].res = "SUCCESS"
    BY <1>3, <1>4, Zenon
  <2>2. Linked(w[Len(path) - 1].id, path[Len(path)], w[Len(path)].id) \in Links(db)
    BY <1>0, <1>1, <2>1, WalkLinks, Zenon
  <2> QED  BY <1>1, <1>4, <2>2, Zenon
<1>6. link.dir = d /\ link.name = name /\ link.id = file.id
  BY LinkParts
<1> HIDE DEF link, file, w, d, name
<1>8. \E k \in DOMAIN db[d].entries : db[d].entries[k].name = name
  BY <1>5, <1>6, LinkTyped
<1>9. db[d].type = "DIRECTORY"
  <2>1. db[d].type = "FILE" => db[d].entries = <<>>
    BY <1>0, <1>2, Zenon DEF Typed
  <2>2. db[d].type \in {"DIRECTORY", "FILE"}
    BY <1>0, <1>2, InodeTyped, Zenon
  <2> QED  BY <1>8, <2>1, <2>2
<1>10. entry.res = "SUCCESS"
  BY <1>0, <1>1, <1>2, <1>8, <1>9, RemoveFinds
<1>11. /\ Linked(d, name, entry.id) \in Links(db)
       /\ Typed(entry.db, n) /\ Allied(entry.db, db)
  BY <1>0, <1>1, <1>2, <1>10, RemoveFacts, Zenon
<1>12. entry.id = file.id
  BY <1>0, <1>5, <1>11, SameName, Zenon DEF link
<1>13. entry.db[entry.id].entries = <<>>
  <2>1. entry.id \in DOMAIN entry.db /\ entry.db[entry.id].type = "FILE"
    BY <1>2, <1>3, <1>11, <1>12, Zenon DEF Allied
  <2> QED  BY <1>11, <2>1, Zenon DEF Typed
<1>14. \A k \in DOMAIN entry.db[entry.id].entries : entry.db[entry.id].entries[k].name \in Dots
  BY <1>13
<1>15. Taken(db, n, Linked(d, name, entry.id), new)
  BY <1>0, <1>1, <1>2, <1>10, <1>14, RemoveLeaf, Zenon
<1> QED  BY <1>12, <1>15, Zenon DEF d, name, file

\* In the database new, the link to has taken the place of the link from.
Shifted(db, n, from, to, new) ==
    /\ from \in Links(db) /\ to.id = from.id
    /\ to.dir \in DOMAIN db /\ db[to.dir].type = "DIRECTORY"
    /\ \A l \in Links(db) \ {from} : l.dir = to.dir => l.name # to.name
    /\ Outside(DOMAIN db, Links(db), from, to)
    /\ DOMAIN new = DOMAIN db /\ Links(new) = (Links(db) \ {from}) \cup {to}
    /\ Sound(new, n) /\ \A i \in DOMAIN db : new[i].type = db[i].type

\* mtl_rename, when nothing is in its way.
LEMMA RenameDoes ==
    ASSUME NEW db, NEW n, Sound(db, n), NEW from \in CallPaths, NEW to \in CallPaths,
           VfsRenames(from, to),
           NEW c, NEW e, c = Resolve(db, Dirname(from)), e = Resolve(db, Dirname(to)),
           c.res = "SUCCESS", e.res = "SUCCESS",
           NEW entry, entry = RemoveEntry(db, c.id, Basename(from)), entry.res = "SUCCESS",
           NEW added, added = AppendInodeId(entry.db, e.id, Basename(to), entry.id),
           added.res = "SUCCESS"
    PROVE  Shifted(db, n, Linked(c.id, Basename(from), entry.id),
                   Linked(e.id, Basename(to), entry.id), added.db)
<1> DEFINE m == entry.id
           old == Linked(c.id, Basename(from), m)
           new == Linked(e.id, Basename(to), m)
<1>0. /\ Typed(db, n) /\ AllDistinct(db)
      /\ Forest(DOMAIN db, Links(db))
  BY SoundParts, Zenon
<1>1. /\ Dirname(from) \in Seq(Names) /\ Basename(from) \in Names
      /\ Dirname(to) \in Seq(Names) /\ Basename(to) \in Names
  BY PathTyped, Zenon
<1>2. c.id \in DOMAIN db /\ e.id \in DOMAIN db
  BY <1>0, <1>1, ResolveTyped, Zenon
<1>3. Outside(DOMAIN db, Links(db), old, new)
  BY RenameOutside, Zenon
<1>4. /\ old \in Links(db) /\ Links(entry.db) = Links(db) \ {old}
      /\ Typed(entry.db, n) /\ AllDistinct(entry.db) /\ Allied(entry.db, db)
  <2> DEFINE d == c.id
             name == Basename(from)
             r == RemoveEntry(db, d, name)
  <2>1. d \in DOMAIN db /\ name \in Names /\ r.res = "SUCCESS" /\ r = entry
    BY <1>1, <1>2, Zenon
  <2> HIDE DEF d, name
  <2>2. /\ Linked(d, name, r.id) \in Links(db)
        /\ Links(r.db) = Links(db) \ {Linked(d, name, r.id)}
        /\ Typed(r.db, n) /\ AllDistinct(r.db) /\ Allied(r.db, db)
    BY <1>0, <2>1, RemoveFacts, Zenon
  <2> HIDE DEF r
  <2> QED  BY <2>1, <2>2, Zenon DEF d, name
<1>5. old.id = m /\ new.id = m /\ new.dir = e.id /\ new.name = Basename(to)
  BY LinkParts
<1> HIDE DEF m, old, new
<1>6. DOMAIN entry.db = DOMAIN db /\ e.id \in DOMAIN entry.db
  BY <1>2, <1>4, Zenon DEF Allied
<1>7. m \in 0 .. n - 1
  <2>1. m \in DOMAIN db
    BY <1>0, <1>4, <1>5 DEF Forest
  <2> QED  BY <1>0, <2>1 DEF Typed
<1>8. /\ Links(added.db) = Links(entry.db) \cup {new} /\ entry.db[e.id].type = "DIRECTORY"
      /\ Typed(added.db, n) /\ AllDistinct(added.db) /\ Allied(added.db, entry.db)
  <2> DEFINE less == entry.db
             above == e.id
             name == Basename(to)
  <2>1. /\ Typed(less, n) /\ AllDistinct(less) /\ above \in DOMAIN less /\ name \in Names
        /\ m \in 0 .. n - 1 /\ AppendInodeId(less, above, name, m).res = "SUCCESS"
    BY <1>1, <1>4, <1>6, <1>7, Zenon DEF m
  <2> HIDE DEF less, above, name
  <2>2. LET put == AppendInodeId(less, above, name, m).db
        IN  /\ Links(put) = Links(less) \cup {Linked(above, name, m)}
            /\ less[above].type = "DIRECTORY"
            /\ Typed(put, n) /\ AllDistinct(put) /\ Allied(put, less)
    BY <2>1, AddFacts, SMTT(20)
  <2> QED  BY <2>2, Zenon DEF less, above, name, m, new
<1>9. DOMAIN added.db = DOMAIN db /\ \A i \in DOMAIN db : added.db[i].type = db[i].type
  <2>1. /\ DOMAIN added.db = DOMAIN entry.db
        /\ \A i \in DOMAIN entry.db : added.db[i].type = entry.db[i].type
    BY <1>8, Zenon DEF Allied
  <2>2. \A i \in DOMAIN db : entry.db[i].type = db[i].type
    BY <1>4, Zenon DEF Allied
  <2> QED  BY <1>6, <2>1, <2>2, Zenon
<1>10. Sound(added.db, n)
  <2>1. Forest(DOMAIN db, (Links(db) \ {old}) \cup {new})
    BY <1>0, <1>2, <1>3, <1>4, <1>5, MoveForest, Zenon
  <2>2. Forest(DOMAIN added.db, Links(added.db))
    BY <1>4, <1>8, <1>9, <2>1, Zenon
  <2> QED  BY <1>8, <2>2, SoundParts, Zenon
<1>11. db[e.id].type = "DIRECTORY"
  BY <1>2, <1>4, <1>8, Zenon DEF Allied
<1>12. ASSUME NEW l \in Links(db) \ {old}, l.dir = new.dir PROVE l.name # new.name
  <2>1. l \in Links(entry.db)
    BY <1>4, Zenon
  <2>2. \E k \in DOMAIN entry.db[e.id].entries : entry.db[e.id].entries[k].name = l.name
    BY <1>5, <1>12, <2>1, LinkTyped
  <2>3. ~ \E k \in DOMAIN entry.db[e.id].entries : entry.db[e.id].entries[k].name = Basename(to)
    <3>1. Failed("EXISTS").res # "SUCCESS" /\ Failed("NOTDIRECTORY").res # "SUCCESS"
      BY DEF Failed
    <3> SUFFICES ASSUME \E k \in DOMAIN entry.db[e.id].entries :
                          entry.db[e.id].entries[k].name = Basename(to)
                 PROVE  added = Failed("EXISTS") \/ added = Failed("NOTDIRECTORY")
      BY <3>1, Zenon
    <3> QED  BY Zenon DEF AppendInodeId
  <2> QED  BY <1>5, <2>2, <2>3, Zenon
<1> QED  BY <1>2, <1>3, <1>4, <1>5, <1>8, <1>9, <1>10, <1>11, <1>12, Zenon DEF Shifted, m, old, new

----------------------------------------------------------------------------
(* The invariant. *)

\* A call that gives up changes nothing that was committed.
LEMMA AbortInd ==
    ASSUME IndInv, NEW code \in Codes, Abort(code)
    PROVE  IndInv'
BY Zenon DEF IndInv, Abort

\* A call that commits a sound database without taking an id.
LEMMA CommitInd ==
    ASSUME IndInv, NEW db, Sound(db, nextId), CommitTo(db), UNCHANGED nextId
    PROVE  IndInv'
<1>1. "SUCCESS" \in Codes
  BY DEF Codes
<1> QED  BY <1>1, Zenon DEF IndInv, CommitTo

\* mtl_create and mtl_mkdir.
LEMMA MakeInd ==
    ASSUME IndInv, NEW path \in CallPaths, NEW type \in {"DIRECTORY", "FILE"},
           MakeIn(path, type)
    PROVE  IndInv'
<1> DEFINE m == nextId
           parent == Resolve(inodes, Dirname(path))
           added == AppendInodeId(inodes, parent.id, Basename(path), m)
           link == Linked(parent.id, Basename(path), m)
           new == PutInode(added.db, m, NewInode(type, m, parent.id))
<1>0. Sound(inodes, m) /\ m \in 1 .. MaxInodes + 1
  BY Zenon DEF IndInv
<1>1. m \in Nat
  BY <1>0, NamespaceAssumption
<1>2. Dirname(path) \in Seq(Names) /\ Basename(path) \in Names
  BY PathTyped, Zenon
<1>3. parent.res \in Codes /\ parent.id \in DOMAIN inodes
  BY <1>0, <1>2, ResolveTyped, Zenon
<1>4. added.res \in Codes
  BY ReportCodes, Zenon
<1>5. CASE parent.res # "SUCCESS"
  <2>1. Abort(parent.res)
    BY <1>5, Zenon DEF MakeIn
  <2> QED  BY <1>3, <2>1, AbortInd, Zenon
<1>6. CASE parent.res = "SUCCESS" /\ added.res # "SUCCESS"
  <2>1. Abort(added.res)
    BY <1>6, Zenon DEF MakeIn
  <2> QED  BY <1>4, <2>1, AbortInd, Zenon
<1>7. CASE parent.res = "SUCCESS" /\ added.res = "SUCCESS"
  <2>1. CommitTo(new) /\ nextId' = NextId(nextId) /\ nextId <= MaxInodes
    BY <1>7, Zenon DEF MakeIn
  <2>2. Placed(inodes, m, link, type, new)
    <3> HIDE DEF parent, m
    <3> QED  BY <1>0, <1>1, <1>2, <1>3, <1>7, MakeDoes, Zenon
  <2>3. inodes' = new /\ result' \in Codes
    BY <2>1 DEF CommitTo, Codes
  <2>4. nextId' = m + 1 /\ m + 1 \in 1 .. MaxInodes + 1
    BY <1>1, <2>1, NamespaceAssumption DEF NextId
  <2> HIDE DEF m, link, new
  <2> QED  BY <2>2, <2>3, <2>4, Zenon DEF IndInv, Placed
<1> QED  BY <1>5, <1>6, <1>7, Zenon

\* mtl_rmdir.
LEMMA RmdirInd ==
    ASSUME IndInv, NEW path \in CallPaths, Rmdir(path)
    PROVE  IndInv'
<1> DEFINE parent == Resolve(inodes, Dirname(path))
           entry == RemoveEntry(inodes, parent.id, Basename(path))
           removed == RemoveDirectory(entry.db, entry.id)
<1>0. Sound(inodes, nextId) /\ Typed(inodes, nextId)
  BY SoundParts, Zenon DEF IndInv
<1>1. Dirname(path) \in Seq(Names) /\ Basename(path) \in Names
  BY PathTyped, Zenon
<1>2. parent.res \in Codes /\ parent.id \in DOMAIN inodes
  BY <1>0, <1>1, ResolveTyped, Zenon
<1>3. entry.res \in Codes
  <2> HIDE DEF parent
  <2> QED  BY <1>0, <1>1, <1>2, RemoveFinds
<1>4. removed.res \in Codes
  BY ReportCodes, Zenon
<1>5. CASE parent.res # "SUCCESS"
  <2>1. Abort(parent.res)
    BY <1>5, Zenon DEF Rmdir
  <2> QED  BY <1>2, <2>1, AbortInd, Zenon
<1>6. CASE parent.res = "SUCCESS" /\ entry.res # "SUCCESS"
  <2>1. Abort(entry.res)
    BY <1>6, Zenon DEF Rmdir
  <2> QED  BY <1>3, <2>1, AbortInd, Zenon
<1>7. CASE parent.res = "SUCCESS" /\ entry.res = "SUCCESS" /\ removed.res # "SUCCESS"
  <2>1. Abort(removed.res)
    BY <1>7, Zenon DEF Rmdir
  <2> QED  BY <1>4, <2>1, AbortInd, Zenon
<1>8. CASE parent.res = "SUCCESS" /\ entry.res = "SUCCESS" /\ removed.res = "SUCCESS"
  <2>1. CommitTo(removed.db) /\ UNCHANGED nextId
    BY <1>8, Zenon DEF Rmdir
  <2>2. Taken(inodes, nextId, Linked(parent.id, Basename(path), entry.id), removed.db)
    <3> HIDE DEF parent
    <3> QED  BY <1>0, <1>1, <1>2, <1>8, RmdirDoes, Zenon
  <2> HIDE DEF removed
  <2> QED  BY <2>1, <2>2, CommitInd, Zenon DEF Taken
<1> QED  BY <1>5, <1>6, <1>7, <1>8, Zenon

\* mtl_unlink.
LEMMA UnlinkInd ==
    ASSUME IndInv, NEW path \in CallPaths, VfsUnlinks(path), Unlink(path)
    PROVE  IndInv'
<1> DEFINE d == Resolve(inodes, Dirname(path)).id
           entry == RemoveEntry(inodes, d, Basename(path))
           new == DeleteInode(entry.db, entry.id)
<1>1. Resolve(inodes, path).res = "SUCCESS" /\ inodes[Resolve(inodes, path).id].type = "FILE"
  BY Zenon DEF VfsUnlinks
<1>2. Taken(inodes, nextId, Linked(d, Basename(path), Resolve(inodes, path).id), new)
  BY <1>1, UnlinkDoes, Zenon DEF IndInv
<1>3. CommitTo(new) /\ UNCHANGED nextId
  BY Zenon DEF Unlink
<1> HIDE DEF new
<1> QED  BY <1>2, <1>3, CommitInd, Zenon DEF Taken

\* mtl_rename.
LEMMA RenameInd ==
    ASSUME IndInv, NEW from \in CallPaths, NEW to \in CallPaths, VfsRenames(from, to),
           Rename(from, to)
    PROVE  IndInv'
<1> DEFINE fromParent == Resolve(inodes, Dirname(from))
           toParent == Resolve(inodes, Dirname(to))
           entry == RemoveEntry(inodes, fromParent.id, Basename(from))
           added == AppendInodeId(entry.db, toParent.id, Basename(to), entry.id)
<1>0. Sound(inodes, nextId) /\ Typed(inodes, nextId)
  BY SoundParts, Zenon DEF IndInv
<1>1. /\ Dirname(from) \in Seq(Names) /\ Basename(from) \in Names
      /\ Dirname(to) \in Seq(Names) /\ Basename(to) \in Names
  BY PathTyped, Zenon
<1>2. /\ fromParent.res \in Codes /\ fromParent.id \in DOMAIN inodes
      /\ toParent.res \in Codes /\ toParent.id \in DOMAIN inodes
  BY <1>0, <1>1, ResolveTyped, Zenon
<1>3. entry.res \in Codes
  <2> HIDE DEF fromParent
  <2> QED  BY <1>0, <1>1, <1>2, RemoveFinds
<1>4. added.res \in Codes
  BY ReportCodes, Zenon
<1>5. CASE fromParent.res # "SUCCESS"
  <2>1. Abort(fromParent.res)
    BY <1>5, Zenon DEF Rename
  <2> QED  BY <1>2, <2>1, AbortInd, Zenon
<1>6. CASE fromParent.res = "SUCCESS" /\ toParent.res # "SUCCESS"
  <2>1. Abort(toParent.res)
    BY <1>6, Zenon DEF Rename
  <2> QED  BY <1>2, <2>1, AbortInd, Zenon
<1>7. CASE fromParent.res = "SUCCESS" /\ toParent.res = "SUCCESS" /\ entry.res # "SUCCESS"
  <2>1. Abort(entry.res)
    BY <1>7, Zenon DEF Rename
  <2> QED  BY <1>3, <2>1, AbortInd, Zenon
<1>8. CASE /\ fromParent.res = "SUCCESS" /\ toParent.res = "SUCCESS"
           /\ entry.res = "SUCCESS" /\ added.res # "SUCCESS"
  <2>1. Abort(added.res)
    BY <1>8, Zenon DEF Rename
  <2> QED  BY <1>4, <2>1, AbortInd, Zenon
<1>9. CASE /\ fromParent.res = "SUCCESS" /\ toParent.res = "SUCCESS"
           /\ entry.res = "SUCCESS" /\ added.res = "SUCCESS"
  <2>1. CommitTo(added.db) /\ UNCHANGED nextId
    BY <1>9, Zenon DEF Rename
  <2>2. Shifted(inodes, nextId, Linked(fromParent.id, Basename(from), entry.id),
                Linked(toParent.id, Basename(to), entry.id), added.db)
    BY <1>0, <1>9, RenameDoes, Zenon
  <2> HIDE DEF added
  <2> QED  BY <2>1, <2>2, CommitInd, Zenon DEF Shifted
<1> QED  BY <1>5, <1>6, <1>7, <1>8, <1>9, Zenon

\* mtl_initialize makes the root directory.
LEMMA InitInd == Init => IndInv
<1> SUFFICES ASSUME Init PROVE IndInv
  OBVIOUS
<1> DEFINE one == Entry(".", Root)
           two == Entry("..", Root)
           list == <<one, two>>
           inode == [type |-> "DIRECTORY", entries |-> list]
<1>1. inodes = [i \in {Root} |-> inode] /\ nextId = 1 /\ result = "SUCCESS"
  BY Zenon DEF Init, NewDirectory
<1>2. /\ one \in EntryOf(1) /\ two \in EntryOf(1) /\ one.name = "." /\ two.name = ".."
  BY DEF Entry, EntryOf, Dots, Root
<1> HIDE DEF one, two
<1>3. list \in Seq(EntryOf(1)) /\ DOMAIN list = 1 .. 2 /\ list[1] = one /\ list[2] = two
  BY <1>2
<1> HIDE DEF list
<1>4. Distinct(list) /\ \A k \in DOMAIN list : list[k].name \in Dots
  BY <1>2, <1>3 DEF Distinct, Dots
<1>5. inode \in Inode(1) /\ inode.type = "DIRECTORY" /\ inode.entries = list
  BY <1>3 DEF Inode
<1> HIDE DEF inode
<1>6. DOMAIN inodes = {Root} /\ inodes[Root] = inode
  BY <1>1
<1>7. Typed(inodes, 1)
  <2>1. Root \in 0 .. 1 - 1 /\ 1 \in Nat
    BY DEF Root
  <2> QED  BY <1>5, <1>6, <2>1 DEF Typed
<1>8. AllDistinct(inodes)
  BY <1>4, <1>5, <1>6, Zenon DEF AllDistinct
<1>9. Links(inodes) = {}
  <2> SUFFICES ASSUME NEW l \in Links(inodes) PROVE FALSE
    OBVIOUS
  <2>1. l.dir = Root /\ l.name \notin Dots
        /\ \E k \in DOMAIN inodes[l.dir].entries : inodes[l.dir].entries[k].name = l.name
    BY <1>6, LinkTyped
  <2> QED  BY <1>4, <1>5, <1>6, <2>1, Zenon
<1>10. Forest(DOMAIN inodes, Links(inodes))
  BY <1>6, <1>9 DEF Forest
<1>11. Sound(inodes, nextId)
  BY <1>1, <1>7, <1>8, <1>10, SoundParts, Zenon
<1>12. nextId \in 1 .. MaxInodes + 1 /\ result \in Codes
  BY <1>1, NamespaceAssumption DEF Codes
<1> QED  BY <1>11, <1>12, Zenon DEF IndInv

\* Every call keeps the invariant.
LEMMA NextInd == IndInv /\ [Next]_vars => IndInv'
<1> SUFFICES ASSUME IndInv, [Next]_vars PROVE IndInv'
  OBVIOUS
<1>1. CASE UNCHANGED vars
  BY <1>1, Zenon DEF IndInv, vars
<1>2. CASE Next
  <2>1. PICK path \in CallPaths :
            \/ Lookup(path) \/ Mkdir(path) \/ Create(path) \/ Rmdir(path)
            \/ VfsUnlinks(path) /\ Unlink(path)
            \/ \E to \in CallPaths : VfsRenames(path, to) /\ Rename(path, to)
    BY <1>2, Zenon DEF Next
  <2>2. CASE Lookup(path)
    <3>1. Sound(inodes, nextId) /\ path \in Seq(Names)
      BY PathTyped, Zenon DEF IndInv
    <3>2. Resolve(inodes, path).res \in Codes
      BY <3>1, ResolveTyped, Zenon
    <3> QED  BY <2>2, <3>2, AbortInd, Zenon DEF Lookup
  <2>3. CASE Mkdir(path)
    BY <2>3, MakeInd, Zenon DEF Mkdir
  <2>4. CASE Create(path)
    BY <2>4, MakeInd, Zenon DEF Create
  <2>5. CASE Rmdir(path)
    BY <2>5, RmdirInd, Zenon
  <2>6. CASE VfsUnlinks(path) /\ Unlink(path)
    BY <2>6, UnlinkInd, Zenon
  <2>7. CASE \E to \in CallPaths : VfsRenames(path, to) /\ Rename(path, to)
    BY <2>7, RenameInd, Zenon
  <2> QED  BY <2>1, <2>2, <2>3, <2>4, <2>5, <2>6, <2>7, Zenon
<1> QED  BY <1>1, <1>2, Zenon

\* The invariant says that the types are right.
LEMMA IndTyped == IndInv => TypeOK
<1> SUFFICES ASSUME IndInv PROVE TypeOK
  OBVIOUS
<1>1. Typed(inodes, nextId) /\ nextId \in 1 .. MaxInodes + 1 /\ result \in Codes
  BY SoundParts, Zenon DEF IndInv
<1>2. Root \in DOMAIN inodes /\ \A i \in DOMAIN inodes : i \in 0 .. nextId - 1
  BY <1>1 DEF Typed
<1>3. ASSUME NEW i \in DOMAIN inodes
      PROVE  /\ inodes[i].type \in {"DIRECTORY", "FILE"}
             /\ \A k \in DOMAIN inodes[i].entries :
                  /\ inodes[i].entries[k].name \in Names \cup Dots
                  /\ inodes[i].entries[k].id \in 0 .. nextId - 1
  BY <1>1, InodeTyped
<1> QED  BY <1>1, <1>2, <1>3, Zenon DEF TypeOK

\* The databases hold what inode.c writes, with ids that mtl_next_id has
\* handed out, after any sequence of calls.
THEOREM NamespaceTyped == Spec => []TypeOK
<1>1. IndInv => TypeOK
  BY IndTyped
<1> QED  BY InitInd, NextInd, <1>1, PTL DEF Spec

\* After any sequence of calls of metal.c, on any names and paths, the
\* directories form one tree over all inodes: mtl_mkdir, mtl_create,
\* mtl_rmdir, mtl_unlink and mtl_rename never leave an inode without an entry,
\* an entry without an inode, an inode with two entries, a name twice in a
\* directory, or a directory below itself.
THEOREM TreeKept == Spec => []DirectoriesFormTree
<1>1. IndInv => DirectoriesFormTree
  <2> SUFFICES ASSUME IndInv PROVE FormsTree(inodes)
    BY DEF DirectoriesFormTree
  <2>1. Sound(inodes, nextId) /\ Typed(inodes, nextId)
    BY SoundParts, Zenon DEF IndInv
  <2> QED  BY <2>1, SoundTree, Zenon
<1> QED  BY InitInd, NextInd, <1>1, PTL DEF Spec

----------------------------------------------------------------------------
(* Ways: the walks of mtl_resolve_inode as sequences of links. *)

Way(L, p, v) == v[0] = Root /\ \A k \in 1 .. Len(p) : Linked(v[k - 1], p[k], v[k]) \in L

Leads(L, p, i) == \E v : Way(L, p, v) /\ v[Len(p)] = i

\* What is linked is found, and nothing else.
LEMMA SearchIs ==
    ASSUME NEW db, NEW n, Sound(db, n), NEW d, NEW name \in Names, NEW i,
           Linked(d, name, i) \in Links(db)
    PROVE  /\ d \in DOMAIN db /\ i \in DOMAIN db /\ db[d].type = "DIRECTORY"
           /\ ResolveInDirectory(db, d, name).res = "SUCCESS"
           /\ ResolveInDirectory(db, d, name).id = i
<1> DEFINE l == Linked(d, name, i)
           r == ResolveInDirectory(db, d, name)
<1>0. Typed(db, n) /\ AllDistinct(db) /\ Forest(DOMAIN db, Links(db))
  BY SoundParts, Zenon
<1>1. l \in Links(db) /\ l.dir = d /\ l.name = name /\ l.id = i
  BY LinkParts
<1> HIDE DEF l
<1>2. d \in DOMAIN db /\ \E k \in DOMAIN db[d].entries : db[d].entries[k].name = name
  BY <1>1, LinkTyped
<1>3. i \in DOMAIN db
  BY <1>0, <1>1 DEF Forest
<1>4. db[d].type = "DIRECTORY"
  <2>1. db[d].type = "FILE" => db[d].entries = <<>>
    BY <1>0, <1>2, Zenon DEF Typed
  <2>2. db[d].type \in {"DIRECTORY", "FILE"}
    BY <1>0, <1>2, InodeTyped, Zenon
  <2> QED  BY <1>2, <2>1, <2>2
<1>5. r.res = "SUCCESS"
  BY <1>0, <1>2, <1>4, SearchFacts
<1>6. Linked(d, name, r.id) \in Links(db)
  BY <1>2, <1>5, SearchLinks
<1>7. r.id = i
  <2> HIDE DEF r
  <2> QED  BY <1>0, <1>1, <1>6, SameName, Zenon DEF l
<1> QED  BY <1>2, <1>3, <1>4, <1>5, <1>7

\* A walk goes along a way.
LEMMA WayWalk ==
    ASSUME NEW db, NEW n, Sound(db, n), NEW p \in Seq(Names), NEW v, Way(Links(db), p, v)
    PROVE  \A k \in 0 .. Len(p) :
             WalkOf(db, p)[k].res = "SUCCESS" /\ WalkOf(db, p)[k].id = v[k]
<1> DEFINE w == WalkOf(db, p)
           T == {k \in Nat : k <= Len(p) => w[k].res = "SUCCESS" /\ w[k].id = v[k]}
<1>0. Len(p) \in Nat
  OBVIOUS
<1>1. /\ w[0] = Start
      /\ \A k \in 1 .. Len(p) : w[k] = WalkOn(db, p[k], w[k - 1])
  BY WalkFacts, Zenon
<1> HIDE DEF w
<1>2. 0 \in T
  BY <1>1 DEF Start, Way
<1>3. ASSUME NEW k \in Nat, k \in T PROVE k + 1 \in T
  <2>0. k + 1 \in Nat
    OBVIOUS
  <2> SUFFICES ASSUME k + 1 <= Len(p) PROVE w[k + 1].res = "SUCCESS" /\ w[k + 1].id = v[k + 1]
    BY <2>0, Zenon
  <2>1. k + 1 \in 1 .. Len(p) /\ k <= Len(p) /\ (k + 1) - 1 = k
    BY <1>0
  <2>2. w[k].res = "SUCCESS" /\ w[k].id = v[k]
    BY <1>3, <2>1, Zenon
  <2>3. w[k + 1] = WalkOn(db, p[k + 1], w[k])
    BY <1>1, <2>1, Zenon
  <2>4. Linked(v[k], p[k + 1], v[k + 1]) \in Links(db)
    BY <2>1, Zenon DEF Way
  <2>5. p[k + 1] \in Names
    BY <2>1
  <2> DEFINE r == ResolveInDirectory(db, v[k], p[k + 1])
  <2>6. v[k] \in DOMAIN db /\ r.res = "SUCCESS" /\ r.id = v[k + 1]
    BY <2>4, <2>5, SearchIs
  <2>7. w[k + 1] = r
    BY <2>2, <2>3, <2>6 DEF WalkOn
  <2> QED  BY <2>6, <2>7, Zenon
<1>4. \A k \in Nat : k \in T
  <2> HIDE DEF T
  <2> QED  BY <1>2, <1>3, Inductive, Zenon
<1> QED  BY <1>0, <1>4 DEF w

\* A walk that has come to its end has gone along a way.
LEMMA WalkWay ==
    ASSUME NEW db, NEW n, Sound(db, n), NEW p \in Seq(Names),
           Resolve(db, p).res = "SUCCESS"
    PROVE  Leads(Links(db), p, Resolve(db, p).id)
<1> DEFINE w == WalkOf(db, p)
           T == {j \in Nat : j <= Len(p) => w[Len(p) - j].res = "SUCCESS"}
           v == [k \in 0 .. Len(p) |-> w[k].id]
<1>0. Len(p) \in Nat /\ Len(p) \in 0 .. Len(p)
  OBVIOUS
<1>1. w[0] = Start /\ Resolve(db, p) = w[Len(p)]
  BY WalkFacts, Zenon
<1>2. \A k \in 1 .. Len(p) : w[k].res = "SUCCESS" =>
          w[k - 1].res = "SUCCESS" /\ Linked(w[k - 1].id, p[k], w[k].id) \in Links(db)
  BY WalkLinks, Zenon
<1> HIDE DEF w
<1>3. 0 \in T
  BY <1>0, <1>1
<1>4. ASSUME NEW j \in Nat, j \in T PROVE j + 1 \in T
  <2>0. j + 1 \in Nat
    OBVIOUS
  <2> SUFFICES ASSUME j + 1 <= Len(p) PROVE w[Len(p) - (j + 1)].res = "SUCCESS"
    BY <2>0, Zenon
  <2>1. Len(p) - j \in 1 .. Len(p) /\ j <= Len(p) /\ Len(p) - (j + 1) = (Len(p) - j) - 1
    BY <1>0
  <2>2. w[Len(p) - j].res = "SUCCESS"
    BY <1>4, <2>1, Zenon
  <2> QED  BY <1>2, <2>1, <2>2, Zenon
<1>5. \A j \in Nat : j \in T
  <2> HIDE DEF T
  <2> QED  BY <1>3, <1>4, Inductive, Zenon
<1>6. ASSUME NEW k \in 1 .. Len(p) PROVE w[k].res = "SUCCESS"
  <2>1. Len(p) - k \in Nat /\ Len(p) - k <= Len(p) /\ Len(p) - (Len(p) - k) = k
    BY <1>0
  <2>2. Len(p) - k \in T
    BY <1>5, <2>1, Zenon
  <2>3. w[Len(p) - (Len(p) - k)].res = "SUCCESS"
    BY <2>1, <2>2, Zenon
  <2> QED  BY <2>1, <2>3, Zenon
<1>7. \A k \in 0 .. Len(p) : v[k] = w[k].id
  OBVIOUS
<1> HIDE DEF v
<1>8. Way(Links(db), p, v)
  <2>1. v[0] = Root
    BY <1>0, <1>1, <1>7 DEF Start
  <2>2. ASSUME NEW k \in 1 .. Len(p) PROVE Linked(v[k - 1], p[k], v[k]) \in Links(db)
    <3>1. k - 1 \in 0 .. Len(p) /\ k \in 0 .. Len(p)
      BY <1>0
    <3>2. Linked(w[k - 1].id, p[k], w[k].id) \in Links(db)
      BY <1>2, <1>6, Zenon
    <3> QED  BY <1>7, <3>1, <3>2, Zenon
  <2> QED  BY <2>1, <2>2, Zenon DEF Way
<1>9. v[Len(p)] = Resolve(db, p).id
  BY <1>0, <1>1, <1>7, Zenon
<1> QED  BY <1>8, <1>9, Zenon DEF Leads

\* A path leads to one inode, which mtl_resolve_inode finds.
LEMMA LeadsResolve ==
    ASSUME NEW db, NEW n, Sound(db, n), NEW p \in Seq(Names), NEW i,
           Leads(Links(db), p, i)
    PROVE  Resolve(db, p).res = "SUCCESS" /\ Resolve(db, p).id = i
<1>1. PICK v : Way(Links(db), p, v) /\ v[Len(p)] = i
  BY Zenon DEF Leads
<1>2. Len(p) \in 0 .. Len(p)
  OBVIOUS
<1>3. WalkOf(db, p)[Len(p)].res = "SUCCESS" /\ WalkOf(db, p)[Len(p)].id = v[Len(p)]
  BY <1>1, <1>2, WayWalk
<1>4. Resolve(db, p) = WalkOf(db, p)[Len(p)]
  BY WalkFacts, Zenon
<1> QED  BY <1>1, <1>3, <1>4, Zenon

\* Two ways that meet have come along the same names.
LEMMA WaysMeet ==
    ASSUME NEW db, NEW n, Sound(db, n), NEW a \in Seq(Names), NEW b \in Seq(Names),
           NEW u, NEW v, Way(Links(db), a, u), Way(Links(db), b, v),
           NEW p \in 0 .. Len(a), NEW q \in 0 .. Len(b), u[p] = v[q]
    PROVE  p = q /\ \A i \in 1 .. p : a[i] = b[i]
<1>1. WalkOf(db, a)[p].res = "SUCCESS" /\ WalkOf(db, a)[p].id = u[p]
  BY WayWalk
<1>2. WalkOf(db, b)[q].res = "SUCCESS" /\ WalkOf(db, b)[q].id = v[q]
  BY WayWalk
<1> QED  BY <1>1, <1>2, WalksMeet, SMTT(20)

\* The inodes on a way.
LEMMA WayInodes ==
    ASSUME NEW db, NEW n, Sound(db, n), NEW p \in Seq(Names), NEW v, Way(Links(db), p, v)
    PROVE  \A k \in 0 .. Len(p) : v[k] \in DOMAIN db
<1> SUFFICES ASSUME NEW k \in 0 .. Len(p) PROVE v[k] \in DOMAIN db
  OBVIOUS
<1>1. WalkOf(db, p)[k] \in Reached(db)
  BY WalkTyped, Zenon
<1>2. WalkOf(db, p)[k].id = v[k]
  BY WayWalk
<1> QED  BY <1>1, <1>2 DEF Reached

\* Numbers up to n have room among those up to m only if n is not larger.
LEMMA Pigeonhole ==
    ASSUME NEW n \in Nat, NEW m \in Nat, NEW f \in [0 .. n -> 0 .. m],
           \A i, j \in 0 .. n : f[i] = f[j] => i = j
    PROVE  n <= m
<1> DEFINE Fits(k, b, g) == /\ g \in [0 .. k -> 0 .. b]
                            /\ \A i, j \in 0 .. k : g[i] = g[j] => i = j
           T == {k \in Nat : \A b \in Nat : \A g : Fits(k, b, g) => k <= b}
<1>1. 0 \in T
  OBVIOUS
<1>2. ASSUME NEW k \in Nat, k \in T PROVE k + 1 \in T
  <2>0. k + 1 \in Nat
    OBVIOUS
  <2> SUFFICES ASSUME NEW b \in Nat, NEW g, Fits(k + 1, b, g) PROVE k + 1 <= b
    BY <2>0, Zenon
  <2>1. /\ \A i \in 0 .. k : i \in 0 .. k + 1 /\ i # k + 1
        /\ k + 1 \in 0 .. k + 1 /\ 0 \in 0 .. k
    OBVIOUS
  <2>2. \A i \in 0 .. k + 1 : g[i] \in 0 .. b
    OBVIOUS
  <2>3. \A i, j \in 0 .. k + 1 : g[i] = g[j] => i = j
    BY Zenon
  <2> DEFINE h == [i \in 0 .. k |-> IF g[i] = b THEN g[k + 1] ELSE g[i]]
  <2>4. b # 0
    <3> SUFFICES ASSUME b = 0 PROVE FALSE
      OBVIOUS
    <3>1. g[0] = 0 /\ g[k + 1] = 0
      BY <2>1, <2>2
    <3> QED  BY <2>1, <2>3, <3>1, Zenon
  <2>5. b - 1 \in Nat
    BY <2>4
  <2>6. ASSUME NEW i \in 0 .. k PROVE h[i] \in 0 .. b - 1
    <3>1. g[i] \in 0 .. b /\ g[k + 1] \in 0 .. b /\ g[i] # g[k + 1]
      BY <2>1, <2>2, <2>3, Zenon
    <3>2. h[i] = IF g[i] = b THEN g[k + 1] ELSE g[i]
      OBVIOUS
    <3> HIDE DEF h
    <3> QED  BY <2>5, <3>1, <3>2
  <2>7. ASSUME NEW i \in 0 .. k, NEW j \in 0 .. k, h[i] = h[j] PROVE i = j
    <3>1. /\ h[i] = IF g[i] = b THEN g[k + 1] ELSE g[i]
          /\ h[j] = IF g[j] = b THEN g[k + 1] ELSE g[j]
      OBVIOUS
    <3>2. /\ g[i] = g[j] => i = j
          /\ g[i] # g[k + 1] /\ g[j] # g[k + 1]
      BY <2>1, <2>3, Zenon
    <3> HIDE DEF h
    <3> QED  BY <2>7, <3>1, <3>2, Zenon
  <2>8. Fits(k, b - 1, h)
    <3>1. h \in [0 .. k -> 0 .. b - 1]
      <4>1. h = [i \in 0 .. k |-> h[i]]
        OBVIOUS
      <4> HIDE DEF h
      <4> QED  BY <2>6, <4>1
    <3> HIDE DEF h
    <3> QED  BY <2>7, <3>1, Zenon
  <2>9. k <= b - 1
    <3> HIDE DEF Fits, h
    <3> QED  BY <1>2, <2>5, <2>8, Zenon
  <2> QED  BY <2>5, <2>9
<1>3. \A k \in Nat : k \in T
  <2> HIDE DEF T
  <2> QED  BY <1>1, <1>2, Inductive, Zenon
<1>4. Fits(n, m, f)
  OBVIOUS
<1> QED  BY <1>3, <1>4, Zenon

\* No path is longer than there are inodes below the root.
LEMMA WayShort ==
    ASSUME NEW db, NEW n \in 1 .. MaxInodes + 1, Sound(db, n), NEW p \in Seq(Names), NEW v,
           Way(Links(db), p, v)
    PROVE  Len(p) <= MaxInodes
<1> DEFINE f == [k \in 0 .. Len(p) |-> v[k]]
<1>1. MaxInodes \in Nat /\ Len(p) \in Nat /\ DOMAIN db \subseteq 0 .. MaxInodes
  <2>1. DOMAIN db \subseteq 0 .. n - 1
    BY Zenon DEF Sound, Typed
  <2> QED  BY <2>1, NamespaceAssumption
<1>2. \A k \in 0 .. Len(p) : v[k] \in 0 .. MaxInodes
  BY <1>1, WayInodes
<1>3. \A i, j \in 0 .. Len(p) : v[i] = v[j] => i = j
  BY WaysMeet
<1>4. f \in [0 .. Len(p) -> 0 .. MaxInodes] /\ \A i, j \in 0 .. Len(p) : f[i] = f[j] => i = j
  BY <1>2, <1>3
<1> HIDE DEF f
<1> QED  BY <1>1, <1>4, Pigeonhole, Zenon

\* The tree of paths: those that lead somewhere.
LEMMA TreeHas ==
    ASSUME NEW db, NEW n \in 1 .. MaxInodes + 1, Sound(db, n)
    PROVE  /\ PathsOf(db) = [p \in DOMAIN PathsOf(db) |-> PathsOf(db)[p]]
           /\ \A p \in DOMAIN PathsOf(db) :
                p \in Seq(Names) /\ \E i \in DOMAIN db : Leads(Links(db), p, i)
           /\ \A p \in Seq(Names) : \A i : Leads(Links(db), p, i) =>
                /\ p \in DOMAIN PathsOf(db) /\ i \in DOMAIN db
                /\ PathsOf(db)[p] = db[i].type
<1> DEFINE found == [p \in TreePaths |-> Resolve(db, p)]
           D == {q \in TreePaths : found[q].res = "SUCCESS"}
           t == [p \in D |-> db[found[p].id].type]
<1>1. PathsOf(db) = t
  BY Zenon DEF PathsOf
<1>2. DOMAIN t = D /\ t = [p \in DOMAIN t |-> t[p]] /\ \A p \in D : t[p] = db[found[p].id].type
  BY Zenon
<1>3. \A p \in TreePaths : found[p] = Resolve(db, p) /\ (p \in D <=> found[p].res = "SUCCESS")
  BY Zenon
<1> HIDE DEF found, D, t
<1>4. ASSUME NEW p \in D PROVE p \in Seq(Names) /\ \E i \in DOMAIN db : Leads(Links(db), p, i)
  <2>1. p \in TreePaths /\ Resolve(db, p).res = "SUCCESS"
    BY <1>3, Zenon DEF D
  <2>2. PICK k \in 0 .. MaxInodes : p \in [1 .. k -> Names]
    BY <2>1, Zenon DEF TreePaths
  <2>3. p \in Seq(Names)
    BY <2>2, NamespaceAssumption
  <2>4. Leads(Links(db), p, Resolve(db, p).id) /\ Resolve(db, p).id \in DOMAIN db
    BY <2>1, <2>3, WalkWay, ResolveTyped, Zenon
  <2> QED  BY <2>3, <2>4, Zenon
<1>5. ASSUME NEW p \in Seq(Names), NEW i, Leads(Links(db), p, i)
      PROVE  p \in D /\ i \in DOMAIN db /\ t[p] = db[i].type
  <2>1. Resolve(db, p).res = "SUCCESS" /\ Resolve(db, p).id = i
    BY <1>5, LeadsResolve, Zenon
  <2>2. i \in DOMAIN db
    BY <2>1, ResolveTyped, Zenon
  <2>3. Len(p) \in 0 .. MaxInodes
    <3>1. PICK v : Way(Links(db), p, v)
      BY <1>5, Zenon DEF Leads
    <3>2. Len(p) <= MaxInodes
      BY <3>1, WayShort, Zenon
    <3> QED  BY <3>2, NamespaceAssumption
  <2>4. p \in TreePaths
    <3>1. p \in [1 .. Len(p) -> Names]
      OBVIOUS
    <3> QED  BY <2>3, <3>1, Zenon DEF TreePaths
  <2> QED  BY <1>2, <1>3, <2>1, <2>2, <2>4, Zenon
<1> QED  BY <1>1, <1>2, <1>4, <1>5, Zenon

\* What a path that leads somewhere has in the tree.
LEMMA TreeIs ==
    ASSUME NEW db, NEW n \in 1 .. MaxInodes + 1, Sound(db, n), NEW p \in Seq(Names)
    PROVE  /\ p \in DOMAIN PathsOf(db) <=> Resolve(db, p).res = "SUCCESS"
           /\ Resolve(db, p).res = "SUCCESS" =>
                PathsOf(db)[p] = db[Resolve(db, p).id].type
<1>1. ASSUME p \in DOMAIN PathsOf(db) PROVE Resolve(db, p).res = "SUCCESS"
  <2>1. PICK i \in DOMAIN db : Leads(Links(db), p, i)
    BY <1>1, TreeHas, Zenon
  <2> QED  BY <2>1, LeadsResolve, Zenon
<1>2. ASSUME Resolve(db, p).res = "SUCCESS"
      PROVE  p \in DOMAIN PathsOf(db) /\ PathsOf(db)[p] = db[Resolve(db, p).id].type
  <2> DEFINE i == Resolve(db, p).id
  <2>1. Leads(Links(db), p, i)
    BY <1>2, WalkWay, Zenon
  <2> HIDE DEF i
  <2>2. p \in DOMAIN PathsOf(db) /\ PathsOf(db)[p] = db[i].type
    BY <2>1, TreeHas, Zenon
  <2> QED  BY <2>2, Zenon DEF i
<1> QED  BY <1>1, <1>2, Zenon

\* A walk that has failed reports the failure to the end.
LEMMA WalkStays ==
    ASSUME NEW db, NEW n, Sound(db, n), NEW p \in Seq(Names), NEW j \in 1 .. Len(p),
           WalkOf(db, p)[j].res # "SUCCESS"
    PROVE  \A k \in j .. Len(p) : WalkOf(db, p)[k] = WalkOf(db, p)[j]
<1> DEFINE w == WalkOf(db, p)
           T == {k \in Nat : j + k <= Len(p) => w[j + k] = w[j]}
<1>1. \A k \in 1 .. Len(p) : w[k] = WalkOn(db, p[k], w[k - 1])
  BY WalkFacts, Zenon
<1>2. w[j].res # "SUCCESS" /\ j \in Nat /\ Len(p) \in Nat
  OBVIOUS
<1> HIDE DEF w
<1>3. 0 \in T
  BY <1>2
<1>4. ASSUME NEW k \in Nat, k \in T PROVE k + 1 \in T
  <2>0. k + 1 \in Nat
    OBVIOUS
  <2> SUFFICES ASSUME j + (k + 1) <= Len(p) PROVE w[j + (k + 1)] = w[j]
    BY <2>0, Zenon
  <2>1. j + (k + 1) \in 1 .. Len(p) /\ j + k <= Len(p) /\ (j + (k + 1)) - 1 = j + k
    BY <1>2
  <2>2. w[j + k] = w[j]
    BY <1>4, <2>1, Zenon
  <2>3. w[j + (k + 1)] = WalkOn(db, p[j + (k + 1)], w[j + k])
    BY <1>1, <2>1, Zenon
  <2> QED  BY <1>2, <2>2, <2>3, Zenon DEF WalkOn
<1>5. \A k \in Nat : k \in T
  <2> HIDE DEF T
  <2> QED  BY <1>3, <1>4, Inductive, Zenon
<1>6. ASSUME NEW k \in j .. Len(p) PROVE w[k] = w[j]
  <2>1. k - j \in Nat /\ j + (k - j) = k /\ k <= Len(p)
    BY <1>2
  <2>2. k - j \in T
    BY <1>5, <2>1, Zenon
  <2>3. w[j + (k - j)] = w[j]
    BY <2>1, <2>2
  <2> QED  BY <2>1, <2>3, Zenon
<1> QED  BY <1>6, Zenon DEF w

\* mtl_resolve_inode reports what the tree of paths has on the way.
LEMMA WalkCodes ==
    ASSUME NEW db, NEW n \in 1 .. MaxInodes + 1, Sound(db, n), NEW p \in Seq(Names)
    PROVE  Tree!Walk(PathsOf(db), p) = Resolve(db, p).res
<1> DEFINE t == PathsOf(db)
           w == WalkOf(db, p)
           blocked == \E k \in 0 .. Len(p) - 1 :
                        SubSeq(p, 1, k) \in DOMAIN t /\ t[SubSeq(p, 1, k)] = "FILE"
<1>1. p \in DOMAIN t <=> Resolve(db, p).res = "SUCCESS"
  BY TreeIs, Zenon
<1>2. Tree!Walk(t, p) = IF p \in DOMAIN t THEN "SUCCESS"
                        ELSE IF blocked THEN "NOTDIRECTORY" ELSE "NOENTRY"
  BY Zenon DEF Tree!Walk
<1>3. CASE Resolve(db, p).res = "SUCCESS"
  BY <1>1, <1>2, <1>3, Zenon
<1>4. CASE Resolve(db, p).res # "SUCCESS"
  <2>1. /\ Resolve(db, p) = w[Len(p)] /\ w[0] = Start
        /\ \A k \in 1 .. Len(p) : w[k] = WalkOn(db, p[k], w[k - 1])
    BY WalkFacts, Zenon
  <2>2. \A k \in 0 .. Len(p) : w[k] \in Reached(db)
    BY WalkTyped, Zenon
  <2>3. \A k \in 0 .. Len(p) : /\ SubSeq(p, 1, k) \in DOMAIN t <=> w[k].res = "SUCCESS"
                               /\ w[k].res = "SUCCESS" =>
                                    t[SubSeq(p, 1, k)] = db[w[k].id].type
    <3> SUFFICES ASSUME NEW k \in 0 .. Len(p)
                 PROVE  /\ SubSeq(p, 1, k) \in DOMAIN t <=> w[k].res = "SUCCESS"
                        /\ w[k].res = "SUCCESS" => t[SubSeq(p, 1, k)] = db[w[k].id].type
      OBVIOUS
    <3>1. SubSeq(p, 1, k) \in Seq(Names) /\ Resolve(db, SubSeq(p, 1, k)) = w[k]
      BY WalkSub, Zenon
    <3> QED  BY <3>1, TreeIs, Zenon
  <2>4. \A k \in 1 .. Len(p) : w[k].res = "SUCCESS" =>
            w[k - 1].res = "SUCCESS" /\ Linked(w[k - 1].id, p[k], w[k].id) \in Links(db)
    BY WalkLinks, Zenon
  <2>5. \A j \in 1 .. Len(p) : w[j].res # "SUCCESS" => \A k \in j .. Len(p) : w[k] = w[j]
    BY WalkStays, Zenon
  <2>6. Len(p) \in Nat
    OBVIOUS
  <2> HIDE DEF w, t
  <2> DEFINE T == {k \in 0 .. Len(p) : w[k].res # "SUCCESS"}
  <2>7. Len(p) \in T /\ T \subseteq Nat
    BY <1>4, <2>1, <2>6
  <2>8. PICK j \in T : \A k \in T : j <= k
    <3> HIDE DEF T
    <3> QED  BY <2>7, LeastElement, Zenon
  <2>9. /\ j \in 0 .. Len(p) /\ w[j].res # "SUCCESS"
        /\ \A k \in 0 .. Len(p) : w[k].res # "SUCCESS" => j <= k
    BY <2>8
  <2> HIDE DEF T
  <2>10. j \in 1 .. Len(p) /\ j - 1 \in 0 .. Len(p) /\ j - 1 \in 0 .. Len(p) - 1
    BY <2>1, <2>6, <2>9 DEF Start
  <2>11. w[j - 1].res = "SUCCESS"
    BY <2>9, <2>10
  <2> DEFINE d == w[j - 1].id
             r == ResolveInDirectory(db, d, p[j])
  <2>12. d \in DOMAIN db
    BY <2>2, <2>10 DEF Reached
  <2>13. Resolve(db, p).res = r.res /\ r.res # "SUCCESS"
    <3>1. w[j] = WalkOn(db, p[j], w[j - 1])
      BY <2>1, <2>10, Zenon
    <3>2. w[j] = r
      BY <2>11, <2>12, <3>1 DEF WalkOn
    <3>3. Len(p) \in j .. Len(p)
      BY <2>10
    <3>4. w[Len(p)] = w[j]
      BY <2>5, <2>9, <2>10, <3>3, Zenon
    <3> HIDE DEF r
    <3> QED  BY <2>1, <2>9, <3>2, <3>4, Zenon
  <2>14. r.res = IF db[d].type = "FILE" THEN "NOTDIRECTORY" ELSE "NOENTRY"
    <3>1. db[d].type \in {"DIRECTORY", "FILE"}
      BY <2>12, InodeTyped, Zenon DEF Sound
    <3> HIDE DEF d
    <3> QED  BY <2>13, <3>1 DEF ResolveInDirectory
  <2>15. blocked <=> db[d].type = "FILE"
    <3>1. ASSUME db[d].type = "FILE" PROVE blocked
      <4>1. SubSeq(p, 1, j - 1) \in DOMAIN t /\ t[SubSeq(p, 1, j - 1)] = "FILE"
        BY <2>3, <2>10, <2>11, <3>1, Zenon
      <4> QED  BY <2>10, <4>1, Zenon
    <3>2. ASSUME NEW k \in 0 .. Len(p) - 1, SubSeq(p, 1, k) \in DOMAIN t,
                 t[SubSeq(p, 1, k)] = "FILE"
          PROVE  db[d].type = "FILE"
      <4>1. k \in 0 .. Len(p) /\ k + 1 \in 1 .. Len(p) /\ (k + 1) - 1 = k
        BY <2>6
      <4>2. w[k].res = "SUCCESS" /\ db[w[k].id].type = "FILE"
        BY <2>3, <3>2, <4>1, Zenon
      <4>3. CASE k = j - 1
        BY <4>2, <4>3, Zenon
      <4>4. CASE k # j - 1
        <5>1. w[k + 1].res = "SUCCESS"
          <6>1. k + 1 < j
            <7>1. ~ (j <= k)
              <8> SUFFICES ASSUME j <= k PROVE FALSE
                OBVIOUS
              <8>1. k \in j .. Len(p)
                BY <4>1
              <8>2. w[k] = w[j]
                BY <2>5, <2>9, <2>10, <8>1, Zenon
              <8> QED  BY <2>9, <4>2, <8>2, Zenon
            <7> QED  BY <2>10, <4>4, <7>1
          <6>2. k + 1 \in 0 .. Len(p) /\ ~ (j <= k + 1)
            BY <2>10, <4>1, <6>1
          <6> QED  BY <2>9, <6>2, Zenon
        <5>2. Linked(w[k].id, p[k + 1], w[k + 1].id) \in Links(db)
          BY <2>4, <4>1, <5>1, Zenon
        <5>3. p[k + 1] \in Names
          BY <4>1
        <5>4. db[w[k].id].type = "DIRECTORY"
          BY <5>2, <5>3, SearchIs, Zenon
        <5> QED  BY <4>2, <5>4
      <4> QED  BY <4>3, <4>4
    <3> QED  BY <3>1, <3>2, Zenon
  <2> HIDE DEF blocked, r, d
  <2> QED  BY <1>1, <1>2, <1>4, <2>13, <2>14, <2>15, Zenon DEF t
<1> QED  BY <1>3, <1>4

\* Sequences with the same elements are the same.
LEMMA SameNames ==
    ASSUME NEW a \in Seq(Names), NEW b \in Seq(Names), Len(a) = Len(b),
           \A k \in 1 .. Len(a) : a[k] = b[k]
    PROVE  a = b
OBVIOUS

\* An inode has one path.
LEMMA OnePath ==
    ASSUME NEW db, NEW n, Sound(db, n), NEW p \in Seq(Names), NEW q \in Seq(Names), NEW i,
           Leads(Links(db), p, i), Leads(Links(db), q, i)
    PROVE  p = q
<1>1. PICK u : Way(Links(db), p, u) /\ u[Len(p)] = i
  BY Zenon DEF Leads
<1>2. PICK v : Way(Links(db), q, v) /\ v[Len(q)] = i
  BY Zenon DEF Leads
<1>3. Len(p) \in 0 .. Len(p) /\ Len(q) \in 0 .. Len(q)
  OBVIOUS
<1>4. Len(p) = Len(q) /\ \A k \in 1 .. Len(p) : p[k] = q[k]
  BY <1>1, <1>2, <1>3, WaysMeet
<1> QED  BY <1>4, SameNames, Zenon

\* A path leads to one inode.
LEMMA OneInode ==
    ASSUME NEW db, NEW n, Sound(db, n), NEW p \in Seq(Names), NEW i, NEW j,
           Leads(Links(db), p, i), Leads(Links(db), p, j)
    PROVE  i = j
<1>1. Resolve(db, p).id = i
  BY LeadsResolve, Zenon
<1>2. Resolve(db, p).id = j
  BY LeadsResolve, Zenon
<1> QED  BY <1>1, <1>2

\* The beginning of a way is the way of the beginning of the path.
LEMMA WayPrefix ==
    ASSUME NEW L, NEW p \in Seq(Names), NEW v, Way(L, p, v), NEW k \in 0 .. Len(p)
    PROVE  Leads(L, SubSeq(p, 1, k), v[k])
<1> DEFINE a == SubSeq(p, 1, k)
<1>1. Len(a) = k /\ \A j \in 1 .. k : a[j] = p[j] /\ j \in 1 .. Len(p)
  OBVIOUS
<1> HIDE DEF a
<1>2. Way(L, a, v)
  BY <1>1, Zenon DEF Way
<1> QED  BY <1>1, <1>2, Zenon DEF Leads, a

\* A path but for its last name.
LEMMA PathSplit ==
    ASSUME NEW p \in Seq(Names), Len(p) # 0
    PROVE  /\ Len(p) \in Nat \ {0} /\ Len(Dirname(p)) = Len(p) - 1
           /\ \A k \in 1 .. Len(p) - 1 : Dirname(p)[k] = p[k]
<1>1. Len(p) \in Nat \ {0}
  OBVIOUS
<1> DEFINE n == Len(p) - 1
<1>2. n \in 0 .. Len(p)
  BY <1>1
<1> HIDE DEF n
<1>3. Len(SubSeq(p, 1, n)) = n /\ \A k \in 1 .. n : SubSeq(p, 1, n)[k] = p[k]
  BY <1>2, SMTT(20)
<1> QED  BY <1>1, <1>3, Zenon DEF Dirname, n

\* One more link makes the way longer by one.
LEMMA WayOn ==
    ASSUME NEW L, NEW p \in Seq(Names), Len(p) # 0, NEW d, NEW i, Leads(L, Dirname(p), d),
           Linked(d, Basename(p), i) \in L
    PROVE  Leads(L, p, i)
<1>1. PICK v : Way(L, Dirname(p), v) /\ v[Len(Dirname(p))] = d
  BY Zenon DEF Leads
<1>2. /\ Len(p) \in Nat \ {0} /\ Len(Dirname(p)) = Len(p) - 1 /\ Basename(p) = p[Len(p)]
      /\ \A k \in 1 .. Len(p) - 1 : Dirname(p)[k] = p[k]
  BY PathSplit, Zenon DEF Basename
<1> DEFINE u == [k \in 0 .. Len(p) |-> IF k = Len(p) THEN i ELSE v[k]]
<1>3. /\ u[Len(p)] = i /\ u[Len(p) - 1] = d
      /\ \A k \in 0 .. Len(p) - 1 : u[k] = v[k]
  BY <1>1, <1>2
<1> HIDE DEF u
<1>4. u[0] = Root
  BY <1>1, <1>2, <1>3 DEF Way
<1>5. ASSUME NEW k \in 1 .. Len(p) PROVE Linked(u[k - 1], p[k], u[k]) \in L
  <2>1. CASE k = Len(p)
    BY <1>2, <1>3, <2>1
  <2>2. CASE k # Len(p)
    <3>1. k \in 1 .. Len(p) - 1 /\ k - 1 \in 0 .. Len(p) - 1 /\ k \in 0 .. Len(p) - 1
      BY <1>2, <2>2
    <3>2. Linked(v[k - 1], Dirname(p)[k], v[k]) \in L
      BY <1>1, <1>2, <3>1 DEF Way
    <3> QED  BY <1>2, <1>3, <3>1, <3>2, Zenon
  <2> QED  BY <2>1, <2>2
<1>6. Way(L, p, u)
  BY <1>4, <1>5, Zenon DEF Way
<1> QED  BY <1>3, <1>6, Zenon DEF Leads

\* Where a path leads is linked in its directory.
LEMMA WayBack ==
    ASSUME NEW db, NEW n, Sound(db, n), NEW p \in CallPaths, NEW i, Leads(Links(db), p, i)
    PROVE  \E d : /\ Leads(Links(db), Dirname(p), d)
                  /\ Linked(d, Basename(p), i) \in Links(db)
<1>1. PICK v : Way(Links(db), p, v) /\ v[Len(p)] = i
  BY Zenon DEF Leads
<1>2. /\ p \in Seq(Names) /\ Len(p) \in 1 .. Len(p) /\ Len(p) - 1 \in 0 .. Len(p)
      /\ Basename(p) = p[Len(p)]
  BY PathTyped DEF Basename
<1>3. Leads(Links(db), Dirname(p), v[Len(p) - 1])
  BY <1>1, <1>2, WayPrefix, Zenon DEF Dirname
<1>4. Linked(v[Len(p) - 1], Basename(p), i) \in Links(db)
  BY <1>1, <1>2, Zenon DEF Way
<1> QED  BY <1>3, <1>4, Zenon

\* A path leads to what its directory links under its last name.
LEMMA LastStep ==
    ASSUME NEW db, NEW n, Sound(db, n), NEW p \in CallPaths, NEW d,
           Leads(Links(db), Dirname(p), d), NEW i
    PROVE  Leads(Links(db), p, i) <=> Linked(d, Basename(p), i) \in Links(db)
<1>1. ASSUME Leads(Links(db), p, i) PROVE Linked(d, Basename(p), i) \in Links(db)
  <2>1. PICK e : Leads(Links(db), Dirname(p), e) /\ Linked(e, Basename(p), i) \in Links(db)
    BY <1>1, WayBack, Zenon
  <2>2. Dirname(p) \in Seq(Names)
    BY PathTyped, Zenon
  <2>3. e = d
    BY <2>1, <2>2, OneInode, Zenon
  <2> QED  BY <2>1, <2>3, Zenon
<1>2. p \in Seq(Names) /\ Len(p) # 0
  BY PathTyped
<1> QED  BY <1>1, <1>2, WayOn, Zenon

\* A way that does not come to m does without a link to m.
LEMMA WayWithin ==
    ASSUME NEW K, NEW L, NEW m, \A l \in L : l.id # m => l \in K,
           NEW p \in Seq(Names), NEW v, Way(L, p, v), \A k \in 1 .. Len(p) : v[k] # m
    PROVE  Way(K, p, v)
<1> SUFFICES ASSUME NEW k \in 1 .. Len(p) PROVE Linked(v[k - 1], p[k], v[k]) \in K
  BY Zenon DEF Way
<1>1. Linked(v[k - 1], p[k], v[k]) \in L
  BY Zenon DEF Way
<1>2. Linked(v[k - 1], p[k], v[k]).id = v[k]
  BY LinkParts
<1> QED  BY <1>1, <1>2, Zenon

\* The database big is small and one inode without children.
LeafMore(small, big, link) ==
    /\ link.id \notin DOMAIN small /\ link.dir \in DOMAIN small
    /\ DOMAIN big = DOMAIN small \cup {link.id} /\ Links(big) = Links(small) \cup {link}
    /\ \A i \in DOMAIN small : big[i].type = small[i].type

\* A leaf adds its path, and no other.
LEMMA LeafPaths ==
    ASSUME NEW small, NEW a, Sound(small, a), NEW big, NEW b, Sound(big, b), NEW link,
           LeafMore(small, big, link),
           NEW path \in Seq(Names), Leads(Links(big), path, link.id)
    PROVE  /\ \A q \in Seq(Names) : \A i : Leads(Links(small), q, i) =>
                Leads(Links(big), q, i) /\ q # path
           /\ \A q \in Seq(Names) : \A i : Leads(Links(big), q, i) /\ q # path =>
                Leads(Links(small), q, i)
<1> DEFINE m == link.id
           K == Links(small)
           L == Links(big)
<1>0. Forest(DOMAIN small, K)
  BY SoundParts, Zenon
<1>1. /\ L = K \cup {link} /\ m \notin DOMAIN small /\ link.dir # m
      /\ \A l \in K : l.dir # m /\ l.id # m
  BY <1>0 DEF LeafMore, Forest
<1>2. ASSUME NEW q \in Seq(Names), NEW i, Leads(K, q, i) PROVE Leads(L, q, i) /\ q # path
  <2>1. PICK v : Way(K, q, v) /\ v[Len(q)] = i
    BY <1>2, Zenon DEF Leads
  <2>2. Way(L, q, v)
    <3> HIDE DEF K, L
    <3> QED  BY <1>1, <2>1, Zenon DEF Way
  <2>3. Leads(L, q, i)
    BY <2>1, <2>2, Zenon DEF Leads
  <2>4. i \in DOMAIN small
    <3>1. Len(q) \in 0 .. Len(q)
      OBVIOUS
    <3> QED  BY <2>1, <3>1, WayInodes, Zenon
  <2>5. q # path
    <3> SUFFICES ASSUME q = path PROVE FALSE
      OBVIOUS
    <3>1. i = m
      BY <2>3, OneInode, Zenon
    <3> QED  BY <1>1, <2>4, <3>1, Zenon
  <2> QED  BY <2>3, <2>5
<1>3. ASSUME NEW q \in Seq(Names), NEW i, Leads(L, q, i), q # path PROVE Leads(K, q, i)
  <2>1. PICK v : Way(L, q, v) /\ v[Len(q)] = i
    BY <1>3, Zenon DEF Leads
  <2>2. i # m
    BY <1>3, OnePath, Zenon
  <2>3. ASSUME NEW k \in 1 .. Len(q) PROVE v[k] # m
    <3> SUFFICES ASSUME v[k] = m PROVE FALSE
      OBVIOUS
    <3>1. k # Len(q)
      BY <2>1, <2>2, Zenon
    <3>2. k + 1 \in 1 .. Len(q) /\ (k + 1) - 1 = k
      BY <3>1
    <3>3. Linked(v[k], q[k + 1], v[k + 1]) \in L
      BY <2>1, <3>2, Zenon DEF Way
    <3>4. Linked(v[k], q[k + 1], v[k + 1]).dir = m
      BY LinkParts
    <3> HIDE DEF L, K, m
    <3> QED  BY <1>1, <3>3, <3>4, Zenon
  <2>4. \A l \in L : l.id # m => l \in K
    BY <1>1, Zenon
  <2>5. Way(K, q, v)
    <3> HIDE DEF K, L, m
    <3> QED  BY <2>1, <2>3, <2>4, WayWithin, Zenon
  <2> QED  BY <2>1, <2>5, Zenon DEF Leads
<1> QED  BY <1>2, <1>3, Zenon

\* Functions with the same values are the same.
LEMMA SameValues ==
    ASSUME NEW f, NEW g, f = [x \in DOMAIN f |-> f[x]], g = [x \in DOMAIN g |-> g[x]],
           DOMAIN f = DOMAIN g, \A x \in DOMAIN f : f[x] = g[x]
    PROVE  f = g
<1>1. [x \in DOMAIN f |-> f[x]] = [x \in DOMAIN g |-> g[x]]
  OBVIOUS
<1> QED  BY <1>1, Zenon

\* The tree of paths with a leaf and without it.
LEMMA LeafTree ==
    ASSUME NEW small, NEW a \in 1 .. MaxInodes + 1, Sound(small, a),
           NEW big, NEW b \in 1 .. MaxInodes + 1, Sound(big, b), NEW link,
           LeafMore(small, big, link),
           NEW path \in Seq(Names), Leads(Links(big), path, link.id)
    PROVE  /\ PathsOf(big) = Tree!With(PathsOf(small), path, big[link.id].type)
           /\ PathsOf(small) = Tree!Without(PathsOf(big), path)
<1> DEFINE T == PathsOf(small)
           U == PathsOf(big)
           kind == big[link.id].type
           W == Tree!With(T, path, kind)
           V == Tree!Without(U, path)
<1>1. /\ T = [p \in DOMAIN T |-> T[p]]
      /\ \A q \in DOMAIN T : q \in Seq(Names) /\ \E i \in DOMAIN small : Leads(Links(small), q, i)
      /\ \A q \in Seq(Names) : \A i : Leads(Links(small), q, i) =>
           q \in DOMAIN T /\ i \in DOMAIN small /\ T[q] = small[i].type
  BY TreeHas, Zenon
<1>2. /\ U = [p \in DOMAIN U |-> U[p]]
      /\ \A q \in DOMAIN U : q \in Seq(Names) /\ \E i \in DOMAIN big : Leads(Links(big), q, i)
      /\ \A q \in Seq(Names) : \A i : Leads(Links(big), q, i) =>
           q \in DOMAIN U /\ i \in DOMAIN big /\ U[q] = big[i].type
  BY TreeHas, Zenon
<1>3. /\ \A q \in Seq(Names) : \A i : Leads(Links(small), q, i) =>
           Leads(Links(big), q, i) /\ q # path
      /\ \A q \in Seq(Names) : \A i : Leads(Links(big), q, i) /\ q # path =>
           Leads(Links(small), q, i)
  BY LeafPaths, Zenon
<1>4. \A i \in DOMAIN small : big[i].type = small[i].type
  BY Zenon DEF LeafMore
<1>5. W = [q \in DOMAIN T \cup {path} |-> IF q = path THEN kind ELSE T[q]]
  BY Zenon DEF Tree!With
<1>6. V = [q \in DOMAIN U \ {path} |-> U[q]]
  BY Zenon DEF Tree!Without
<1> HIDE DEF T, U, W, V
<1>7. path \in DOMAIN U /\ U[path] = kind
  BY <1>2, Zenon
<1>8. ASSUME NEW q \in DOMAIN T PROVE q \in DOMAIN U /\ q # path /\ U[q] = T[q]
  <2>1. q \in Seq(Names) /\ \E i \in DOMAIN small : Leads(Links(small), q, i)
    BY <1>1, Zenon
  <2>2. PICK i \in DOMAIN small : Leads(Links(small), q, i)
    BY <2>1, Zenon
  <2>3. T[q] = small[i].type
    BY <1>1, <2>1, <2>2, Zenon
  <2>4. Leads(Links(big), q, i) /\ q # path
    BY <1>3, <2>1, <2>2, Zenon
  <2>5. q \in DOMAIN U /\ U[q] = big[i].type
    BY <1>2, <2>1, <2>4, Zenon
  <2> QED  BY <1>4, <2>3, <2>4, <2>5, Zenon
<1>9. ASSUME NEW q \in DOMAIN U, q # path PROVE q \in DOMAIN T
  BY <1>1, <1>2, <1>3, <1>9, Zenon
<1> HIDE DEF kind
<1>10. U = W
  <2>1. DOMAIN W = DOMAIN T \cup {path} /\ W = [q \in DOMAIN W |-> W[q]]
    BY <1>5, Zenon
  <2>2. DOMAIN U = DOMAIN W
    BY <1>7, <1>8, <1>9, <2>1, Zenon
  <2>3. \A q \in DOMAIN U : U[q] = W[q]
    BY <1>5, <1>7, <1>8, <1>9, Zenon
  <2> QED  BY <1>2, <2>1, <2>2, <2>3, SameValues, Zenon
<1>11. T = V
  <2>1. DOMAIN V = DOMAIN U \ {path} /\ V = [q \in DOMAIN V |-> V[q]]
    BY <1>6, Zenon
  <2>2. DOMAIN T = DOMAIN V
    BY <1>8, <1>9, <2>1, Zenon
  <2>3. \A q \in DOMAIN T : T[q] = V[q]
    BY <1>6, <1>8, <2>1, <2>2, Zenon
  <2> QED  BY <1>1, <2>1, <2>2, <2>3, SameValues, Zenon
<1> QED  BY <1>10, <1>11 DEF T, U, V, W, kind
============================================================================
