---------------------- MODULE MetalNamespaceRefinement ----------------------
(***************************************************************************)
(* The calls of MetalNamespace are those of module PathTree: what they do  *)
(* to the paths, and the codes they return.                                *)
(***************************************************************************)
EXTENDS MetalNamespaceProofs

----------------------------------------------------------------------------
(* Moving a subtree. *)

Covers(p, q) == Len(p) <= Len(q) /\ \A k \in 1 .. Len(p) : p[k] = q[k]

\* The path s, which begins with p, with q for that beginning.
Onto(p, q, s) == q \o SubSeq(s, Len(p) + 1, Len(s))

\* One path after the other.
LEMMA Joined ==
    ASSUME NEW q \in Seq(Names), NEW r \in Seq(Names)
    PROVE  /\ q \o r \in Seq(Names) /\ Len(q \o r) = Len(q) + Len(r)
           /\ \A k \in 1 .. Len(q) : (q \o r)[k] = q[k]
           /\ \A k \in 1 .. Len(r) : (q \o r)[Len(q) + k] = r[k]
<1>1. Len(q \o r) = Len(q) + Len(r)
  OBVIOUS
<1>2. q \o r \in Seq(Names)
  OBVIOUS
<1>3. \A k \in 1 .. Len(q) : (q \o r)[k] = q[k]
  OBVIOUS
<1>4. \A k \in 1 .. Len(r) : (q \o r)[Len(q) + k] = r[k]
  OBVIOUS
<1> QED  BY <1>1, <1>2, <1>3, <1>4, Zenon

\* The names of such a path.
LEMMA OntoIs ==
    ASSUME NEW p \in Seq(Names), NEW q \in Seq(Names), NEW s \in Seq(Names), Covers(p, s)
    PROVE  /\ Onto(p, q, s) \in Seq(Names)
           /\ Len(Onto(p, q, s)) = Len(q) + (Len(s) - Len(p))
           /\ \A k \in 1 .. Len(q) : Onto(p, q, s)[k] = q[k]
           /\ \A k \in 1 .. Len(s) - Len(p) : Onto(p, q, s)[Len(q) + k] = s[Len(p) + k]
<1> DEFINE r == SubSeq(s, Len(p) + 1, Len(s))
<1>1. Len(p) \in Nat /\ Len(q) \in Nat /\ Len(s) \in Nat /\ Len(p) <= Len(s)
  BY DEF Covers
<1>2. /\ r \in Seq(Names) /\ Len(r) = Len(s) - Len(p)
      /\ \A k \in 1 .. Len(s) - Len(p) : r[k] = s[Len(p) + k]
  BY <1>1
<1> HIDE DEF r
<1>3. /\ q \o r \in Seq(Names) /\ Len(q \o r) = Len(q) + Len(r)
      /\ \A k \in 1 .. Len(q) : (q \o r)[k] = q[k]
      /\ \A k \in 1 .. Len(r) : (q \o r)[Len(q) + k] = r[k]
  BY <1>2, Joined, Zenon
<1>4. \A k \in 1 .. Len(s) - Len(p) : (q \o r)[Len(q) + k] = s[Len(p) + k]
  BY <1>2, <1>3, Zenon
<1> QED  BY <1>2, <1>3, <1>4, Zenon DEF Onto, r

\* There and back.
LEMMA OntoBack ==
    ASSUME NEW p \in Seq(Names), NEW q \in Seq(Names), NEW s \in Seq(Names), Covers(p, s)
    PROVE  Covers(q, Onto(p, q, s)) /\ Onto(q, p, Onto(p, q, s)) = s
<1> DEFINE r == Onto(p, q, s)
<1>1. Len(p) \in Nat /\ Len(q) \in Nat /\ Len(s) \in Nat /\ Len(p) <= Len(s)
  BY DEF Covers
<1>2. /\ r \in Seq(Names) /\ Len(r) = Len(q) + (Len(s) - Len(p))
      /\ \A k \in 1 .. Len(q) : r[k] = q[k]
      /\ \A k \in 1 .. Len(s) - Len(p) : r[Len(q) + k] = s[Len(p) + k]
  BY OntoIs, Zenon
<1> HIDE DEF r
<1>3. Covers(q, r)
  BY <1>1, <1>2 DEF Covers
<1> DEFINE o == Onto(q, p, r)
<1>4. /\ o \in Seq(Names) /\ Len(o) = Len(p) + (Len(r) - Len(q))
      /\ \A k \in 1 .. Len(p) : o[k] = p[k]
      /\ \A k \in 1 .. Len(r) - Len(q) : o[Len(p) + k] = r[Len(q) + k]
  BY <1>2, <1>3, OntoIs, Zenon
<1> HIDE DEF o
<1>5. Len(o) = Len(s)
  BY <1>1, <1>2, <1>4
<1>6. ASSUME NEW k \in 1 .. Len(s) PROVE o[k] = s[k]
  <2>1. CASE k <= Len(p)
    <3>1. k \in 1 .. Len(p)
      BY <1>1, <2>1
    <3> QED  BY <1>4, <3>1, Zenon DEF Covers
  <2>2. CASE ~ (k <= Len(p))
    <3> DEFINE j == k - Len(p)
    <3>1. /\ j \in 1 .. Len(s) - Len(p) /\ j \in 1 .. Len(r) - Len(q)
          /\ Len(p) + j = k
      BY <1>1, <1>2, <2>2
    <3>2. o[Len(p) + j] = s[Len(p) + j]
      BY <1>2, <1>4, <3>1, Zenon
    <3> QED  BY <3>1, <3>2, Zenon
  <2> QED  BY <2>1, <2>2
<1>7. o = s
  BY <1>4, <1>5, <1>6, SameNames, Zenon
<1> QED  BY <1>3, <1>7 DEF o, r

\* When only the link to m changes, the paths below m move along with it, and
\* all others stay.
LEMMA MovePaths ==
    ASSUME NEW db, NEW n, Sound(db, n), NEW new, NEW m,
           \A l \in Links(db) : l.id # m => l \in Links(new),
           NEW p \in Seq(Names), NEW q \in Seq(Names),
           Leads(Links(db), p, m), Leads(Links(new), q, m),
           NEW s \in Seq(Names), NEW i, Leads(Links(db), s, i)
    PROVE  /\ Covers(p, s) => Leads(Links(new), Onto(p, q, s), i)
           /\ ~Covers(p, s) => Leads(Links(new), s, i)
<1> DEFINE K == Links(db)
           L == Links(new)
<1>0. \A l \in K : l.id # m => l \in L
  OBVIOUS
<1>1. PICK v : Way(K, s, v) /\ v[Len(s)] = i
  BY Zenon DEF Leads
<1>2. PICK u : Way(K, p, u) /\ u[Len(p)] = m
  BY Zenon DEF Leads
<1>3. Len(p) \in 0 .. Len(p) /\ Len(p) \in Nat /\ Len(q) \in Nat /\ Len(s) \in Nat
  OBVIOUS
<1>4. ASSUME NEW k \in 0 .. Len(s), v[k] = m PROVE k = Len(p) /\ Covers(p, s)
  <2>1. k = Len(p) /\ \A j \in 1 .. k : s[j] = p[j]
    BY <1>1, <1>2, <1>3, <1>4, WaysMeet
  <2> QED  BY <1>3, <2>1 DEF Covers
<1>5. ASSUME ~Covers(p, s) PROVE Leads(L, s, i)
  <2>1. \A k \in 1 .. Len(s) : v[k] # m /\ k \in 0 .. Len(s)
    BY <1>4, <1>5
  <2>2. Way(L, s, v)
    <3> HIDE DEF K, L
    <3> QED  BY <1>0, <1>1, <2>1, WayWithin, Zenon
  <2> QED  BY <1>1, <2>2, Zenon DEF Leads
<1>6. ASSUME Covers(p, s) PROVE Leads(L, Onto(p, q, s), i)
  <2> DEFINE c == Len(s) - Len(p)
             r == Onto(p, q, s)
  <2>1. PICK x : Way(L, q, x) /\ x[Len(q)] = m
    BY Zenon DEF Leads
  <2>2. c \in Nat /\ Len(p) \in 0 .. Len(s) /\ Len(p) + c = Len(s)
    BY <1>3, <1>6 DEF Covers
  <2>3. v[Len(p)] = m
    <3>1. SubSeq(s, 1, Len(p)) = p
      <4> DEFINE o == SubSeq(s, 1, Len(p))
      <4>1. o \in Seq(Names) /\ Len(o) = Len(p) /\ \A k \in 1 .. Len(p) : o[k] = s[k]
        BY <2>2
      <4> HIDE DEF o
      <4>2. \A k \in 1 .. Len(o) : o[k] = p[k]
        BY <1>6, <4>1, Zenon DEF Covers
      <4>3. o = p
        BY <4>1, <4>2, SameNames, Zenon
      <4> QED  BY <4>3 DEF o
    <3>2. Leads(K, p, v[Len(p)])
      <4>1. Leads(K, SubSeq(s, 1, Len(p)), v[Len(p)])
        BY <1>1, <2>2, WayPrefix, Zenon
      <4> QED  BY <3>1, <4>1, Zenon
    <3> QED  BY <3>2, OneInode, Zenon
  <2>4. /\ r \in Seq(Names) /\ Len(r) = Len(q) + c
        /\ \A k \in 1 .. Len(q) : r[k] = q[k]
        /\ \A k \in 1 .. c : r[Len(q) + k] = s[Len(p) + k]
    BY <1>6, OntoIs, Zenon
  <2> HIDE DEF r, c
  <2> DEFINE z == [k \in 0 .. Len(q) + c |->
                     IF k <= Len(q) THEN x[k] ELSE v[Len(p) + (k - Len(q))]]
  <2>5. \A k \in 0 .. Len(q) : z[k] = x[k]
    BY <1>3, <2>2
  <2>6. ASSUME NEW k \in 0 .. c PROVE z[Len(q) + k] = v[Len(p) + k]
    <3>1. /\ Len(q) + k \in 0 .. Len(q) + c /\ (Len(q) + k) - Len(q) = k
          /\ (Len(q) + k <= Len(q) => k = 0)
      BY <1>3, <2>2
    <3>2. CASE k = 0
      <4>1. Len(q) + k = Len(q) /\ Len(p) + k = Len(p) /\ Len(q) \in 0 .. Len(q)
        BY <1>3, <3>2
      <4> HIDE DEF z
      <4> QED  BY <2>1, <2>3, <2>5, <4>1, Zenon
    <3>3. CASE k # 0
      <4>1. z[Len(q) + k] = v[Len(p) + ((Len(q) + k) - Len(q))]
        BY <3>1, <3>3
      <4> HIDE DEF z
      <4> QED  BY <3>1, <4>1, Zenon
    <3> QED  BY <3>2, <3>3
  <2> HIDE DEF z
  <2>7. z[0] = Root
    BY <1>3, <2>1, <2>5 DEF Way
  <2>8. ASSUME NEW k \in 1 .. Len(r) PROVE Linked(z[k - 1], r[k], z[k]) \in L
    <3>1. CASE k <= Len(q)
      <4>1. k \in 1 .. Len(q) /\ k \in 0 .. Len(q) /\ k - 1 \in 0 .. Len(q)
        BY <1>3, <3>1
      <4>2. Linked(x[k - 1], q[k], x[k]) \in L
        BY <2>1, <4>1, Zenon DEF Way
      <4> QED  BY <2>4, <2>5, <4>1, <4>2, Zenon
    <3>2. CASE ~ (k <= Len(q))
      <4> DEFINE j == k - Len(q)
                 a == Len(p) + j
      <4>1. /\ j \in 1 .. c /\ j \in 0 .. c /\ j - 1 \in 0 .. c
            /\ Len(q) + j = k /\ Len(q) + (j - 1) = k - 1
            /\ a \in 1 .. Len(s) /\ a \in 0 .. Len(s) /\ Len(p) + (j - 1) = a - 1 /\ a # Len(p)
        BY <1>3, <2>2, <2>4, <3>2
      <4> HIDE DEF j
      <4>2. z[k] = v[a] /\ z[k - 1] = v[a - 1] /\ r[k] = s[a]
        BY <2>4, <2>6, <4>1, Zenon
      <4>3. Linked(v[a - 1], s[a], v[a]) \in K
        BY <1>1, <4>1, Zenon DEF Way
      <4>4. Linked(v[a - 1], s[a], v[a]).id = v[a]
        BY LinkParts
      <4>5. v[a] # m
        BY <1>4, <4>1, Zenon
      <4>6. Linked(v[a - 1], s[a], v[a]) \in L
        BY <1>0, <4>3, <4>4, <4>5, Zenon
      <4> QED  BY <4>2, <4>6, Zenon
    <3> QED  BY <3>1, <3>2
  <2>9. Way(L, r, z)
    BY <2>7, <2>8, Zenon DEF Way
  <2>10. z[Len(r)] = i
    <3>1. c \in 0 .. c
      BY <2>2
    <3> QED  BY <1>1, <2>2, <2>4, <2>6, <3>1, Zenon
  <2> QED  BY <2>9, <2>10, Zenon DEF Leads, r
<1> QED  BY <1>5, <1>6, Zenon

\* The tree of paths after an inode got another link.
LEMMA MoveTree ==
    ASSUME NEW db, NEW n \in 1 .. MaxInodes + 1, Sound(db, n), NEW new, NEW from, NEW to,
           Shifted(db, n, from, to, new), NEW p \in Seq(Names), NEW q \in Seq(Names),
           Leads(Links(db), p, from.id), Leads(Links(new), q, from.id)
    PROVE  PathsOf(new) = Tree!Moved(PathsOf(db), p, q)
<1> DEFINE m == from.id
           K == Links(db)
           L == Links(new)
           T == PathsOf(db)
           U == PathsOf(new)
           moved == {r \in DOMAIN T : Covers(p, r)}
           targets == {Onto(p, q, r) : r \in moved}
           R == [s \in (DOMAIN T \ moved) \cup targets |->
                   IF s \in targets THEN T[Onto(q, p, s)] ELSE T[s]]
<1>0. /\ Sound(new, n) /\ L = (K \ {from}) \cup {to} /\ to.id = m
      /\ DOMAIN new = DOMAIN db /\ \A i \in DOMAIN db : new[i].type = db[i].type
  BY Zenon DEF Shifted
<1>1. /\ T = [s \in DOMAIN T |-> T[s]]
      /\ \A s \in DOMAIN T : s \in Seq(Names) /\ \E i \in DOMAIN db : Leads(K, s, i)
      /\ \A s \in Seq(Names) : \A i : Leads(K, s, i) =>
           s \in DOMAIN T /\ i \in DOMAIN db /\ T[s] = db[i].type
  BY TreeHas, Zenon
<1>2. /\ U = [s \in DOMAIN U |-> U[s]]
      /\ \A s \in DOMAIN U : s \in Seq(Names) /\ \E i \in DOMAIN new : Leads(L, s, i)
      /\ \A s \in Seq(Names) : \A i : Leads(L, s, i) =>
           s \in DOMAIN U /\ i \in DOMAIN new /\ U[s] = new[i].type
  BY <1>0, TreeHas, Zenon
<1>3. \A s \in Seq(Names) : \A i : Leads(K, s, i) =>
          /\ Covers(p, s) => Leads(L, Onto(p, q, s), i)
          /\ ~Covers(p, s) => Leads(L, s, i)
  <2>1. \A l \in K : l.id # m => l \in L
    BY <1>0, Zenon
  <2> HIDE DEF m
  <2> QED  BY <2>1, MovePaths, Zenon DEF m
<1>4. \A s \in Seq(Names) : \A i : Leads(L, s, i) =>
          /\ Covers(q, s) => Leads(K, Onto(q, p, s), i)
          /\ ~Covers(q, s) => Leads(K, s, i)
  <2>1. \A l \in L : l.id # m => l \in K
    BY <1>0, Zenon
  <2> HIDE DEF m
  <2> QED  BY <1>0, <2>1, MovePaths, Zenon DEF m
<1>5. \A s \in Seq(Names) : \A r \in Seq(Names) : \A i :
          Leads(L, s, i) /\ Leads(L, r, i) => s = r
  BY <1>0, OnePath, Zenon
<1>6. p \in DOMAIN T
  BY <1>1, Zenon
<1> HIDE DEF K, L, T, U, m
<1>7. Tree!Below(T, p) \cup {p} = moved
  <2>1. Tree!Below(T, p) = {r \in DOMAIN T : Tree!IsBelow(p, r)}
    BY Zenon DEF Tree!Below
  <2>2. ASSUME NEW r \in DOMAIN T PROVE Covers(p, r) <=> Tree!IsBelow(p, r) \/ r = p
    <3>1. r \in Seq(Names)
      BY <1>1, Zenon
    <3>2. Len(p) \in Nat /\ Len(r) \in Nat
      BY <3>1
    <3>3. ASSUME Covers(p, r), Len(p) = Len(r) PROVE r = p
      BY <3>1, <3>3, SameNames, Zenon DEF Covers
    <3>4. Covers(p, p)
      BY <3>2 DEF Covers
    <3> QED  BY <3>2, <3>3, <3>4 DEF Covers, Tree!IsBelow
  <2> QED  BY <1>6, <2>1, <2>2, Zenon
<1>8. Tree!Moved(T, p, q) = R
  <2> HIDE DEF moved
  <2> QED  BY <1>7, Zenon DEF Tree!Moved, Onto
<1>9. ASSUME NEW s \in targets PROVE s \in DOMAIN U /\ U[s] = T[Onto(q, p, s)]
  <2>1. PICK r \in moved : s = Onto(p, q, r)
    BY Zenon
  <2>2. r \in DOMAIN T /\ Covers(p, r)
    BY Zenon
  <2>3. r \in Seq(Names) /\ \E i \in DOMAIN db : Leads(K, r, i)
    BY <1>1, <2>2, Zenon
  <2>4. PICK i \in DOMAIN db : Leads(K, r, i)
    BY <2>3, Zenon
  <2>5. Leads(L, s, i) /\ T[r] = db[i].type
    BY <1>1, <1>3, <2>1, <2>2, <2>3, <2>4, Zenon
  <2>6. s \in Seq(Names) /\ Onto(q, p, s) = r
    BY <2>1, <2>2, <2>3, OntoIs, OntoBack, Zenon
  <2> HIDE DEF targets, moved
  <2>7. s \in DOMAIN U /\ U[s] = new[i].type
    BY <1>2, <2>5, <2>6, Zenon
  <2> QED  BY <1>0, <2>5, <2>6, <2>7, Zenon
<1>10. ASSUME NEW s \in DOMAIN T \ moved PROVE s \in DOMAIN U /\ U[s] = T[s]
  <2>1. s \in DOMAIN T /\ ~Covers(p, s)
    BY Zenon
  <2> HIDE DEF moved
  <2>2. s \in Seq(Names) /\ \E i \in DOMAIN db : Leads(K, s, i)
    BY <1>1, <2>1, Zenon
  <2>3. PICK i \in DOMAIN db : Leads(K, s, i)
    BY <2>2, Zenon
  <2>4. Leads(L, s, i) /\ T[s] = db[i].type
    BY <1>1, <1>3, <2>1, <2>2, <2>3, Zenon
  <2>5. s \in DOMAIN U /\ U[s] = new[i].type
    BY <1>2, <2>2, <2>4, Zenon
  <2> QED  BY <1>0, <2>4, <2>5, Zenon
<1>11. ASSUME NEW s \in DOMAIN U PROVE s \in (DOMAIN T \ moved) \cup targets
  <2>1. s \in Seq(Names) /\ \E i \in DOMAIN new : Leads(L, s, i)
    BY <1>2, Zenon
  <2>2. PICK i \in DOMAIN new : Leads(L, s, i)
    BY <2>1, Zenon
  <2>3. CASE Covers(q, s)
    <3> DEFINE r == Onto(q, p, s)
    <3>1. Leads(K, r, i)
      BY <1>4, <2>1, <2>2, <2>3, Zenon
    <3>2. r \in Seq(Names) /\ Covers(p, r) /\ Onto(p, q, r) = s
      BY <2>1, <2>3, OntoIs, OntoBack, Zenon
    <3> HIDE DEF r
    <3>3. r \in moved
      BY <1>1, <3>1, <3>2, Zenon
    <3> QED  BY <3>2, <3>3, Zenon
  <2>4. CASE ~Covers(q, s)
    <3>1. Leads(K, s, i)
      BY <1>4, <2>1, <2>2, <2>4, Zenon
    <3>2. ~Covers(p, s)
      <4> SUFFICES ASSUME Covers(p, s) PROVE FALSE
        OBVIOUS
      <4>1. Leads(L, Onto(p, q, s), i)
        BY <1>3, <2>1, <3>1, Zenon
      <4>2. Onto(p, q, s) \in Seq(Names) /\ Covers(q, Onto(p, q, s))
        BY <2>1, OntoIs, OntoBack, Zenon
      <4>3. Onto(p, q, s) = s
        BY <1>5, <2>1, <2>2, <4>1, <4>2, Zenon
      <4> QED  BY <2>4, <4>2, <4>3, Zenon
    <3>3. s \in DOMAIN T
      BY <1>1, <2>1, <3>1, Zenon
    <3> QED  BY <3>2, <3>3, Zenon
  <2> QED  BY <2>3, <2>4, Zenon
<1> HIDE DEF moved, targets
<1>12. DOMAIN R = (DOMAIN T \ moved) \cup targets /\ R = [s \in DOMAIN R |-> R[s]]
  BY Zenon
<1>13. DOMAIN U = DOMAIN R
  <2> HIDE DEF R
  <2> QED  BY <1>9, <1>10, <1>11, <1>12, Zenon
<1>14. ASSUME NEW s \in DOMAIN U PROVE U[s] = R[s]
  <2>1. s \in (DOMAIN T \ moved) \cup targets
    BY <1>11, Zenon
  <2>2. R[s] = IF s \in targets THEN T[Onto(q, p, s)] ELSE T[s]
    BY <2>1, Zenon
  <2> HIDE DEF R
  <2> QED  BY <1>9, <1>10, <2>1, <2>2, Zenon
<1>15. U = R
  <2> HIDE DEF R
  <2> QED  BY <1>2, <1>12, <1>13, <1>14, SameValues, Zenon
<1> QED  BY <1>8, <1>15, Zenon DEF T, U

----------------------------------------------------------------------------
(* What the helpers of inode.c report, in terms of the tree of paths. *)

\* More links, more paths.
LEMMA LeadsMore ==
    ASSUME NEW K, NEW L, K \subseteq L, NEW p, NEW i, Leads(K, p, i)
    PROVE  Leads(L, p, i)
<1>1. PICK v : Way(K, p, v) /\ v[Len(p)] = i
  BY Zenon DEF Leads
<1>2. Way(L, p, v)
  BY <1>1, Zenon DEF Way
<1> QED  BY <1>1, <1>2, Zenon DEF Leads

\* A directory has an entry of a name when it has a link of it.
LEMMA NamedLinked ==
    ASSUME NEW db, NEW d \in DOMAIN db, NEW name \in Names
    PROVE  (\E k \in DOMAIN db[d].entries : db[d].entries[k].name = name) <=>
             \E i : Linked(d, name, i) \in Links(db)
<1>1. ASSUME NEW k \in DOMAIN db[d].entries, db[d].entries[k].name = name
      PROVE  \E i : Linked(d, name, i) \in Links(db)
  <2>1. db[d].entries[k].name \notin Dots
    BY <1>1, NamespaceAssumption
  <2>2. Linked(d, db[d].entries[k].name, db[d].entries[k].id) \in Links(db)
    BY <2>1, LinksAre
  <2> QED  BY <1>1, <2>2, Zenon
<1>2. ASSUME NEW i, Linked(d, name, i) \in Links(db)
      PROVE  \E k \in DOMAIN db[d].entries : db[d].entries[k].name = name
  <2> DEFINE l == Linked(d, name, i)
  <2>1. l \in Links(db) /\ l.dir = d /\ l.name = name
    BY <1>2, LinkParts
  <2> HIDE DEF l
  <2> QED  BY <2>1, LinkTyped
<1> QED  BY <1>1, <1>2, Zenon

\* ... and an entry other than "." and ".." when it has any link.
LEMMA NamedAny ==
    ASSUME NEW db, NEW d \in DOMAIN db
    PROVE  (\E k \in DOMAIN db[d].entries : db[d].entries[k].name \notin Dots) <=>
             \E l \in Links(db) : l.dir = d
<1>1. ASSUME NEW k \in DOMAIN db[d].entries, db[d].entries[k].name \notin Dots
      PROVE  \E l \in Links(db) : l.dir = d
  <2>1. Linked(d, db[d].entries[k].name, db[d].entries[k].id) \in Links(db)
    BY <1>1, LinksAre
  <2> QED  BY <2>1, LinkParts
<1>2. ASSUME NEW l \in Links(db), l.dir = d
      PROVE  \E k \in DOMAIN db[d].entries : db[d].entries[k].name \notin Dots
  BY <1>2, LinkTyped
<1> QED  BY <1>1, <1>2, Zenon

\* The directory of a path, as the call finds it.
LEMMA ParentCodes ==
    ASSUME NEW db, NEW n \in 1 .. MaxInodes + 1, Sound(db, n), NEW p \in CallPaths
    PROVE  LET t == PathsOf(db)
               parent == Resolve(db, Dirname(p))
           IN  /\ Tree!Walk(t, Tree!Parent(p)) = parent.res /\ parent.id \in DOMAIN db
               /\ db[parent.id].type \in {"DIRECTORY", "FILE"}
               /\ parent.res = "SUCCESS" =>
                    /\ t[Tree!Parent(p)] = db[parent.id].type
                    /\ Leads(Links(db), Dirname(p), parent.id)
<1>1. Tree!Parent(p) = Dirname(p)
  BY Zenon DEF Tree!Parent, Dirname
<1>2. Dirname(p) \in Seq(Names)
  BY PathTyped, Zenon
<1> DEFINE a == Dirname(p)
           parent == Resolve(db, a)
<1> HIDE DEF a
<1>3. a \in Seq(Names)
  BY <1>2 DEF a
<1>4. Tree!Walk(PathsOf(db), a) = parent.res
  BY <1>3, WalkCodes, Zenon
<1>5. parent.id \in DOMAIN db
  BY <1>3, ResolveTyped, Zenon
<1>6. db[parent.id].type \in {"DIRECTORY", "FILE"}
  BY <1>5, SoundParts, InodeTyped, Zenon
<1>7. ASSUME parent.res = "SUCCESS"
      PROVE  PathsOf(db)[a] = db[parent.id].type /\ Leads(Links(db), a, parent.id)
  BY <1>3, <1>7, TreeIs, WalkWay, Zenon
<1> QED  BY <1>1, <1>4, <1>5, <1>6, <1>7, Zenon DEF a

\* A path is in the tree when its directory has an entry for it.
LEMMA PathNamed ==
    ASSUME NEW db, NEW n \in 1 .. MaxInodes + 1, Sound(db, n), NEW p \in CallPaths, NEW d,
           Leads(Links(db), Dirname(p), d)
    PROVE  p \in DOMAIN PathsOf(db) <=> \E i : Linked(d, Basename(p), i) \in Links(db)
<1>1. p \in Seq(Names)
  BY PathTyped, Zenon
<1>2. p \in DOMAIN PathsOf(db) <=> \E i : Leads(Links(db), p, i)
  BY <1>1, TreeHas, Zenon
<1>3. \A i : Leads(Links(db), p, i) <=> Linked(d, Basename(p), i) \in Links(db)
  BY LastStep, Zenon
<1> QED  BY <1>2, <1>3, Zenon

\* What mtl_append_inode_id_to_directory reports.
LEMMA AppendCodes ==
    ASSUME NEW db, NEW d \in DOMAIN db, NEW name \in Names, NEW id,
           db[d].type \in {"DIRECTORY", "FILE"}
    PROVE  AppendInodeId(db, d, name, id).res =
             IF db[d].type = "FILE" THEN "NOTDIRECTORY"
             ELSE IF \E i : Linked(d, name, i) \in Links(db) THEN "EXISTS" ELSE "SUCCESS"
<1> DEFINE named == \E k \in DOMAIN db[d].entries : db[d].entries[k].name = name
<1>1. named <=> \E i : Linked(d, name, i) \in Links(db)
  BY NamedLinked, Zenon
<1>2. AppendInodeId(db, d, name, id).res =
        IF db[d].type # "DIRECTORY" THEN "NOTDIRECTORY"
        ELSE IF named THEN "EXISTS" ELSE "SUCCESS"
  BY DEF AppendInodeId, Failed
<1> HIDE DEF named
<1> QED  BY <1>1, <1>2

\* What mtl_remove_entry_from_directory reports.
LEMMA RemoveCodes ==
    ASSUME NEW db, NEW n, Sound(db, n), NEW d \in DOMAIN db, NEW name \in Names
    PROVE  RemoveEntry(db, d, name).res =
             IF db[d].type = "FILE" THEN "NOTDIRECTORY"
             ELSE IF \E i : Linked(d, name, i) \in Links(db) THEN "SUCCESS" ELSE "NOENTRY"
<1> DEFINE named == \E k \in DOMAIN db[d].entries : db[d].entries[k].name = name
           linked == \E i : Linked(d, name, i) \in Links(db)
           r == RemoveEntry(db, d, name).res
<1>0. Typed(db, n)
  BY SoundParts, Zenon
<1>1. named <=> linked
  BY NamedLinked, Zenon
<1>2. r = "SUCCESS" <=> db[d].type = "DIRECTORY" /\ named
  BY <1>0, RemoveFinds
<1>3. db[d].type # "DIRECTORY" => r = "NOTDIRECTORY"
  BY DEF RemoveEntry, Failed
<1>4. db[d].type = "DIRECTORY" => r \in {"SUCCESS", "NOENTRY"}
  BY DEF RemoveEntry, Failed
<1>5. db[d].type \in {"DIRECTORY", "FILE"}
  BY <1>0, InodeTyped, Zenon
<1> HIDE DEF named, r, linked
<1>6. r = IF db[d].type = "FILE" THEN "NOTDIRECTORY" ELSE IF linked THEN "SUCCESS" ELSE "NOENTRY"
  BY <1>1, <1>2, <1>3, <1>4, <1>5
<1> QED  BY <1>6, Zenon DEF r, linked

\* A directory has something below it when it has a link.
LEMMA BelowLinks ==
    ASSUME NEW db, NEW n \in 1 .. MaxInodes + 1, Sound(db, n), NEW p \in Seq(Names), NEW m,
           Leads(Links(db), p, m)
    PROVE  Tree!Below(PathsOf(db), p) # {} <=> \E l \in Links(db) : l.dir = m
<1> DEFINE L == Links(db)
           t == PathsOf(db)
<1>1. /\ \A q \in DOMAIN t : q \in Seq(Names) /\ \E i \in DOMAIN db : Leads(L, q, i)
      /\ \A q \in Seq(Names) : \A i : Leads(L, q, i) => q \in DOMAIN t
  BY TreeHas, Zenon
<1>2. Tree!Below(t, p) = {q \in DOMAIN t : Tree!IsBelow(p, q)}
  BY Zenon DEF Tree!Below
<1>3. ASSUME NEW q \in DOMAIN t, Tree!IsBelow(p, q) PROVE \E l \in L : l.dir = m
  <2>1. q \in Seq(Names) /\ \E i \in DOMAIN db : Leads(L, q, i)
    BY <1>1, Zenon
  <2>2. PICK v : Way(L, q, v)
    BY <2>1, Zenon DEF Leads
  <2>3. /\ Len(p) \in 0 .. Len(q) /\ Len(p) + 1 \in 1 .. Len(q) /\ (Len(p) + 1) - 1 = Len(p)
        /\ \A k \in 1 .. Len(p) : q[k] = p[k]
    BY <1>3, <2>1 DEF Tree!IsBelow
  <2>4. SubSeq(q, 1, Len(p)) = p
    <3> DEFINE o == SubSeq(q, 1, Len(p))
    <3>1. o \in Seq(Names) /\ Len(o) = Len(p) /\ \A k \in 1 .. Len(p) : o[k] = q[k]
      BY <2>1, <2>3
    <3> HIDE DEF o
    <3>2. o = p
      BY <2>3, <3>1, SameNames, Zenon
    <3> QED  BY <3>2 DEF o
  <2>5. Leads(L, p, v[Len(p)])
    <3>1. Leads(L, SubSeq(q, 1, Len(p)), v[Len(p)])
      BY <2>1, <2>2, <2>3, WayPrefix, Zenon
    <3> QED  BY <2>4, <3>1, Zenon
  <2>6. v[Len(p)] = m
    BY <2>5, OneInode, Zenon
  <2>7. Linked(v[Len(p)], q[Len(p) + 1], v[Len(p) + 1]) \in L
    BY <2>2, <2>3, Zenon DEF Way
  <2>8. Linked(v[Len(p)], q[Len(p) + 1], v[Len(p) + 1]).dir = v[Len(p)]
    BY LinkParts
  <2> QED  BY <2>6, <2>7, <2>8, Zenon
<1>4. ASSUME NEW l \in L, l.dir = m PROVE \E q \in DOMAIN t : Tree!IsBelow(p, q)
  <2> DEFINE q == Append(p, l.name)
  <2>1. l = Linked(m, l.name, l.id)
    BY <1>4, LinkFrom, LinkParts
  <2>2. l.name \in Names
    <3>1. l.dir \in DOMAIN db /\ l.name \notin Dots
          /\ \E k \in DOMAIN db[l.dir].entries : db[l.dir].entries[k].name = l.name
      BY LinkTyped
    <3>2. \A k \in DOMAIN db[l.dir].entries : db[l.dir].entries[k].name \in Names \cup Dots
      BY <3>1, SoundParts, InodeTyped
    <3> QED  BY <3>1, <3>2, Zenon
  <2>3. /\ q \in Seq(Names) /\ Len(q) = Len(p) + 1 /\ q[Len(p) + 1] = l.name
        /\ \A k \in 1 .. Len(p) : q[k] = p[k]
    BY <2>2
  <2> HIDE DEF q
  <2>4. Basename(q) = l.name /\ Len(q) # 0
    BY <2>3 DEF Basename
  <2>5. Dirname(q) = p
    <3>1. /\ Dirname(q) \in Seq(Names) /\ Len(Dirname(q)) = Len(p)
          /\ \A k \in 1 .. Len(p) : Dirname(q)[k] = q[k]
      BY <2>3 DEF Dirname
    <3> QED  BY <2>3, <3>1, SameNames, Zenon
  <2>6. Leads(L, q, l.id)
    BY <2>1, <2>3, <2>4, <2>5, WayOn, Zenon
  <2>7. q \in DOMAIN t
    BY <1>1, <2>3, <2>6, Zenon
  <2>8. Tree!IsBelow(p, q)
    BY <2>3 DEF Tree!IsBelow
  <2> QED  BY <2>7, <2>8, Zenon
<1> QED  BY <1>2, <1>3, <1>4, Zenon

----------------------------------------------------------------------------
(* Each call does to the tree of paths what PathTree says. *)

\* What a call leaves: the tree of paths and the code.
Left(db, code) == <<PathsOf(db), code>>

\* A new inode is one leaf more.
LEMMA PlacedTree ==
    ASSUME NEW db, NEW n \in Nat, n \in 1 .. MaxInodes, Sound(db, n), NEW path \in CallPaths,
           NEW d, NEW m, Leads(Links(db), Dirname(path), d), NEW type, NEW new,
           Placed(db, n, Linked(d, Basename(path), m), type, new)
    PROVE  PathsOf(new) = Tree!With(PathsOf(db), path, type)
<1> DEFINE link == Linked(d, Basename(path), m)
           o == n + 1
<1>1. link.id = m /\ link.dir = d
  BY LinkParts
<1>2. n \in 1 .. MaxInodes + 1 /\ o \in 1 .. MaxInodes + 1 /\ path \in Seq(Names) /\ Len(path) # 0
  BY PathTyped, NamespaceAssumption
<1>3. /\ LeafMore(db, new, link) /\ Sound(new, o) /\ new[link.id].type = type
      /\ Links(new) = Links(db) \cup {link}
  BY Zenon DEF Placed, LeafMore
<1>4. Leads(Links(new), path, link.id)
  <2>1. Links(db) \subseteq Links(new) /\ link \in Links(new)
    BY <1>3, Zenon
  <2>2. Leads(Links(new), Dirname(path), d)
    BY <2>1, LeadsMore, Zenon
  <2> QED  BY <1>1, <1>2, <2>1, <2>2, WayOn, Zenon
<1> HIDE DEF link, o
<1>5. PathsOf(new) = Tree!With(PathsOf(db), path, new[link.id].type)
  BY <1>2, <1>3, <1>4, LeafTree, Zenon
<1> QED  BY <1>3, <1>5, Zenon

\* A leaf that is gone is one path less.
LEMMA TakenTree ==
    ASSUME NEW db, NEW n \in 1 .. MaxInodes + 1, Sound(db, n), NEW path \in CallPaths,
           NEW gone, NEW new, Taken(db, n, gone, new), Leads(Links(db), path, gone.id)
    PROVE  PathsOf(new) = Tree!Without(PathsOf(db), path)
<1>1. path \in Seq(Names) /\ Forest(DOMAIN db, Links(db))
  BY PathTyped, SoundParts, Zenon
<1>2. /\ gone \in Links(db) /\ \A l \in Links(db) : l.dir # gone.id
      /\ DOMAIN new = DOMAIN db \ {gone.id} /\ Links(new) = Links(db) \ {gone}
      /\ Sound(new, n) /\ \A i \in DOMAIN new : new[i].type = db[i].type
  BY Zenon DEF Taken
<1>3. gone.dir \in DOMAIN db /\ gone.id \in DOMAIN db /\ gone.dir # gone.id
  BY <1>1, <1>2, Zenon DEF Forest
<1>4. LeafMore(new, db, gone)
  <2>1. gone.id \notin DOMAIN new /\ gone.dir \in DOMAIN new
    BY <1>2, <1>3, Zenon
  <2>2. DOMAIN db = DOMAIN new \cup {gone.id}
    BY <1>2, <1>3, Zenon
  <2>3. Links(db) = Links(new) \cup {gone}
    BY <1>2, Zenon
  <2> QED  BY <1>2, <2>1, <2>2, <2>3, Zenon DEF LeafMore
<1>5. path \in Seq(Names) /\ Sound(new, n)
  BY <1>1, <1>2, Zenon
<1> QED  BY <1>4, <1>5, LeafTree, Zenon

\* mtl_mkdir and mtl_create.
LEMMA MakeTree ==
    ASSUME IndInv, NEW path \in CallPaths, NEW type \in {"DIRECTORY", "FILE"},
           MakeIn(path, type)
    PROVE  Left(inodes', result') = Tree!Make(PathsOf(inodes), path, type)
<1> DEFINE t == PathsOf(inodes)
           up == Tree!Parent(path)
           parent == Resolve(inodes, Dirname(path))
           name == Basename(path)
           added == AppendInodeId(inodes, parent.id, name, nextId)
           link == Linked(parent.id, name, nextId)
           new == PutInode(added.db, nextId, NewInode(type, nextId, parent.id))
           code == Tree!WalkToParent(t, path)
<1>0. Sound(inodes, nextId) /\ nextId \in 1 .. MaxInodes + 1 /\ nextId \in Nat
  BY NamespaceAssumption DEF IndInv
<1>1. /\ Tree!Walk(t, up) = parent.res /\ parent.id \in DOMAIN inodes
      /\ inodes[parent.id].type \in {"DIRECTORY", "FILE"}
      /\ parent.res = "SUCCESS" =>
           /\ t[up] = inodes[parent.id].type
           /\ Leads(Links(inodes), Dirname(path), parent.id)
  BY <1>0, ParentCodes, Zenon
<1>2. name \in Names
  BY PathTyped, Zenon
<1>3. code = IF parent.res # "SUCCESS" THEN parent.res
             ELSE IF t[up] = "FILE" THEN "NOTDIRECTORY" ELSE "SUCCESS"
  BY <1>1, Zenon DEF Tree!WalkToParent
<1>4. Tree!Make(t, path, type) =
        IF code # "SUCCESS" THEN <<t, code>>
        ELSE IF path \in DOMAIN t THEN <<t, "EXISTS">>
        ELSE <<Tree!With(t, path, type), "SUCCESS">>
  BY Zenon DEF Tree!Make, Tree!Leaves
<1>5. CASE parent.res # "SUCCESS"
  <2>1. Abort(parent.res)
    BY <1>5, Zenon DEF MakeIn
  <2>2. inodes' = inodes /\ result' = parent.res
    BY <2>1, Zenon DEF Abort
  <2>3. code = parent.res
    BY <1>3, <1>5, Zenon
  <2> QED  BY <1>4, <1>5, <2>2, <2>3, Zenon DEF Left
<1>6. CASE parent.res = "SUCCESS"
  <2>1. t[up] = inodes[parent.id].type /\ Leads(Links(inodes), Dirname(path), parent.id)
    BY <1>1, <1>6, Zenon
  <2> HIDE DEF parent, name
  <2>2. path \in DOMAIN t <=> \E i : Linked(parent.id, name, i) \in Links(inodes)
    BY <1>0, <2>1, PathNamed, Zenon DEF name
  <2>3. added.res = IF inodes[parent.id].type = "FILE" THEN "NOTDIRECTORY"
                    ELSE IF path \in DOMAIN t THEN "EXISTS" ELSE "SUCCESS"
    <3>1. added.res = IF inodes[parent.id].type = "FILE" THEN "NOTDIRECTORY"
                      ELSE IF \E i : Linked(parent.id, name, i) \in Links(inodes)
                           THEN "EXISTS" ELSE "SUCCESS"
      BY <1>1, <1>2, AppendCodes, SMTT(20)
    <3> HIDE DEF added, t
    <3> QED  BY <2>2, <3>1, Zenon
  <2>4. code = IF inodes[parent.id].type = "FILE" THEN "NOTDIRECTORY" ELSE "SUCCESS"
    BY <1>3, <1>6, <2>1, Zenon
  <2> HIDE DEF code, t, up
  <2>5. CASE added.res # "SUCCESS"
    <3>1. Abort(added.res)
      BY <1>6, <2>5, Zenon DEF MakeIn, parent, name
    <3>2. inodes' = inodes /\ result' = added.res
      BY <3>1, Zenon DEF Abort
    <3> HIDE DEF added
    <3>3. Tree!Make(t, path, type) = <<t, added.res>>
      BY <1>1, <1>4, <2>3, <2>4, <2>5
    <3> QED  BY <3>2, <3>3, Zenon DEF Left, t
  <2>6. CASE added.res = "SUCCESS"
    <3>1. CommitTo(new) /\ nextId <= MaxInodes
      BY <1>6, <2>6, Zenon DEF MakeIn, parent, name
    <3>2. inodes' = new /\ result' = "SUCCESS"
      BY <3>1, Zenon DEF CommitTo
    <3>3. nextId \in 1 .. MaxInodes
      BY <1>0, <3>1, NamespaceAssumption
    <3>4. Placed(inodes, nextId, link, type, new)
      BY <1>0, <1>1, <1>2, <2>6, MakeDoes, Zenon
    <3> HIDE DEF added, new
    <3>5. PathsOf(new) = Tree!With(t, path, type)
      BY <1>0, <2>1, <3>3, <3>4, PlacedTree, SMTT(20) DEF t, name
    <3>6. Tree!Make(t, path, type) = <<Tree!With(t, path, type), "SUCCESS">>
      BY <1>1, <1>4, <2>3, <2>4, <2>6
    <3> QED  BY <3>2, <3>5, <3>6, Zenon DEF Left, t
  <2> QED  BY <2>5, <2>6
<1> QED  BY <1>5, <1>6

\* mtl_unlink.
LEMMA UnlinkTree ==
    ASSUME IndInv, NEW path \in CallPaths, VfsUnlinks(path), Unlink(path)
    PROVE  /\ path \in DOMAIN PathsOf(inodes) /\ PathsOf(inodes)[path] = "FILE"
           /\ Left(inodes', result') = Tree!RemoveFile(PathsOf(inodes), path)
<1> DEFINE d == Resolve(inodes, Dirname(path)).id
           file == Resolve(inodes, path)
           entry == RemoveEntry(inodes, d, Basename(path))
           gone == Linked(d, Basename(path), file.id)
           new == DeleteInode(entry.db, entry.id)
<1>0. Sound(inodes, nextId) /\ nextId \in 1 .. MaxInodes + 1 /\ path \in Seq(Names)
  BY PathTyped, Zenon DEF IndInv
<1>1. file.res = "SUCCESS" /\ inodes[file.id].type = "FILE"
  BY Zenon DEF VfsUnlinks
<1>2. path \in DOMAIN PathsOf(inodes) /\ PathsOf(inodes)[path] = "FILE"
  BY <1>0, <1>1, TreeIs, Zenon
<1>3. Taken(inodes, nextId, gone, new)
  BY <1>0, <1>1, UnlinkDoes, Zenon
<1>4. gone.id = file.id
  BY LinkParts
<1>5. Leads(Links(inodes), path, gone.id)
  BY <1>0, <1>1, <1>4, WalkWay, Zenon
<1>6. CommitTo(new)
  BY Zenon DEF Unlink
<1>7. inodes' = new /\ result' = "SUCCESS"
  BY <1>6, Zenon DEF CommitTo
<1> HIDE DEF new, gone
<1>8. PathsOf(new) = Tree!Without(PathsOf(inodes), path)
  BY <1>0, <1>3, <1>5, TakenTree, SMTT(20)
<1>9. Tree!RemoveFile(PathsOf(inodes), path) = <<Tree!Without(PathsOf(inodes), path), "SUCCESS">>
  BY Zenon DEF Tree!RemoveFile, Tree!Leaves
<1> QED  BY <1>2, <1>7, <1>8, <1>9, Zenon DEF Left

\* What mtl_remove_directory reports once the entry is gone from the parent.
LEMMA RmdirCodes ==
    ASSUME NEW db, NEW n \in 1 .. MaxInodes + 1, Sound(db, n), NEW path \in CallPaths,
           NEW d \in DOMAIN db, Leads(Links(db), Dirname(path), d),
           NEW entry, entry = RemoveEntry(db, d, Basename(path)), entry.res = "SUCCESS"
    PROVE  /\ Leads(Links(db), path, entry.id)
           /\ RemoveDirectory(entry.db, entry.id).res =
                IF PathsOf(db)[path] = "FILE" THEN "NOTDIRECTORY"
                ELSE IF Tree!Below(PathsOf(db), path) # {} THEN "NOTEMPTY" ELSE "SUCCESS"
<1> DEFINE m == entry.id
           name == Basename(path)
           gone == Linked(d, name, m)
           t == PathsOf(db)
<1>0. /\ Typed(db, n) /\ AllDistinct(db) /\ Forest(DOMAIN db, Links(db))
      /\ name \in Names /\ path \in Seq(Names)
  BY SoundParts, PathTyped, Zenon
<1>1. /\ gone \in Links(db) /\ Links(entry.db) = Links(db) \ {gone} /\ Allied(entry.db, db)
  <2> HIDE DEF name
  <2>1. RemoveEntry(db, d, name).res = "SUCCESS" /\ entry = RemoveEntry(db, d, name)
    BY Zenon DEF name
  <2> QED  BY <1>0, <2>1, RemoveFacts, SMTT(20)
<1>2. gone.id = m /\ gone.dir = d
  BY LinkParts
<1>3. Leads(Links(db), path, m)
  BY <1>1, LastStep, Zenon
<1> HIDE DEF gone, m, name
<1>4. m \in DOMAIN db /\ d # m
  <2>1. m \in DOMAIN db
    BY <1>0, <1>1, <1>2, Zenon DEF Forest
  <2>2. gone.dir # gone.id
    BY <1>0, <1>1, NoSelfLink, Zenon
  <2> QED  BY <1>2, <2>1, <2>2, Zenon
<1>5. t[path] = db[m].type /\ db[m].type \in {"DIRECTORY", "FILE"}
  <2>1. t[path] = db[m].type
    BY <1>0, <1>3, TreeHas, Zenon
  <2> QED  BY <1>0, <1>4, <2>1, InodeTyped, Zenon
<1>6. m \in DOMAIN entry.db /\ entry.db[m].type = db[m].type
  BY <1>1, <1>4, Zenon DEF Allied
<1> DEFINE full == \E k \in DOMAIN entry.db[m].entries : entry.db[m].entries[k].name \notin Dots
<1>7. full <=> Tree!Below(t, path) # {}
  <2>1. full <=> \E l \in Links(entry.db) : l.dir = m
    BY <1>6, NamedAny, Zenon
  <2>2. Tree!Below(t, path) # {} <=> \E l \in Links(db) : l.dir = m
    BY <1>0, <1>3, BelowLinks, Zenon
  <2>3. (\E l \in Links(entry.db) : l.dir = m) <=> \E l \in Links(db) : l.dir = m
    BY <1>1, <1>2, <1>4, Zenon
  <2> HIDE DEF full, t
  <2> QED  BY <2>1, <2>2, <2>3, Zenon
<1>8. RemoveDirectory(entry.db, m).res =
        IF entry.db[m].type # "DIRECTORY" THEN "NOTDIRECTORY"
        ELSE IF full THEN "NOTEMPTY" ELSE "SUCCESS"
  BY DEF RemoveDirectory, Failed
<1> HIDE DEF full, t
<1> DEFINE below == Tree!Below(t, path)
<1>9. full <=> below # {}
  BY <1>7
<1> HIDE DEF below
<1>10. RemoveDirectory(entry.db, m).res =
         IF t[path] = "FILE" THEN "NOTDIRECTORY"
         ELSE IF below # {} THEN "NOTEMPTY" ELSE "SUCCESS"
  BY <1>5, <1>6, <1>8, <1>9
<1> QED  BY <1>3, <1>10, Zenon DEF m, t, below

\* mtl_rmdir.
LEMMA RmdirTree ==
    ASSUME IndInv, NEW path \in CallPaths, Rmdir(path)
    PROVE  Left(inodes', result') = Tree!RemoveDirectory(PathsOf(inodes), path)
<1> DEFINE t == PathsOf(inodes)
           up == Tree!Parent(path)
           parent == Resolve(inodes, Dirname(path))
           d == parent.id
           name == Basename(path)
           entry == RemoveEntry(inodes, d, name)
           removed == RemoveDirectory(entry.db, entry.id)
           code == Tree!WalkToParent(t, path)
           gone == Linked(d, name, entry.id)
           below == Tree!Below(t, path)
<1>0. Sound(inodes, nextId) /\ nextId \in 1 .. MaxInodes + 1
  BY Zenon DEF IndInv
<1>1. /\ Tree!Walk(t, up) = parent.res /\ d \in DOMAIN inodes
      /\ inodes[d].type \in {"DIRECTORY", "FILE"}
      /\ parent.res = "SUCCESS" =>
           t[up] = inodes[d].type /\ Leads(Links(inodes), Dirname(path), d)
  BY <1>0, ParentCodes, Zenon
<1>2. name \in Names
  BY PathTyped, Zenon
<1>3. code = IF parent.res # "SUCCESS" THEN parent.res
             ELSE IF t[up] = "FILE" THEN "NOTDIRECTORY" ELSE "SUCCESS"
  BY <1>1, Zenon DEF Tree!WalkToParent
<1>4. Tree!RemoveDirectory(t, path) =
        IF code # "SUCCESS" THEN <<t, code>>
        ELSE IF path \notin DOMAIN t THEN <<t, "NOENTRY">>
        ELSE IF t[path] = "FILE" THEN <<t, "NOTDIRECTORY">>
        ELSE IF below # {} THEN <<t, "NOTEMPTY">>
        ELSE <<Tree!Without(t, path), "SUCCESS">>
  BY Zenon DEF Tree!RemoveDirectory, Tree!Leaves
<1>5. CASE parent.res # "SUCCESS"
  <2>1. Abort(parent.res)
    BY <1>5, Zenon DEF Rmdir
  <2>2. inodes' = inodes /\ result' = parent.res
    BY <2>1, Zenon DEF Abort
  <2>3. code = parent.res
    BY <1>3, <1>5, Zenon
  <2> QED  BY <1>4, <1>5, <2>2, <2>3, Zenon DEF Left
<1>6. CASE parent.res = "SUCCESS"
  <2>1. t[up] = inodes[d].type /\ Leads(Links(inodes), Dirname(path), d)
    BY <1>1, <1>6, Zenon
  <2>2. path \in DOMAIN t <=> \E i : Linked(d, name, i) \in Links(inodes)
    BY <1>0, <2>1, PathNamed, Zenon
  <2> HIDE DEF d
  <2>3. entry.res = IF inodes[d].type = "FILE" THEN "NOTDIRECTORY"
                    ELSE IF path \in DOMAIN t THEN "SUCCESS" ELSE "NOENTRY"
    <3> HIDE DEF name
    <3>1. entry.res = IF inodes[d].type = "FILE" THEN "NOTDIRECTORY"
                      ELSE IF \E i : Linked(d, name, i) \in Links(inodes)
                           THEN "SUCCESS" ELSE "NOENTRY"
      BY <1>0, <1>1, <1>2, RemoveCodes, SMTT(20)
    <3> HIDE DEF entry, t
    <3> QED  BY <2>2, <3>1, Zenon
  <2>4. code = IF inodes[d].type = "FILE" THEN "NOTDIRECTORY" ELSE "SUCCESS"
    BY <1>3, <1>6, <2>1, Zenon
  <2> HIDE DEF code, t, up, below
  <2>5. CASE entry.res # "SUCCESS"
    <3>1. Abort(entry.res)
      BY <1>6, <2>5, Zenon DEF Rmdir, d
    <3>2. inodes' = inodes /\ result' = entry.res
      BY <3>1, Zenon DEF Abort
    <3> HIDE DEF entry
    <3>3. Tree!RemoveDirectory(t, path) = <<t, entry.res>>
      BY <1>1, <1>4, <2>3, <2>4, <2>5, SMTT(20)
    <3> QED  BY <3>2, <3>3, Zenon DEF Left, t
  <2>6. CASE entry.res = "SUCCESS"
    <3>1. /\ Leads(Links(inodes), path, entry.id)
          /\ removed.res = IF t[path] = "FILE" THEN "NOTDIRECTORY"
                           ELSE IF below # {} THEN "NOTEMPTY" ELSE "SUCCESS"
      BY <1>0, <1>1, <2>1, <2>6, RmdirCodes, SMTT(20) DEF t, below
    <3>2. code = "SUCCESS" /\ path \in DOMAIN t
      BY <1>1, <2>3, <2>4, <2>6, SMTT(20)
    <3>3. CASE removed.res # "SUCCESS"
      <4>1. Abort(removed.res)
        BY <1>6, <2>6, <3>3, Zenon DEF Rmdir, d
      <4>2. inodes' = inodes /\ result' = removed.res
        BY <4>1, Zenon DEF Abort
      <4> HIDE DEF entry, removed
      <4>3. Tree!RemoveDirectory(t, path) = <<t, removed.res>>
        BY <1>4, <3>1, <3>2, <3>3
      <4> QED  BY <4>2, <4>3, Zenon DEF Left, t
    <3>4. CASE removed.res = "SUCCESS"
      <4>1. CommitTo(removed.db)
        BY <1>6, <2>6, <3>4, Zenon DEF Rmdir, d
      <4>2. inodes' = removed.db /\ result' = "SUCCESS"
        BY <4>1, Zenon DEF CommitTo
      <4>3. Taken(inodes, nextId, gone, removed.db)
        BY <1>0, <1>1, <1>2, <2>6, <3>4, RmdirDoes, Zenon
      <4>4. gone.id = entry.id
        BY LinkParts
      <4>5. Tree!RemoveDirectory(t, path) = <<Tree!Without(t, path), "SUCCESS">>
        <5> HIDE DEF entry, removed
        <5> QED  BY <1>4, <3>1, <3>2, <3>4
      <4> DEFINE new == removed.db
      <4> HIDE DEF gone, new
      <4>6. Leads(Links(inodes), path, gone.id) /\ Taken(inodes, nextId, gone, new)
        BY <3>1, <4>3, <4>4, Zenon DEF new
      <4>7. PathsOf(new) = Tree!Without(t, path)
        BY <1>0, <4>6, TakenTree, SMTT(20) DEF t
      <4> QED  BY <4>2, <4>5, <4>7, Zenon DEF Left, new, t
    <3> QED  BY <3>3, <3>4
  <2> QED  BY <2>5, <2>6
<1> QED  BY <1>5, <1>6

\* What mtl_append_inode_id_to_directory reports to mtl_rename, which has
\* taken the entry from the old directory before.
LEMMA RenameCodes ==
    ASSUME NEW db, NEW n \in 1 .. MaxInodes + 1, Sound(db, n),
           NEW from \in CallPaths, NEW to \in CallPaths,
           NEW c \in DOMAIN db, Leads(Links(db), Dirname(from), c),
           NEW e \in DOMAIN db, Leads(Links(db), Dirname(to), e),
           NEW entry, entry = RemoveEntry(db, c, Basename(from)), entry.res = "SUCCESS"
    PROVE  /\ Leads(Links(db), from, entry.id)
           /\ AppendInodeId(entry.db, e, Basename(to), entry.id).res =
                IF db[e].type = "FILE" THEN "NOTDIRECTORY"
                ELSE IF to \in DOMAIN PathsOf(db) /\ to # from THEN "EXISTS" ELSE "SUCCESS"
<1> DEFINE m == entry.id
           name == Basename(from)
           last == Basename(to)
           old == Linked(c, name, m)
           t == PathsOf(db)
<1>0. /\ Typed(db, n) /\ AllDistinct(db) /\ name \in Names /\ last \in Names
      /\ from \in Seq(Names) /\ to \in Seq(Names) /\ Dirname(from) \in Seq(Names)
  BY SoundParts, PathTyped, Zenon
<1>1. /\ old \in Links(db) /\ Links(entry.db) = Links(db) \ {old} /\ Allied(entry.db, db)
  <2> HIDE DEF name
  <2>1. RemoveEntry(db, c, name).res = "SUCCESS" /\ entry = RemoveEntry(db, c, name)
    BY Zenon DEF name
  <2> QED  BY <1>0, <2>1, RemoveFacts, SMTT(20)
<1>2. Leads(Links(db), from, m)
  BY <1>1, LastStep, Zenon
<1>3. to \in DOMAIN t <=> \E i : Linked(e, last, i) \in Links(db)
  BY PathNamed, Zenon
<1>4. \A i : Leads(Links(db), to, i) <=> Linked(e, last, i) \in Links(db)
  BY LastStep, Zenon
<1>5. old.dir = c /\ old.name = name /\ old.id = m
  BY LinkParts
<1>6. e \in DOMAIN entry.db /\ entry.db[e].type = db[e].type
      /\ db[e].type \in {"DIRECTORY", "FILE"}
  <2>1. db[e].type \in {"DIRECTORY", "FILE"}
    BY <1>0, InodeTyped, Zenon
  <2> QED  BY <1>1, <2>1, Zenon DEF Allied
<1>7. (\E i : Linked(e, last, i) \in Links(entry.db)) <=> to \in DOMAIN t /\ to # from
  <2>1. ASSUME NEW i, Linked(e, last, i) \in Links(entry.db)
        PROVE  to \in DOMAIN t /\ to # from
    <3>1. Linked(e, last, i) \in Links(db) /\ Linked(e, last, i) # old
      BY <1>1, <2>1, Zenon
    <3>2. to # from
      <4> SUFFICES ASSUME to = from PROVE FALSE
        OBVIOUS
      <4>1. e = c /\ last = name
        BY <1>0, OneInode, Zenon
      <4>2. i = m
        BY <1>0, <1>1, <3>1, <4>1, SameName, Zenon
      <4> QED  BY <3>1, <4>1, <4>2, Zenon
    <3> HIDE DEF t
    <3> QED  BY <1>3, <3>1, <3>2, Zenon
  <2>2. ASSUME to \in DOMAIN t, to # from
        PROVE  \E i : Linked(e, last, i) \in Links(entry.db)
    <3>1. PICK i : Linked(e, last, i) \in Links(db)
      BY <1>3, <2>2, Zenon
    <3>2. Linked(e, last, i) # old
      <4> SUFFICES ASSUME Linked(e, last, i) = old PROVE FALSE
        OBVIOUS
      <4>1. Linked(e, last, i).id = i
        BY LinkParts
      <4>2. i = m
        BY <1>5, <4>1, Zenon
      <4>3. Leads(Links(db), to, m)
        BY <1>4, <3>1, <4>2, Zenon
      <4> QED  BY <1>0, <1>2, <2>2, <4>3, OnePath, Zenon
    <3> QED  BY <1>1, <3>1, <3>2, Zenon
  <2> QED  BY <2>1, <2>2, Zenon
<1> DEFINE less == entry.db
<1> HIDE DEF t, last, m, less
<1>8. /\ e \in DOMAIN less /\ less[e].type \in {"DIRECTORY", "FILE"}
      /\ less[e].type = db[e].type
  BY <1>6, Zenon DEF less
<1>9. AppendInodeId(less, e, last, m).res =
        IF less[e].type = "FILE" THEN "NOTDIRECTORY"
        ELSE IF \E i : Linked(e, last, i) \in Links(less) THEN "EXISTS" ELSE "SUCCESS"
  BY <1>0, <1>8, AppendCodes, SMTT(20)
<1>10. AppendInodeId(less, e, last, m).res =
         IF db[e].type = "FILE" THEN "NOTDIRECTORY"
         ELSE IF to \in DOMAIN t /\ to # from THEN "EXISTS" ELSE "SUCCESS"
  BY <1>7, <1>8, <1>9, Zenon DEF less
<1> QED  BY <1>2, <1>10, Zenon DEF m, t, last, less

\* After mtl_rename the new path leads to the inode.
LEMMA RenameLeads ==
    ASSUME NEW db, NEW n, Sound(db, n), NEW from \in CallPaths, NEW to \in CallPaths,
           VfsRenames(from, to), NEW old, NEW e, NEW new, NEW m,
           Shifted(db, n, old, Linked(e, Basename(to), m), new),
           Leads(Links(db), from, m), Leads(Links(db), Dirname(to), e)
    PROVE  Leads(Links(new), to, m)
<1> DEFINE a == Dirname(to)
           link == Linked(e, Basename(to), m)
           K == Links(db)
           L == Links(new)
<1>0. /\ from \in Seq(Names) /\ to \in Seq(Names) /\ a \in Seq(Names) /\ Len(to) # 0
      /\ Len(a) = Len(to) - 1 /\ \A k \in 1 .. Len(a) : a[k] = to[k]
  BY PathTyped
<1>1. PICK u : Way(K, from, u) /\ u[Len(from)] = m
  BY Zenon DEF Leads
<1>2. PICK v : Way(K, a, v) /\ v[Len(a)] = e
  BY Zenon DEF Leads
<1>3. link.id = m
  BY LinkParts
<1>4. /\ L = (K \ {old}) \cup {link} /\ old.id = m
  BY <1>3, Zenon DEF Shifted
<1> HIDE DEF a, link
<1>5. ASSUME NEW k \in 1 .. Len(a) PROVE v[k] # m
  <2> SUFFICES ASSUME v[k] = m PROVE FALSE
    OBVIOUS
  <2>1. k \in 0 .. Len(a) /\ Len(from) \in 0 .. Len(from)
    BY <1>0
  <2>2. k = Len(from) /\ \A j \in 1 .. k : a[j] = from[j]
    BY <1>0, <1>1, <1>2, <2>1, WaysMeet, SMTT(20)
  <2>3. Len(from) < Len(to) /\ \A j \in 1 .. k : j \in 1 .. Len(a)
    BY <1>0, <2>2
  <2>4. \A j \in 1 .. Len(from) : from[j] = to[j]
    BY <1>0, <2>2, <2>3, Zenon
  <2> QED  BY <2>3, <2>4, Zenon DEF VfsRenames
<1>6. \A l \in K : l.id # m => l \in L
  BY <1>4, Zenon
<1>7. Way(L, a, v)
  <2> HIDE DEF K, L
  <2> QED  BY <1>0, <1>2, <1>5, <1>6, WayWithin, Zenon
<1>8. Leads(L, a, e)
  BY <1>2, <1>7, Zenon DEF Leads
<1>9. link \in L
  BY <1>4, Zenon
<1> QED  BY <1>0, <1>8, <1>9, WayOn, Zenon DEF a, link

\* mtl_rename.
LEMMA RenameTree ==
    ASSUME IndInv, NEW from \in CallPaths, NEW to \in CallPaths, VfsRenames(from, to),
           Rename(from, to)
    PROVE  Left(inodes', result') = Tree!Move(PathsOf(inodes), from, to)
<1> DEFINE t == PathsOf(inodes)
           fromUp == Tree!Parent(from)
           toUp == Tree!Parent(to)
           fromParent == Resolve(inodes, Dirname(from))
           toParent == Resolve(inodes, Dirname(to))
           c == fromParent.id
           e == toParent.id
           entry == RemoveEntry(inodes, c, Basename(from))
           added == AppendInodeId(entry.db, e, Basename(to), entry.id)
           old == Linked(c, Basename(from), entry.id)
           link == Linked(e, Basename(to), entry.id)
<1>0. /\ Sound(inodes, nextId) /\ nextId \in 1 .. MaxInodes + 1
      /\ from \in Seq(Names) /\ to \in Seq(Names) /\ Basename(from) \in Names
  BY PathTyped, Zenon DEF IndInv
<1>1. /\ Tree!Walk(t, fromUp) = fromParent.res /\ c \in DOMAIN inodes
      /\ inodes[c].type \in {"DIRECTORY", "FILE"}
      /\ fromParent.res = "SUCCESS" =>
           t[fromUp] = inodes[c].type /\ Leads(Links(inodes), Dirname(from), c)
  BY <1>0, ParentCodes, Zenon
<1>2. /\ Tree!Walk(t, toUp) = toParent.res /\ e \in DOMAIN inodes
      /\ inodes[e].type \in {"DIRECTORY", "FILE"}
      /\ toParent.res = "SUCCESS" =>
           t[toUp] = inodes[e].type /\ Leads(Links(inodes), Dirname(to), e)
  BY <1>0, ParentCodes, Zenon
<1>3. Tree!Move(t, from, to) =
        IF fromParent.res # "SUCCESS" THEN <<t, fromParent.res>>
        ELSE IF toParent.res # "SUCCESS" THEN <<t, toParent.res>>
        ELSE IF t[fromUp] = "FILE" THEN <<t, "NOTDIRECTORY">>
        ELSE IF from \notin DOMAIN t THEN <<t, "NOENTRY">>
        ELSE IF t[toUp] = "FILE" THEN <<t, "NOTDIRECTORY">>
        ELSE IF to \in DOMAIN t /\ to # from THEN <<t, "EXISTS">>
        ELSE <<Tree!Moved(t, from, to), "SUCCESS">>
  BY <1>1, <1>2, Zenon DEF Tree!Move, Tree!Leaves
<1>4. CASE fromParent.res # "SUCCESS"
  <2>1. Abort(fromParent.res)
    BY <1>4, Zenon DEF Rename
  <2>2. inodes' = inodes /\ result' = fromParent.res
    BY <2>1, Zenon DEF Abort
  <2> QED  BY <1>3, <1>4, <2>2, Zenon DEF Left
<1>5. CASE fromParent.res = "SUCCESS" /\ toParent.res # "SUCCESS"
  <2>1. Abort(toParent.res)
    BY <1>5, Zenon DEF Rename
  <2>2. inodes' = inodes /\ result' = toParent.res
    BY <2>1, Zenon DEF Abort
  <2> QED  BY <1>3, <1>5, <2>2, Zenon DEF Left
<1>6. CASE fromParent.res = "SUCCESS" /\ toParent.res = "SUCCESS"
  <2>1. /\ t[fromUp] = inodes[c].type /\ Leads(Links(inodes), Dirname(from), c)
        /\ t[toUp] = inodes[e].type /\ Leads(Links(inodes), Dirname(to), e)
    BY <1>1, <1>2, <1>6, Zenon
  <2>2. from \in DOMAIN t <=> \E i : Linked(c, Basename(from), i) \in Links(inodes)
    BY <1>0, <2>1, PathNamed, Zenon
  <2>3. /\ entry.res # "SUCCESS" => Abort(entry.res)
        /\ entry.res = "SUCCESS" /\ added.res # "SUCCESS" => Abort(added.res)
        /\ entry.res = "SUCCESS" /\ added.res = "SUCCESS" => CommitTo(added.db)
    BY <1>6, Zenon DEF Rename
  <2>4. entry.res = "SUCCESS" /\ added.res = "SUCCESS" =>
          Shifted(inodes, nextId, old, link, added.db)
    BY <1>0, <1>6, RenameDoes, Zenon
  <2> HIDE DEF c, e
  <2>5. entry.res = IF inodes[c].type = "FILE" THEN "NOTDIRECTORY"
                    ELSE IF from \in DOMAIN t THEN "SUCCESS" ELSE "NOENTRY"
    <3> DEFINE name == Basename(from)
    <3>1. name \in Names
      BY <1>0
    <3> HIDE DEF name
    <3>2. RemoveEntry(inodes, c, name).res =
            IF inodes[c].type = "FILE" THEN "NOTDIRECTORY"
            ELSE IF \E i : Linked(c, name, i) \in Links(inodes) THEN "SUCCESS" ELSE "NOENTRY"
      BY <1>0, <1>1, <3>1, RemoveCodes, SMTT(20)
    <3> HIDE DEF t
    <3> QED  BY <2>2, <3>2, Zenon DEF name
  <2>6. entry.res = "SUCCESS" =>
          /\ Leads(Links(inodes), from, entry.id)
          /\ added.res = IF inodes[e].type = "FILE" THEN "NOTDIRECTORY"
                         ELSE IF to \in DOMAIN t /\ to # from THEN "EXISTS" ELSE "SUCCESS"
    BY <1>0, <1>1, <1>2, <2>1, RenameCodes, SMTT(20)
  <2> DEFINE free == ~ (to \in DOMAIN t /\ to # from)
             there == from \in DOMAIN t
             after == Tree!Moved(t, from, to)
  <2>7. Tree!Move(t, from, to) =
          IF inodes[c].type = "FILE" THEN <<t, "NOTDIRECTORY">>
          ELSE IF ~there THEN <<t, "NOENTRY">>
          ELSE IF inodes[e].type = "FILE" THEN <<t, "NOTDIRECTORY">>
          ELSE IF ~free THEN <<t, "EXISTS">>
          ELSE <<after, "SUCCESS">>
    BY <1>3, <1>6, <2>1, Zenon
  <2>8. CASE entry.res # "SUCCESS"
    <3>1. inodes' = inodes /\ result' = entry.res
      BY <2>3, <2>8, Zenon DEF Abort
    <3>2. entry.res = IF inodes[c].type = "FILE" THEN "NOTDIRECTORY"
                      ELSE IF there THEN "SUCCESS" ELSE "NOENTRY"
      BY <2>5, Zenon
    <3> HIDE DEF entry, there, free, after
    <3>3. Tree!Move(t, from, to) = <<t, entry.res>>
      <4> HIDE DEF t
      <4> QED  BY <2>7, <2>8, <3>2, SMTT(20)
    <3> QED  BY <3>1, <3>3, Zenon DEF Left
  <2>9. CASE entry.res = "SUCCESS"
    <3>1. inodes[c].type # "FILE" /\ there
      <4>1. entry.res = IF inodes[c].type = "FILE" THEN "NOTDIRECTORY"
                        ELSE IF there THEN "SUCCESS" ELSE "NOENTRY"
        BY <2>5, Zenon
      <4> HIDE DEF entry, there
      <4> QED  BY <2>9, <4>1, SMTT(20)
    <3>2. /\ Leads(Links(inodes), from, entry.id)
          /\ added.res = IF inodes[e].type = "FILE" THEN "NOTDIRECTORY"
                         ELSE IF ~free THEN "EXISTS" ELSE "SUCCESS"
      BY <2>6, <2>9, Zenon
    <3>3. CASE added.res # "SUCCESS"
      <4>1. inodes' = inodes /\ result' = added.res
        BY <2>3, <2>9, <3>3, Zenon DEF Abort
      <4> HIDE DEF added, there, free, after
      <4>2. Tree!Move(t, from, to) = <<t, added.res>>
        <5> HIDE DEF t, entry
        <5> QED  BY <2>7, <3>1, <3>2, <3>3, SMTT(20)
      <4> QED  BY <4>1, <4>2, Zenon DEF Left
    <3>4. CASE added.res = "SUCCESS"
      <4> DEFINE new == added.db
                 m == entry.id
      <4>1. inodes' = new /\ result' = "SUCCESS"
        BY <2>3, <2>9, <3>4, Zenon DEF CommitTo
      <4>2. Shifted(inodes, nextId, old, link, new)
        BY <2>4, <2>9, <3>4, Zenon
      <4>3. old.id = m
        BY LinkParts
      <4>4. Tree!Move(t, from, to) = <<after, "SUCCESS">>
        <5> HIDE DEF t, entry, added, there, free, after
        <5> QED  BY <2>7, <3>1, <3>2, <3>4, SMTT(20)
      <4> HIDE DEF new, old
      <4>5. Leads(Links(inodes), from, m)
        BY <3>2, Zenon
      <4> HIDE DEF m, entry, added
      <4>6. Shifted(inodes, nextId, old, Linked(e, Basename(to), m), new)
        BY <4>2, Zenon DEF m
      <4>7. Leads(Links(new), to, m)
        BY <1>0, <2>1, <4>5, <4>6, RenameLeads, SMTT(20)
      <4>8. PathsOf(new) = after
        <5>1. Leads(Links(inodes), from, old.id) /\ Leads(Links(new), to, old.id)
          BY <4>3, <4>5, <4>7, Zenon DEF m
        <5> HIDE DEF link
        <5> QED  BY <1>0, <4>2, <5>1, MoveTree, SMTT(20)
      <4> HIDE DEF after
      <4> QED  BY <4>1, <4>4, <4>8, Zenon DEF Left
    <3> QED  BY <3>3, <3>4
  <2> QED  BY <2>8, <2>9
<1> QED  BY <1>4, <1>5, <1>6, Zenon

\* mtl_initialize leaves the root alone.
LEMMA InitTree == Init => Tree!Init
<1> SUFFICES ASSUME Init PROVE Tree!Init
  OBVIOUS
<1>0. IndInv
  BY InitInd, Zenon
<1>1. Sound(inodes, nextId) /\ nextId \in 1 .. MaxInodes + 1
  BY <1>0, Zenon DEF IndInv
<1>2. /\ inodes = [i \in {Root} |-> NewDirectory(Root, Root)]
      /\ call = <<"mtl_initialize">> /\ result = "SUCCESS"
  BY Zenon DEF Init
<1> DEFINE t == PathsOf(inodes)
           only == [p \in {<<>>} |-> "DIRECTORY"]
           L == Links(inodes)
<1>3. /\ t = [p \in DOMAIN t |-> t[p]]
      /\ \A p \in DOMAIN t : p \in Seq(Names) /\ \E i \in DOMAIN inodes : Leads(L, p, i)
      /\ \A p \in Seq(Names) : \A i : Leads(L, p, i) =>
           p \in DOMAIN t /\ t[p] = inodes[i].type
  BY <1>1, TreeHas, Zenon
<1>4. DOMAIN inodes = {Root} /\ inodes[Root].type = "DIRECTORY"
  BY <1>2 DEF NewDirectory
<1> HIDE DEF t, L
<1>5. <<>> \in Seq(Names) /\ Len(<<>>) = 0
  OBVIOUS
<1>6. <<>> \in DOMAIN t /\ t[<<>>] = "DIRECTORY"
  <2> DEFINE v == [k \in 0 .. 0 |-> Root]
  <2>1. v[0] = Root
    OBVIOUS
  <2> HIDE DEF v
  <2>2. Way(L, <<>>, v)
    BY <1>5, <2>1 DEF Way
  <2>3. Leads(L, <<>>, Root)
    BY <1>5, <2>1, <2>2, Zenon DEF Leads
  <2> QED  BY <1>3, <1>4, <1>5, <2>3, Zenon
<1>7. ASSUME NEW p \in DOMAIN t PROVE p = <<>>
  <2>1. p \in Seq(Names) /\ \E i \in DOMAIN inodes : Leads(L, p, i)
    BY <1>3, Zenon
  <2>2. Leads(L, p, Root)
    BY <1>4, <2>1, Zenon
  <2>3. PICK v : Way(L, p, v) /\ v[Len(p)] = Root
    BY <2>2, Zenon DEF Leads
  <2>4. Len(p) = 0
    <3>1. v[0] = Root
      BY <2>3, Zenon DEF Way
    <3>2. 0 \in 0 .. Len(p) /\ Len(p) \in 0 .. Len(p)
      BY <2>1
    <3> QED  BY <1>1, <2>1, <2>3, <3>1, <3>2, WaysMeet DEF L
  <2> QED  BY <2>1, <2>4
<1>8. t = only
  <2>1. /\ DOMAIN only = {<<>>} /\ only = [p \in DOMAIN only |-> only[p]]
        /\ \A p \in DOMAIN only : only[p] = "DIRECTORY"
    BY Zenon
  <2> HIDE DEF only
  <2>2. DOMAIN t = DOMAIN only /\ \A p \in DOMAIN t : t[p] = only[p]
    BY <1>6, <1>7, <2>1, Zenon
  <2> QED  BY <1>3, <2>1, <2>2, SameValues, Zenon
<1> QED  BY <1>2, <1>8, Zenon DEF Tree!Init, t

\* A call answers as PathTree does.
LEMMA AnswerTree ==
    ASSUME NEW c, NEW outcome, call' = c, Left(inodes', result') = outcome
    PROVE  Tree!Answer(c, outcome)
BY Zenon DEF Tree!Answer, Left

\* Every call is one of PathTree, on the same paths and with the same code.
LEMMA NextTree == IndInv /\ [Next]_vars => [Tree!Next]_(Tree!vars)
<1> SUFFICES ASSUME IndInv, [Next]_vars PROVE Tree!Next \/ UNCHANGED Tree!vars
  OBVIOUS
<1> DEFINE t == PathsOf(inodes)
<1>1. CASE UNCHANGED vars
  BY <1>1, Zenon DEF vars, Tree!vars
<1>2. CASE Next
  <2>1. PICK path \in CallPaths :
            \/ Lookup(path) /\ call' = <<"lookup", path>>
            \/ Mkdir(path) /\ call' = <<"mkdir", path>>
            \/ Create(path) /\ call' = <<"create", path>>
            \/ Rmdir(path) /\ call' = <<"rmdir", path>>
            \/ VfsUnlinks(path) /\ Unlink(path) /\ call' = <<"unlink", path>>
            \/ \E to \in CallPaths :
                 VfsRenames(path, to) /\ Rename(path, to) /\ call' = <<"rename", path, to>>
    BY <1>2, Zenon DEF Next
  <2>2. SUFFICES
            \/ Tree!Answer(<<"lookup", path>>, Tree!Lookup(t, path))
            \/ Tree!Answer(<<"mkdir", path>>, Tree!Make(t, path, "DIRECTORY"))
            \/ Tree!Answer(<<"create", path>>, Tree!Make(t, path, "FILE"))
            \/ Tree!Answer(<<"rmdir", path>>, Tree!RemoveDirectory(t, path))
            \/ /\ path \in DOMAIN t /\ t[path] = "FILE"
               /\ Tree!Answer(<<"unlink", path>>, Tree!RemoveFile(t, path))
            \/ \E q \in CallPaths :
                 /\ ~Tree!IsBelow(path, q)
                 /\ Tree!Answer(<<"rename", path, q>>, Tree!Move(t, path, q))
    BY Zenon DEF Tree!Next
  <2>3. CASE Lookup(path) /\ call' = <<"lookup", path>>
    <3>1. Sound(inodes, nextId) /\ nextId \in 1 .. MaxInodes + 1 /\ path \in Seq(Names)
      BY PathTyped, Zenon DEF IndInv
    <3>2. inodes' = inodes /\ result' = Resolve(inodes, path).res
      BY <2>3, Zenon DEF Lookup, Abort
    <3>3. Tree!Walk(t, path) = Resolve(inodes, path).res
      BY <3>1, WalkCodes, Zenon
    <3>4. Left(inodes', result') = Tree!Lookup(t, path)
      BY <3>2, <3>3, Zenon DEF Left, Tree!Lookup, Tree!Leaves
    <3> QED  BY <2>3, <3>4, AnswerTree, Zenon
  <2>4. CASE Mkdir(path) /\ call' = <<"mkdir", path>>
    <3>1. Left(inodes', result') = Tree!Make(t, path, "DIRECTORY")
      BY <2>4, MakeTree, Zenon DEF Mkdir
    <3> QED  BY <2>4, <3>1, AnswerTree, Zenon
  <2>5. CASE Create(path) /\ call' = <<"create", path>>
    <3>1. Left(inodes', result') = Tree!Make(t, path, "FILE")
      BY <2>5, MakeTree, Zenon DEF Create
    <3> QED  BY <2>5, <3>1, AnswerTree, Zenon
  <2>6. CASE Rmdir(path) /\ call' = <<"rmdir", path>>
    BY <2>6, RmdirTree, AnswerTree, Zenon
  <2>7. CASE VfsUnlinks(path) /\ Unlink(path) /\ call' = <<"unlink", path>>
    BY <2>7, UnlinkTree, AnswerTree, Zenon
  <2>8. CASE \E to \in CallPaths :
               VfsRenames(path, to) /\ Rename(path, to) /\ call' = <<"rename", path, to>>
    <3>1. PICK to \in CallPaths :
              VfsRenames(path, to) /\ Rename(path, to) /\ call' = <<"rename", path, to>>
      BY <2>8, Zenon
    <3>2. ~Tree!IsBelow(path, to)
      BY <3>1, Zenon DEF VfsRenames, Tree!IsBelow
    <3>3. Tree!Answer(<<"rename", path, to>>, Tree!Move(t, path, to))
      BY <3>1, RenameTree, AnswerTree, Zenon
    <3> QED  BY <3>2, <3>3, Zenon
  <2> QED  BY <2>1, <2>3, <2>4, <2>5, <2>6, <2>7, <2>8, Zenon
<1> QED  BY <1>1, <1>2, Zenon

\* The calls of metal.c keep a tree of paths, on any names and with paths of
\* any length: each does to it, and returns, what module PathTree says.  One
\* that takes an entry away before it finds out that it has to fail leaves
\* every path as it was, and mtl_rename takes all paths below a directory
\* along.
THEOREM TreeImplemented == Spec => ImplementsPathTree
<1>1. Init => Tree!Init
  BY InitTree
<1>2. IndInv /\ [Next]_vars => [Tree!Next]_(Tree!vars)
  BY NextTree
<1> QED  BY InitInd, NextInd, <1>1, <1>2, PTL DEF Spec, ImplementsPathTree, Tree!Spec
============================================================================
