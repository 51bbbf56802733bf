-------------------------- MODULE MetalFilesProofs --------------------------
(* Proofs about module MetalFiles: what the calls keep of the files. *)
EXTENDS MetalFiles, ExtentsProofs, WellFoundedInduction

----------------------------------------------------------------------------
(* Induction over the natural numbers and recursive functions on 0 .. n,   *)
(* stated with sets and functions in the place of predicates and           *)
(* operators, which is the form in which the provers can use them.         *)

\* Less-than on the natural numbers is well founded.
LEMMA LessWellFounded ==
    IsWellFoundedOn({ss \in Nat \X Nat : ss[1] < ss[2]}, Nat)
<1>1. OpToRel(<, Nat) = {ss \in Nat \X Nat : ss[1] < ss[2]}
  BY DEF OpToRel
<1> QED  BY <1>1, NatLessThanWellFounded, Zenon

\* A set of natural numbers that is not empty has a least element.
LEMMA LeastElement ==
    ASSUME NEW T, T \subseteq Nat, T # {}
    PROVE  \E m \in T : \A k \in T : m <= k
<1> DEFINE R == {ss \in Nat \X Nat : ss[1] < ss[2]}
<1>1. IsWellFoundedOn(R, Nat)
  BY LessWellFounded
<1>2. PICK m \in T : \A k \in T : ~ (<<k, m>> \in R)
  <2> HIDE DEF R
  <2> QED  BY <1>1, WFMin, Zenon
<1>3. ASSUME NEW k \in T PROVE m <= k
  <2>1. m \in Nat /\ k \in Nat
    OBVIOUS
  <2>2. ~ (k < m)
    BY <1>2, <2>1, Zenon
  <2> QED  BY <2>1, <2>2
<1> QED  BY <1>3

\* A set that has 0, and with every number the next one, has all of them.
LEMMA Inductive ==
    ASSUME NEW S, 0 \in S, \A n \in Nat : n \in S => n + 1 \in S
    PROVE  \A n \in Nat : n \in S
<1> SUFFICES ASSUME NEW n \in Nat, n \notin S
             PROVE  FALSE
  OBVIOUS
<1> DEFINE T == {k \in Nat : k \notin S}
<1>1. PICK m \in T : \A k \in T : m <= k
  <2>1. T \subseteq Nat /\ T # {}
    OBVIOUS
  <2> HIDE DEF T
  <2> QED  BY <2>1, LeastElement, Zenon
<1>2. m - 1 \in Nat /\ m - 1 \notin T
  BY <1>1
<1> QED  BY <1>1, <1>2

IsStep(S, step) == step \in [S -> [Nat -> S]]

\* The values of g on 0 .. n follow from one another, from c on.
Follows(S, c, step, n, g) ==
    /\ g \in [0 .. n -> S]
    /\ g[0] = c
    /\ \A k \in 1 .. n : g[k] = step[g[k - 1]][k]

\* There is such a function, whatever the step and the number of values.
LEMMA Recursion ==
    ASSUME NEW S, NEW c \in S, NEW step, IsStep(S, step), NEW n \in Nat
    PROVE  \E g : Follows(S, c, step, n, g)
<1> DEFINE T == {m \in Nat : \E g : Follows(S, c, step, m, g)}
<1>1. 0 \in T
  <2> DEFINE h == [k \in 0 .. 0 |-> c]
  <2>1. h \in [0 .. 0 -> S] /\ h[0] = c
    OBVIOUS
  <2>2. \A k \in 1 .. 0 : h[k] = step[h[k - 1]][k]
    OBVIOUS
  <2> HIDE DEF h
  <2>3. Follows(S, c, step, 0, h)
    BY <2>1, <2>2 DEF Follows
  <2> QED  BY <2>3
<1>2. ASSUME NEW m \in Nat, m \in T PROVE m + 1 \in T
  <2>1. PICK g : Follows(S, c, step, m, g)
    BY <1>2
  <2> DEFINE h == [k \in 0 .. m + 1 |->
                      IF k <= m THEN g[k] ELSE step[g[m]][m + 1]]
  <2>2. h \in [0 .. m + 1 -> S]
    BY <2>1 DEF Follows, IsStep
  <2>3. h[0] = c
    BY <2>1 DEF Follows
  <2>4. ASSUME NEW k \in 1 .. m + 1 PROVE h[k] = step[h[k - 1]][k]
    <3>1. CASE k <= m
      <4>1. k \in 1 .. m /\ k - 1 \in 0 .. m
        BY <3>1
      <4> QED  BY <2>1, <4>1 DEF Follows
    <3>2. CASE k = m + 1
      BY <3>2
    <3> QED  BY <3>1, <3>2
  <2> HIDE DEF h
  <2>5. Follows(S, c, step, m + 1, h)
    BY <2>2, <2>3, <2>4 DEF Follows
  <2> QED  BY <2>5
<1>3. n \in T
  <2> HIDE DEF T
  <2> QED  BY <1>1, <1>2, Inductive
<1> QED  BY <1>3

----------------------------------------------------------------------------
(* Division. *)

\* The quotient of a division by a divisor that is not a constant.
LEMMA DivFacts ==
    ASSUME NEW a \in Nat, NEW b \in Nat \ {0}
    PROVE  /\ a \div b \in Nat /\ b * (a \div b) <= a /\ a < b * (a \div b) + b
BY SMTT(20)

\* Multiplying keeps the order.
LEMMA TimesLess ==
    ASSUME NEW b \in Nat \ {0}, NEW p \in Nat, NEW q \in Nat, p < q
    PROVE  b * p + b <= b * q
<1> DEFINE d == q - p - 1
<1>1. d \in Nat /\ q = p + 1 + d
  OBVIOUS
<1> HIDE DEF d
<1>2. b * q = b * p + b + b * d
  BY <1>1
<1>3. b * d \in Nat /\ b * p \in Nat
  BY <1>1
<1> QED  BY <1>2, <1>3

\* Only the quotient lies between these bounds.
LEMMA DivUnique ==
    ASSUME NEW a \in Nat, NEW b \in Nat \ {0}, NEW q \in Nat, b * q <= a, a < b * q + b
    PROVE  a \div b = q
<1> DEFINE p == a \div b
<1>1. p \in Nat /\ b * p <= a /\ a < b * p + b
  BY DivFacts
<1> HIDE DEF p
<1>2. ~(p < q)
  <2> SUFFICES ASSUME p < q PROVE FALSE
    OBVIOUS
  <2>1. b * p + b <= b * q
    BY <1>1, TimesLess
  <2>2. b * p \in Nat /\ b * q \in Nat
    BY <1>1
  <2> QED  BY <1>1, <2>1, <2>2
<1>3. ~(q < p)
  <2> SUFFICES ASSUME q < p PROVE FALSE
    OBVIOUS
  <2>1. b * q + b <= b * p
    BY <1>1, TimesLess
  <2>2. b * p \in Nat /\ b * q \in Nat
    BY <1>1
  <2> QED  BY <1>1, <2>1, <2>2
<1> QED  BY <1>1, <1>2, <1>3 DEF p

----------------------------------------------------------------------------
(* Block counts of extent lists. *)

\* The extents of a file's list.
LEMMA ListTyped ==
    ASSUME NEW list \in Seq(FileExtent)
    PROVE  /\ Len(list) \in Nat
           /\ \A k \in 1 .. Len(list) :
                 /\ list[k] \in FileExtent
                 /\ list[k].offset \in Nat /\ list[k].length \in Nat
<1>1. Len(list) \in Nat /\ \A k \in 1 .. Len(list) : list[k] \in FileExtent
  OBVIOUS
<1>2. \A e \in FileExtent : e.offset \in Nat /\ e.length \in Nat
  BY DEF FileExtent
<1> QED  BY <1>1, <1>2

SumStep(list, g) ==
    [k \in 0 .. Len(list) |-> IF k = 0 THEN 0 ELSE g[k - 1] + list[k].length]

SumOf(list) == CHOOSE g : g = SumStep(list, g)

\* The recursion that counts the blocks of a list has a solution.
LEMMA SumExists ==
    ASSUME NEW list \in Seq(FileExtent)
    PROVE  \E g : g = SumStep(list, g)
<1> DEFINE more(n, k) == IF k \in 1 .. Len(list) THEN n + list[k].length ELSE n
           step == [n \in Nat |-> [k \in Nat |-> more(n, k)]]
<1>1. Len(list) \in Nat /\ \A k \in 1 .. Len(list) : list[k].length \in Nat
  BY ListTyped
<1>2. IsStep(Nat, step)
  <2>1. \A n \in Nat, k \in Nat : more(n, k) \in Nat
    BY <1>1
  <2> HIDE DEF more
  <2> QED  BY <2>1, Zenon DEF IsStep
<1>3. PICK g : Follows(Nat, 0, step, Len(list), g)
  <2> HIDE DEF step
  <2> QED  BY <1>1, <1>2, Recursion, Zenon
<1>4. ASSUME NEW k \in 0 .. Len(list)
      PROVE  g[k] = IF k = 0 THEN 0 ELSE g[k - 1] + list[k].length
  <2>1. CASE k = 0
    BY <1>3, <2>1 DEF Follows
  <2>2. CASE k # 0
    <3>1. k \in 1 .. Len(list) /\ k \in Nat /\ k - 1 \in 0 .. Len(list)
      BY <1>1, <2>2
    <3>2. g[k - 1] \in Nat
      BY <1>3, <3>1 DEF Follows
    <3>3. step[g[k - 1]][k] = more(g[k - 1], k)
      <4> HIDE DEF more
      <4> QED  BY <3>1, <3>2
    <3> QED  BY <1>3, <2>2, <3>1, <3>3, Zenon DEF Follows
  <2> QED  BY <2>1, <2>2
<1>5. g = SumStep(list, g)
  BY <1>3, <1>4 DEF SumStep, Follows
<1> QED  BY <1>5

\* The recursion behind the number of blocks of a list is solved.
LEMMA SumFacts ==
    ASSUME NEW list \in Seq(FileExtent)
    PROVE  /\ NumBlocksOf(list) = SumOf(list)[Len(list)]
           /\ SumOf(list)[0] = 0
           /\ \A k \in 1 .. Len(list) :
                 SumOf(list)[k] = SumOf(list)[k - 1] + list[k].length
<1>1. NumBlocksOf(list) = SumOf(list)[Len(list)]
  BY DEF NumBlocksOf, SumOf, SumStep
<1>2. SumOf(list) = SumStep(list, SumOf(list))
  <2> HIDE DEF SumStep
  <2> QED  BY SumExists DEF SumOf
<1>3. Len(list) \in Nat
  OBVIOUS
<1>4. SumOf(list)[0] = 0
  <2> HIDE DEF SumOf
  <2> QED  BY <1>2, <1>3 DEF SumStep
<1>5. ASSUME NEW k \in 1 .. Len(list)
      PROVE  SumOf(list)[k] = SumOf(list)[k - 1] + list[k].length
  <2>1. k \in 0 .. Len(list) /\ k # 0
    BY <1>3
  <2> HIDE DEF SumOf
  <2> QED  BY <1>2, <2>1 DEF SumStep
<1> QED  BY <1>1, <1>4, <1>5

\* The numbers of blocks are natural.
LEMMA SumNat ==
    ASSUME NEW list \in Seq(FileExtent)
    PROVE  NumBlocksOf(list) \in Nat /\ \A k \in 0 .. Len(list) : SumOf(list)[k] \in Nat
<1> DEFINE T == {k \in Nat : k <= Len(list) => SumOf(list)[k] \in Nat}
<1>1. Len(list) \in Nat /\ \A k \in 1 .. Len(list) : list[k].length \in Nat
  BY ListTyped
<1>2. 0 \in T
  BY SumFacts
<1>3. ASSUME NEW k \in Nat, k \in T PROVE k + 1 \in T
  <2>1. CASE k + 1 <= Len(list)
    <3>1. k + 1 \in 1 .. Len(list) /\ k <= Len(list)
      BY <1>1, <2>1
    <3>2. SumOf(list)[k] \in Nat
      BY <1>3, <3>1
    <3>3. SumOf(list)[k + 1] = SumOf(list)[k + 1 - 1] + list[k + 1].length
      BY <3>1, SumFacts
    <3> HIDE DEF SumOf
    <3> QED  BY <1>1, <3>1, <3>2, <3>3
  <2>2. CASE ~(k + 1 <= Len(list))
    BY <2>2
  <2> QED  BY <2>1, <2>2
<1>4. \A k \in Nat : k \in T
  <2> HIDE DEF T
  <2> QED  BY <1>2, <1>3, Inductive
<1>5. \A k \in 0 .. Len(list) : SumOf(list)[k] \in Nat
  BY <1>1, <1>4
<1> QED  BY <1>1, <1>5, SumFacts

\* The count of a prefix depends on the prefix only.
LEMMA SumPrefix ==
    ASSUME NEW a \in Seq(FileExtent), NEW b \in Seq(FileExtent),
           NEW n \in Nat, n <= Len(a), n <= Len(b), \A k \in 1 .. n : a[k] = b[k]
    PROVE  SumOf(a)[n] = SumOf(b)[n]
<1> DEFINE T == {k \in Nat : k <= n => SumOf(a)[k] = SumOf(b)[k]}
<1>1. 0 \in T
  BY SumFacts
<1>2. ASSUME NEW k \in Nat, k \in T PROVE k + 1 \in T
  <2>1. CASE k + 1 <= n
    <3>1. k + 1 \in 1 .. n /\ k + 1 \in 1 .. Len(a) /\ k + 1 \in 1 .. Len(b) /\ k <= n
      BY <2>1
    <3>2. SumOf(a)[k] = SumOf(b)[k] /\ a[k + 1] = b[k + 1] /\ k + 1 - 1 = k
      BY <1>2, <3>1
    <3>3. /\ SumOf(a)[k + 1] = SumOf(a)[k + 1 - 1] + a[k + 1].length
          /\ SumOf(b)[k + 1] = SumOf(b)[k + 1 - 1] + b[k + 1].length
      BY <3>1, SumFacts
    <3> HIDE DEF SumOf
    <3> QED  BY <3>2, <3>3
  <2>2. CASE ~(k + 1 <= n)
    BY <2>2
  <2> QED  BY <2>1, <2>2
<1>3. \A k \in Nat : k \in T
  <2> HIDE DEF T
  <2> QED  BY <1>1, <1>2, Inductive
<1> QED  BY <1>3

\* An empty list has no blocks.
LEMMA NoBlocks == NumBlocksOf(<<>>) = 0
<1>1. <<>> \in Seq(FileExtent) /\ Len(<<>>) = 0
  OBVIOUS
<1> QED  BY <1>1, SumFacts, Zenon

\* An appended extent adds its blocks.
LEMMA AppendBlocks ==
    ASSUME NEW list \in Seq(FileExtent), NEW e \in FileExtent
    PROVE  NumBlocksOf(Append(list, e)) = NumBlocksOf(list) + e.length
<1> DEFINE new == Append(list, e)
           n == Len(list)
<1>1. /\ new \in Seq(FileExtent) /\ Len(new) = n + 1 /\ n \in Nat
      /\ new[n + 1] = e /\ \A k \in 1 .. n : new[k] = list[k]
  OBVIOUS
<1> HIDE DEF new
<1>2. SumOf(new)[n] = SumOf(list)[n]
  BY <1>1, SumPrefix
<1>3. SumOf(new)[n + 1] = SumOf(new)[n + 1 - 1] + new[n + 1].length
  BY <1>1, SumFacts
<1>4. n + 1 - 1 = n
  BY <1>1
<1>5. NumBlocksOf(new) = SumOf(new)[n + 1] /\ NumBlocksOf(list) = SumOf(list)[n]
  BY <1>1, SumFacts
<1> HIDE DEF SumOf, NumBlocksOf
<1> QED  BY <1>1, <1>2, <1>3, <1>4, <1>5 DEF new

----------------------------------------------------------------------------
(* The blocks of a list, in the order of the file. *)

\* s begins as t does
Starts(s, t) == Len(s) <= Len(t) /\ \A j \in 1 .. Len(s) : s[j] = t[j]

RunsStep(list, g) ==
    [k \in 0 .. Len(list) |-> IF k = 0 THEN <<>> ELSE g[k - 1] \o Run(list[k])]

RunsOf(list) == CHOOSE g : g = RunsStep(list, g)

\* The blocks of one extent, in order.
LEMMA RunFacts ==
    ASSUME NEW e \in FileExtent
    PROVE  /\ Run(e) \in Seq(Nat) /\ Len(Run(e)) = e.length
           /\ \A j \in 1 .. e.length : Run(e)[j] = e.offset + j - 1
<1>1. e.offset \in Nat /\ e.length \in Nat
  BY DEF FileExtent
<1>2. ASSUME NEW j \in 1 .. e.length PROVE e.offset + j - 1 \in Nat
  BY <1>1
<1> QED  BY <1>1, <1>2 DEF Run

\* Two runs of blocks, one after the other.
LEMMA ConcatFacts ==
    ASSUME NEW s \in Seq(Nat), NEW t \in Seq(Nat)
    PROVE  /\ s \o t \in Seq(Nat) /\ Len(s \o t) = Len(s) + Len(t)
           /\ \A j \in 1 .. Len(s) : (s \o t)[j] = s[j]
           /\ \A j \in 1 .. Len(t) : (s \o t)[Len(s) + j] = t[j]
OBVIOUS

\* The recursion that lists the blocks of a file has a solution.
LEMMA RunsExist ==
    ASSUME NEW list \in Seq(FileExtent)
    PROVE  \E g : g = RunsStep(list, g)
<1> DEFINE S == Seq(Nat)
           more(s, k) == IF k \in 1 .. Len(list) THEN s \o Run(list[k]) ELSE s
           step == [s \in S |-> [k \in Nat |-> more(s, k)]]
<1>1. Len(list) \in Nat /\ \A k \in 1 .. Len(list) : list[k] \in FileExtent
  BY ListTyped
<1>2. IsStep(S, step)
  <2>1. \A s \in S, k \in Nat : more(s, k) \in S
    BY <1>1, RunFacts, ConcatFacts
  <2> HIDE DEF more, S
  <2> QED  BY <2>1 DEF IsStep
<1>3. PICK g : Follows(S, <<>>, step, Len(list), g)
  <2>1. <<>> \in S
    OBVIOUS
  <2> HIDE DEF step, S
  <2> QED  BY <1>1, <1>2, <2>1, Recursion
<1>4. ASSUME NEW k \in 0 .. Len(list)
      PROVE  g[k] = IF k = 0 THEN <<>> ELSE g[k - 1] \o Run(list[k])
  <2>1. CASE k = 0
    BY <1>3, <2>1 DEF Follows
  <2>2. CASE k # 0
    <3>1. k \in 1 .. Len(list) /\ k \in Nat /\ k - 1 \in 0 .. Len(list)
      BY <1>1, <2>2
    <3>2. g[k - 1] \in S
      BY <1>3, <3>1 DEF Follows
    <3>3. step[g[k - 1]][k] = more(g[k - 1], k)
      <4> HIDE DEF more, S
      <4> QED  BY <3>1, <3>2
    <3> HIDE DEF S, step
    <3>4. g[k] = more(g[k - 1], k)
      BY <1>3, <3>1, <3>3 DEF Follows
    <3> QED  BY <2>2, <3>1, <3>4, Zenon
  <2> QED  BY <2>1, <2>2
<1>5. g = RunsStep(list, g)
  <2> HIDE DEF S, step
  <2> QED  BY <1>3, <1>4, Zenon DEF RunsStep, Follows
<1> QED  BY <1>5

\* The recursion behind the blocks of a list is solved.
LEMMA RunsFacts ==
    ASSUME NEW list \in Seq(FileExtent)
    PROVE  /\ BlocksOf(list) = RunsOf(list)[Len(list)]
           /\ RunsOf(list)[0] = <<>>
           /\ \A k \in 1 .. Len(list) :
                 RunsOf(list)[k] = RunsOf(list)[k - 1] \o Run(list[k])
<1>1. BlocksOf(list) = RunsOf(list)[Len(list)]
  BY DEF BlocksOf, RunsOf, RunsStep
<1>2. RunsOf(list) = RunsStep(list, RunsOf(list))
  <2> HIDE DEF RunsStep
  <2> QED  BY RunsExist DEF RunsOf
<1>3. Len(list) \in Nat
  OBVIOUS
<1>4. RunsOf(list)[0] = <<>>
  <2> HIDE DEF RunsOf
  <2> QED  BY <1>2, <1>3 DEF RunsStep
<1>5. ASSUME NEW k \in 1 .. Len(list)
      PROVE  RunsOf(list)[k] = RunsOf(list)[k - 1] \o Run(list[k])
  <2>1. k \in 0 .. Len(list) /\ k # 0
    BY <1>3
  <2> HIDE DEF RunsOf
  <2> QED  BY <1>2, <2>1 DEF RunsStep
<1> QED  BY <1>1, <1>4, <1>5, Zenon

\* A beginning of a beginning is a beginning.
LEMMA StartsTransitive ==
    ASSUME NEW s \in Seq(Nat), NEW t \in Seq(Nat), NEW u \in Seq(Nat),
           Starts(s, t), Starts(t, u)
    PROVE  Starts(s, u)
<1>1. Len(s) \in Nat /\ Len(t) \in Nat /\ Len(u) \in Nat
  OBVIOUS
<1> QED  BY <1>1 DEF Starts

\* Every run begins with itself.
LEMMA StartsReflexive == ASSUME NEW s \in Seq(Nat) PROVE Starts(s, s)
<1>1. Len(s) \in Nat
  OBVIOUS
<1> QED  BY <1>1 DEF Starts

\* A run is the beginning of what it is continued to.
LEMMA StartsConcat ==
    ASSUME NEW s \in Seq(Nat), NEW t \in Seq(Nat)
    PROVE  Starts(s, s \o t)
<1>1. Len(s) \in Nat /\ Len(t) \in Nat
  OBVIOUS
<1> QED  BY <1>1, ConcatFacts DEF Starts

\* Every prefix of a list has the first blocks of the list.
LEMMA RunsGrow ==
    ASSUME NEW list \in Seq(FileExtent)
    PROVE  /\ BlocksOf(list) \in Seq(Nat)
           /\ \A k \in 0 .. Len(list) :
                 RunsOf(list)[k] \in Seq(Nat) /\ Starts(RunsOf(list)[k], BlocksOf(list))
<1> DEFINE r == RunsOf(list)
           n == Len(list)
           T == {k \in Nat : k <= n => r[k] \in Seq(Nat)}
           U == {k \in Nat : k <= n => Starts(r[n - k], r[n])}
<1>1. n \in Nat /\ \A k \in 1 .. n : Run(list[k]) \in Seq(Nat)
  BY ListTyped, RunFacts
<1>2. r[0] = <<>> /\ \A k \in 1 .. n : r[k] = r[k - 1] \o Run(list[k])
  BY RunsFacts, Zenon
<1> HIDE DEF r, n
<1>3. \A k \in Nat : k \in T
  <2>1. 0 \in T
    <3>1. <<>> \in Seq(Nat)
      OBVIOUS
    <3> QED  BY <1>2, <3>1, Zenon
  <2>2. ASSUME NEW k \in Nat, k \in T PROVE k + 1 \in T
    <3>1. CASE k + 1 <= n
      <4> DEFINE m == k + 1
      <4>1. m \in 1 .. n /\ m - 1 = k /\ r[k] \in Seq(Nat)
        BY <1>1, <2>2, <3>1
      <4> HIDE DEF m
      <4>2. r[m] = r[m - 1] \o Run(list[m])
        BY <1>2, <4>1, Zenon
      <4>3. r[m - 1] \in Seq(Nat) /\ Run(list[m]) \in Seq(Nat)
        BY <1>1, <4>1
      <4>4. r[m] \in Seq(Nat)
        BY <4>2, <4>3, ConcatFacts
      <4> QED  BY <4>4 DEF m
    <3> QED  BY <3>1
  <2> HIDE DEF T
  <2> QED  BY <2>1, <2>2, Inductive
<1>4. ASSUME NEW k \in 0 .. n PROVE r[k] \in Seq(Nat)
  BY <1>1, <1>3
<1>5. \A k \in Nat : k \in U
  <2>1. 0 \in U
    <3>1. n - 0 = n /\ r[n] \in Seq(Nat)
      BY <1>1, <1>4
    <3> QED  BY <3>1, StartsReflexive
  <2>2. ASSUME NEW k \in Nat, k \in U PROVE k + 1 \in U
    <3>1. CASE k + 1 <= n
      <4>1. /\ n - k \in 1 .. n /\ n - k \in 0 .. n /\ n - (k + 1) \in 0 .. n
            /\ n - k - 1 = n - (k + 1) /\ n \in 0 .. n
        BY <1>1, <3>1
      <4>2. r[n - k] = r[n - (k + 1)] \o Run(list[n - k])
        BY <1>2, <4>1, Zenon
      <4>3. Starts(r[n - (k + 1)], r[n - k])
        BY <1>1, <1>4, <4>1, <4>2, StartsConcat
      <4>4. Starts(r[n - k], r[n])
        BY <2>2, <3>1, <1>1
      <4> QED  BY <1>4, <4>1, <4>3, <4>4, StartsTransitive
    <3> QED  BY <3>1
  <2> HIDE DEF U
  <2> QED  BY <2>1, <2>2, Inductive
<1>6. ASSUME NEW k \in 0 .. n PROVE Starts(r[k], r[n])
  <2>1. n - k \in Nat /\ n - k <= n /\ n - (n - k) = k
    BY <1>1
  <2>2. n - k \in U
    BY <1>5, <2>1
  <2> QED  BY <2>1, <2>2
<1>7. BlocksOf(list) = r[n]
  BY RunsFacts, Zenon DEF r, n
<1>8. n \in 0 .. n
  BY <1>1
<1> QED  BY <1>4, <1>6, <1>7, <1>8 DEF r, n

\* A list lays out as many blocks as it counts.
LEMMA RunsLength ==
    ASSUME NEW list \in Seq(FileExtent)
    PROVE  Len(BlocksOf(list)) = NumBlocksOf(list)
<1> DEFINE r == RunsOf(list)
           q == SumOf(list)
           n == Len(list)
           T == {k \in Nat : k <= n => Len(r[k]) = q[k]}
<1>1. n \in Nat
  OBVIOUS
<1>2. 0 \in T
  <2>1. r[0] = <<>> /\ q[0] = 0
    BY RunsFacts, SumFacts, Zenon
  <2> HIDE DEF r, q
  <2> QED  BY <2>1
<1>3. ASSUME NEW k \in Nat, k \in T PROVE k + 1 \in T
  <2> SUFFICES ASSUME k + 1 <= n PROVE Len(r[k + 1]) = q[k + 1]
    BY <1>3
  <2> DEFINE m == k + 1
  <2>1. m \in 1 .. n /\ m - 1 = k /\ k \in 0 .. n
    BY <1>1
  <2> HIDE DEF m
  <2>2. list[m] \in FileExtent /\ list[m].length \in Nat
    BY <2>1, ListTyped
  <2>3. r[m] = r[k] \o Run(list[m]) /\ q[m] = q[k] + list[m].length
    <3>1. r[m] = r[m - 1] \o Run(list[m])
      BY <2>1, RunsFacts, Zenon
    <3>2. q[m] = q[m - 1] + list[m].length
      BY <2>1, SumFacts, Zenon
    <3> QED  BY <2>1, <3>1, <3>2, Zenon
  <2>4. r[k] \in Seq(Nat) /\ Run(list[m]) \in Seq(Nat) /\ Len(Run(list[m])) = list[m].length
    BY <2>1, <2>2, RunsGrow, RunFacts
  <2> HIDE DEF r, q
  <2>5. Len(r[m]) = Len(r[k]) + Len(Run(list[m]))
    <3> DEFINE u == r[k]
               v == Run(list[m])
    <3>1. u \in Seq(Nat) /\ v \in Seq(Nat) /\ r[m] = u \o v
      BY <2>3, <2>4
    <3> HIDE DEF u, v
    <3>2. Len(u \o v) = Len(u) + Len(v)
      BY <3>1, ConcatFacts
    <3> QED  BY <3>1, <3>2 DEF u, v
  <2>6. Len(r[k]) = q[k]
    BY <1>1, <1>3, <2>1
  <2> QED  BY <2>3, <2>4, <2>5, <2>6 DEF m
<1> HIDE DEF T
<1>4. n \in T
  BY <1>1, <1>2, <1>3, Inductive
<1>5. Len(r[n]) = q[n]
  BY <1>1, <1>4 DEF T
<1> QED  BY <1>5, RunsFacts, SumFacts, Zenon

\* A list that another one starts with has no more blocks.
LEMMA StartsCount ==
    ASSUME NEW a \in Seq(FileExtent), NEW b \in Seq(FileExtent),
           Starts(BlocksOf(a), BlocksOf(b))
    PROVE  NumBlocksOf(a) <= NumBlocksOf(b)
BY RunsLength DEF Starts

\* The blocks of a prefix depend on the prefix only.
LEMMA RunsPrefix ==
    ASSUME NEW a \in Seq(FileExtent), NEW b \in Seq(FileExtent),
           NEW n \in Nat, n <= Len(a), n <= Len(b), \A k \in 1 .. n : a[k] = b[k]
    PROVE  RunsOf(a)[n] = RunsOf(b)[n]
<1> DEFINE T == {k \in Nat : k <= n => RunsOf(a)[k] = RunsOf(b)[k]}
<1>1. 0 \in T
  BY RunsFacts, Zenon
<1>2. ASSUME NEW k \in Nat, k \in T PROVE k + 1 \in T
  <2>1. CASE k + 1 <= n
    <3> DEFINE m == k + 1
    <3>1. m \in 1 .. n /\ m \in 1 .. Len(a) /\ m \in 1 .. Len(b) /\ k <= n /\ m - 1 = k
      BY <2>1
    <3>2. RunsOf(a)[k] = RunsOf(b)[k]
      BY <1>2, <3>1
    <3> HIDE DEF m
    <3>3. a[m] = b[m]
      BY <3>1
    <3>4. /\ RunsOf(a)[m] = RunsOf(a)[m - 1] \o Run(a[m])
          /\ RunsOf(b)[m] = RunsOf(b)[m - 1] \o Run(b[m])
      <4> HIDE DEF RunsOf
      <4> QED  BY <3>1, RunsFacts, Zenon
    <3>5. RunsOf(a)[m] = RunsOf(b)[m]
      <4> HIDE DEF RunsOf
      <4> QED  BY <3>1, <3>2, <3>3, <3>4, Zenon
    <3> QED  BY <3>5 DEF m
  <2>2. CASE ~(k + 1 <= n)
    BY <2>2
  <2> QED  BY <2>1, <2>2
<1>3. \A k \in Nat : k \in T
  <2> HIDE DEF T
  <2> QED  BY <1>1, <1>2, Inductive
<1> QED  BY <1>3

\* What one more extent adds to a list.
LEMMA AppendRuns ==
    ASSUME NEW list \in Seq(FileExtent), NEW e \in FileExtent
    PROVE  BlocksOf(Append(list, e)) = BlocksOf(list) \o Run(e)
<1> DEFINE new == Append(list, e)
           n == Len(list)
           m == n + 1
<1>1. /\ new \in Seq(FileExtent) /\ Len(new) = m /\ n \in Nat /\ m - 1 = n
      /\ new[m] = e /\ \A k \in 1 .. n : new[k] = list[k]
      /\ m \in 1 .. Len(new)
  OBVIOUS
<1>2. n <= Len(new) /\ n <= Len(list)
  BY <1>1
<1> HIDE DEF new, m, RunsOf
<1>3. RunsOf(new)[n] = RunsOf(list)[n]
  BY <1>1, <1>2, RunsPrefix
<1>4. RunsOf(new)[m] = RunsOf(new)[m - 1] \o Run(new[m])
  BY <1>1, RunsFacts, Zenon
<1>5. BlocksOf(new) = RunsOf(new)[m] /\ BlocksOf(list) = RunsOf(list)[n]
  BY <1>1, RunsFacts, Zenon
<1>6. BlocksOf(new) = BlocksOf(list) \o Run(e)
  <2> HIDE DEF n, BlocksOf
  <2> QED  BY <1>1, <1>3, <1>4, <1>5, Zenon
<1> QED  BY <1>6 DEF new

\* An extent with more blocks.
LEMMA LongerExtent ==
    ASSUME NEW e \in FileExtent, NEW n \in Nat
    PROVE  /\ e.length \in Nat
           /\ [e EXCEPT !.length = @ + n] \in FileExtent
           /\ [e EXCEPT !.length = @ + n].offset = e.offset
           /\ [e EXCEPT !.length = @ + n].length = e.length + n
BY DEF FileExtent

\* A longer last extent only adds blocks at the end.
LEMMA LongerRuns ==
    ASSUME NEW list \in Seq(FileExtent), NEW e \in FileExtent, NEW f \in FileExtent,
           e.offset = f.offset, e.length <= f.length
    PROVE  Starts(BlocksOf(Append(list, e)), BlocksOf(Append(list, f)))
<1> DEFINE s == BlocksOf(list)
<1>1. s \in Seq(Nat)
  BY RunsGrow
<1>2. /\ BlocksOf(Append(list, e)) = s \o Run(e)
      /\ BlocksOf(Append(list, f)) = s \o Run(f)
  BY AppendRuns
<1> HIDE DEF s
<1> DEFINE u == s \o Run(e)
           v == s \o Run(f)
           n == Len(s)
<1>3. n \in Nat /\ e.length \in Nat /\ f.length \in Nat
  BY <1>1 DEF FileExtent
<1>4. /\ Len(u) = n + e.length /\ Len(v) = n + f.length
      /\ \A j \in 1 .. n : u[j] = s[j] /\ v[j] = s[j]
      /\ \A j \in 1 .. e.length : u[n + j] = e.offset + j - 1
      /\ \A j \in 1 .. f.length : v[n + j] = f.offset + j - 1
  <2>1. /\ Run(e) \in Seq(Nat) /\ Len(Run(e)) = e.length
        /\ Run(f) \in Seq(Nat) /\ Len(Run(f)) = f.length
        /\ \A j \in 1 .. e.length : Run(e)[j] = e.offset + j - 1
        /\ \A j \in 1 .. f.length : Run(f)[j] = f.offset + j - 1
    BY RunFacts
  <2>2. /\ Len(u) = n + Len(Run(e)) /\ \A j \in 1 .. n : u[j] = s[j]
        /\ \A j \in 1 .. Len(Run(e)) : u[n + j] = Run(e)[j]
    BY <1>1, <2>1, ConcatFacts, Zenon
  <2>3. /\ Len(v) = n + Len(Run(f)) /\ \A j \in 1 .. n : v[j] = s[j]
        /\ \A j \in 1 .. Len(Run(f)) : v[n + j] = Run(f)[j]
    BY <1>1, <2>1, ConcatFacts, Zenon
  <2> HIDE DEF u, v, n
  <2> QED  BY <2>1, <2>2, <2>3
<1> HIDE DEF u, v, n
<1>5. ASSUME NEW j \in 1 .. Len(u) PROVE u[j] = v[j]
  <2>1. CASE j <= n
    BY <1>3, <1>4, <2>1
  <2>2. CASE ~(j <= n)
    <3> DEFINE i == j - n
    <3>1. i \in 1 .. e.length /\ i \in 1 .. f.length /\ j = n + i
      BY <1>3, <1>4, <2>2
    <3> HIDE DEF i
    <3> QED  BY <1>4, <3>1
  <2> QED  BY <2>1, <2>2
<1>6. Len(u) <= Len(v)
  BY <1>3, <1>4
<1> QED  BY <1>2, <1>5, <1>6 DEF Starts, u, v

\* The extents before the k-th one.
LEMMA SubSeqFacts ==
    ASSUME NEW list \in Seq(FileExtent), NEW k \in 1 .. Len(list)
    PROVE  LET kept == SubSeq(list, 1, k - 1)
           IN  /\ kept \in Seq(FileExtent) /\ Len(kept) = k - 1
               /\ \A j \in 1 .. k - 1 : kept[j] = list[j]
OBVIOUS

\* mtl_truncate keeps the first blocks of a file.
LEMMA CutRuns ==
    ASSUME NEW list \in Seq(FileExtent), NEW k \in 1 .. Len(list),
           NEW c \in FileExtent, c.offset = list[k].offset, c.length <= list[k].length
    PROVE  LET kept == SubSeq(list, 1, k - 1)
           IN  /\ Starts(BlocksOf(kept), BlocksOf(list))
               /\ Starts(BlocksOf(Append(kept, c)), BlocksOf(list))
<1> DEFINE kept == SubSeq(list, 1, k - 1)
           whole == Append(kept, list[k])
<1>1. /\ Len(list) \in Nat /\ k \in Nat /\ k - 1 \in Nat
      /\ k \in 0 .. Len(list) /\ k - 1 \in 0 .. Len(list) /\ list[k] \in FileExtent
  BY ListTyped
<1>2. /\ kept \in Seq(FileExtent) /\ Len(kept) = k - 1
      /\ \A j \in 1 .. k - 1 : kept[j] = list[j]
  BY SubSeqFacts
<1> HIDE DEF kept
<1>3. /\ whole \in Seq(FileExtent) /\ Len(whole) = k
      /\ \A j \in 1 .. k : whole[j] = list[j]
  BY <1>1, <1>2
<1> HIDE DEF whole
<1>4. BlocksOf(kept) = RunsOf(list)[k - 1] /\ BlocksOf(whole) = RunsOf(list)[k]
  <2>1. k - 1 <= Len(kept) /\ k - 1 <= Len(list) /\ k <= Len(whole) /\ k <= Len(list)
    BY <1>1, <1>2, <1>3
  <2>2. RunsOf(kept)[k - 1] = RunsOf(list)[k - 1]
    BY <1>1, <1>2, <2>1, RunsPrefix
  <2>3. RunsOf(whole)[k] = RunsOf(list)[k]
    BY <1>1, <1>3, <2>1, RunsPrefix
  <2>4. BlocksOf(kept) = RunsOf(kept)[k - 1] /\ BlocksOf(whole) = RunsOf(whole)[k]
    BY <1>2, <1>3, RunsFacts, Zenon
  <2> QED  BY <2>2, <2>3, <2>4
<1>5. Starts(BlocksOf(kept), BlocksOf(list)) /\ Starts(BlocksOf(whole), BlocksOf(list))
  BY <1>1, <1>4, RunsGrow
<1>6. Starts(BlocksOf(Append(kept, c)), BlocksOf(whole))
  BY <1>1, <1>2, LongerRuns DEF whole
<1>7. /\ BlocksOf(Append(kept, c)) \in Seq(Nat) /\ BlocksOf(whole) \in Seq(Nat)
      /\ BlocksOf(list) \in Seq(Nat)
  <2>1. Append(kept, c) \in Seq(FileExtent)
    BY <1>2
  <2> QED  BY <1>3, <2>1, RunsGrow, Zenon
<1>8. Starts(BlocksOf(Append(kept, c)), BlocksOf(list))
  BY <1>5, <1>6, <1>7, StartsTransitive
<1> QED  BY <1>5, <1>8 DEF kept

----------------------------------------------------------------------------
(* The shape of the state. *)

\* inodes are created in the order of their ids
FilesTyped(files, next) ==
    /\ next \in 1 .. MaxInodes + 1
    /\ DOMAIN files \subseteq 1 .. next - 1
    /\ files \in [DOMAIN files -> File]

AllocatorTyped(x, h, m) ==
    TypedDb(x) /\ h \subseteq Node /\ m \subseteq Misstep

SavedTyped ==
    /\ saved = [extents |-> saved.extents, heap |-> saved.heap,
                missteps |-> saved.missteps, inodes |-> saved.inodes,
                nextId |-> saved.nextId]
    /\ AllocatorTyped(saved.extents, saved.heap, saved.missteps)
    /\ FilesTyped(saved.inodes, saved.nextId)

Transaction ==
    [op : {"write", "truncate", "unlink"}, thread : Threads, inode : Inodes,
     end : {0} \cup Ends, pending : Seq(FileExtent)]

\* only extents that are no longer needed are pending, and then the
\* transaction expands nothing
TxnTyped ==
    \/ txn = NoTxn
    \/ /\ txn \in Transaction
       /\ txn.pending # <<>> => txn.end = 0

CallOps == {"idle", "open", "write", "truncate", "unlink", "storage_write",
            "storage_read", "walk_write", "walk_read"}

CallRecord == [op : CallOps, inode : Nat, offset : Nat, length : Nat]

CallsTyped ==
    /\ calls \in [Threads -> CallRecord]
    /\ \A t \in Threads : calls[t].length = 0 \/ \E n \in Lengths : calls[t].length <= n

\* the storage of the last load
LoadedTyped == loaded \in [thread : Threads \cup {0}, list : Seq(FileExtent)]

Calling ==
    /\ CallsTyped
    /\ LoadedTyped
    /\ stopped \in {"", "allocator", "file", "storage"}

\* between two transactions the databases are the committed ones
Settled == txn = NoTxn => saved = Snapshot

----------------------------------------------------------------------------
(* Lengths and blocks. *)

Matching(files) ==
    \A i \in DOMAIN files : NumBlocksOf(files[i].extents) = BlocksFor(files[i].length)

(* What a transaction has made of the committed files: only the file it is *)
(* for differs, and that one has grown or, before anything is freed, has   *)
(* been cut.                                                               *)
Reworked ==
    /\ DOMAIN inodes = DOMAIN saved.inodes
    /\ \A i \in DOMAIN inodes :
         \/ inodes[i] = saved.inodes[i]
         \/ /\ txn.op \in {"write", "truncate"} /\ i = txn.inode
            /\ Starts(BlocksOf(saved.inodes[i].extents), BlocksOf(inodes[i].extents))
         \/ /\ txn.op = "truncate" /\ i = txn.inode /\ txn.end = 0
            /\ Starts(BlocksOf(inodes[i].extents), BlocksOf(saved.inodes[i].extents))

Core ==
    /\ AllocatorTyped(extents, heap, missteps)
    /\ FilesTyped(inodes, nextId)
    /\ SavedTyped
    /\ TxnTyped
    /\ Settled
    /\ Matching(inodes)
    /\ Matching(saved.inodes)
    /\ Reworked

FilesInv == Core /\ Calling

----------------------------------------------------------------------------
(* Blocks and bytes. *)

\* Rounding up to blocks, the way mtl_expand_inode does.
LEMMA BlocksForFacts ==
    ASSUME NEW n \in Nat, NEW x \in Nat
    PROVE  /\ BlocksFor(x) \in Nat
           /\ BlocksFor(n * BlockSize + x) = n + BlocksFor(x)
           /\ x <= BlocksFor(x) * BlockSize
           /\ x <= n * BlockSize => BlocksFor(x) <= n
<1> DEFINE B == BlockSize
           q == (x + B - 1) \div B
<1>1. B \in Nat \ {0} /\ x + B - 1 \in Nat
  BY FilesAssumption
<1>2. q \in Nat /\ B * q <= x + B - 1 /\ x + B - 1 < B * q + B
  BY <1>1, DivFacts
<1>3. BlocksFor(x) = q
  BY DEF BlocksFor
<1> HIDE DEF q, B
<1>4. (n * B + x + B - 1) \div B = n + q
  <2>1. n + q \in Nat /\ n * B \in Nat /\ B * (n + q) = n * B + B * q /\ B * q \in Nat
    BY <1>1, <1>2
  <2>2. n * B + x + B - 1 \in Nat
    BY <1>1, <2>1
  <2>3. B * (n + q) <= n * B + x + B - 1 /\ n * B + x + B - 1 < B * (n + q) + B
    BY <1>1, <1>2, <2>1
  <2> QED  BY <1>1, <2>1, <2>2, <2>3, DivUnique
<1>5. x <= q * B
  <2>1. B * q = q * B /\ B * q \in Nat
    BY <1>1, <1>2
  <2> QED  BY <1>1, <1>2, <2>1
<1>6. ASSUME x <= n * B PROVE q <= n
  <2> SUFFICES ASSUME n < q PROVE FALSE
    BY <1>2
  <2>1. B * n + B <= B * q
    BY <1>1, <1>2, TimesLess
  <2>2. B * n = n * B /\ B * n \in Nat /\ B * q \in Nat
    BY <1>1, <1>2
  <2> QED  BY <1>1, <1>2, <1>6, <2>1, <2>2
<1>7. BlocksFor(n * BlockSize + x) = (n * B + x + B - 1) \div B
  BY DEF BlocksFor, B
<1> QED  BY <1>2, <1>3, <1>4, <1>5, <1>6, <1>7 DEF B

\* Whole blocks of bytes take as many blocks.
LEMMA BlocksForWhole ==
    BlocksFor(0) = 0 /\ \A n \in Nat : BlocksFor(n * BlockSize) = n
<1>1. BlocksFor(0) = 0
  <2>1. 0 <= 0 * BlockSize
    BY FilesAssumption
  <2>2. BlocksFor(0) \in Nat /\ BlocksFor(0) <= 0
    BY <2>1, BlocksForFacts
  <2> QED  BY <2>2
<1>2. ASSUME NEW n \in Nat PROVE BlocksFor(n * BlockSize) = n
  <2>1. BlocksFor(n * BlockSize + 0) = n + BlocksFor(0)
    BY BlocksForFacts
  <2>2. n * BlockSize + 0 = n * BlockSize
    BY FilesAssumption
  <2> QED  BY <1>1, <2>1, <2>2
<1> QED  BY <1>1, <1>2

----------------------------------------------------------------------------
(* Files. *)

\* The fields of a file's inode.
LEMMA FileFacts ==
    ASSUME NEW f \in File
    PROVE  f.length \in Nat /\ f.extents \in Seq(FileExtent)
BY DEF File

\* The inodes of typed files.
LEMMA FilesFacts ==
    ASSUME NEW files, NEW next, FilesTyped(files, next), NEW i \in DOMAIN files
    PROVE  /\ files[i] \in File
           /\ files[i].length \in Nat /\ files[i].extents \in Seq(FileExtent)
           /\ i \in Inodes
<1>1. files[i] \in File
  BY DEF FilesTyped
<1>2. i \in Inodes
  BY FilesAssumption DEF FilesTyped, Inodes
<1> QED  BY <1>1, <1>2, FileFacts

\* What writing an inode changes.
LEMMA PutInodeFacts ==
    ASSUME NEW i, NEW f
    PROVE  /\ DOMAIN PutInode(i, f) = DOMAIN inodes \cup {i}
           /\ PutInode(i, f)[i] = f
           /\ \A j \in DOMAIN inodes : j # i => PutInode(i, f)[j] = inodes[j]
BY DEF PutInode

\* Writing a typed inode keeps the files typed.
LEMMA PutInodeTyped ==
    ASSUME NEW next, FilesTyped(inodes, nextId), next \in nextId .. MaxInodes + 1,
           NEW i \in 1 .. next - 1, NEW f \in File
    PROVE  FilesTyped(PutInode(i, f), next)
<1>1. nextId \in 1 .. MaxInodes + 1 /\ DOMAIN inodes \subseteq 1 .. nextId - 1
  BY DEF FilesTyped
<1>2. next \in 1 .. MaxInodes + 1 /\ DOMAIN PutInode(i, f) \subseteq 1 .. next - 1
  <2>1. next \in 1 .. MaxInodes + 1 /\ 1 .. nextId - 1 \subseteq 1 .. next - 1
    BY <1>1, FilesAssumption
  <2>2. DOMAIN PutInode(i, f) = DOMAIN inodes \cup {i}
    BY DEF PutInode
  <2> QED  BY <1>1, <2>1, <2>2
<1>3. PutInode(i, f) \in [DOMAIN PutInode(i, f) -> File]
  BY DEF FilesTyped, PutInode
<1> QED  BY <1>2, <1>3 DEF FilesTyped

\* The file that a call replaces still has the blocks of its length.
LEMMA PutInodeMatching ==
    ASSUME Matching(inodes), NEW i, NEW f, NumBlocksOf(f.extents) = BlocksFor(f.length)
    PROVE  Matching(PutInode(i, f))
<1> DEFINE files == PutInode(i, f)
<1>1. /\ DOMAIN files = DOMAIN inodes \cup {i} /\ files[i] = f
      /\ \A j \in DOMAIN inodes : j # i => files[j] = inodes[j]
  BY DEF PutInode
<1> HIDE DEF files
<1>2. ASSUME NEW j \in DOMAIN files
      PROVE  NumBlocksOf(files[j].extents) = BlocksFor(files[j].length)
  <2> HIDE DEF NumBlocksOf, BlocksFor
  <2> QED  BY <1>1 DEF Matching
<1> QED  BY <1>2 DEF Matching, files

----------------------------------------------------------------------------
(* The steps that change only what the threads are doing. *)

coreVars == <<extents, heap, missteps, inodes, nextId, txn, saved>>

\* The core of the invariant depends on the files' state only.
LEMMA CoreUnchanged ==
    ASSUME Core, UNCHANGED coreVars
    PROVE  Core'
BY DEF coreVars, Core, AllocatorTyped, FilesTyped, SavedTyped, TxnTyped, Settled, Snapshot,
       Matching, Reworked

\* What a call may look like.
LEMMA CallTyped ==
    ASSUME NEW op \in CallOps, NEW i \in Nat, NEW offset \in Nat, NEW length \in Nat
    PROVE  /\ Call(op, i, offset, length) \in CallRecord
           /\ Call(op, i, offset, length).length = length
           /\ Idle \in CallRecord /\ Idle.length = 0
BY DEF Call, CallRecord, Idle, CallOps

\* One thread's call changes.
LEMMA CallStep ==
    ASSUME CallsTyped, NEW t \in Threads, NEW c \in CallRecord,
           c.length = 0 \/ \E n \in Lengths : c.length <= n,
           calls' = [calls EXCEPT ![t] = c]
    PROVE  CallsTyped'
<1>1. calls' \in [Threads -> CallRecord]
  BY DEF CallsTyped
<1>2. ASSUME NEW u \in Threads
      PROVE  calls'[u].length = 0 \/ \E n \in Lengths : calls'[u].length <= n
  <2>1. calls'[u] = IF u = t THEN c ELSE calls[u]
    BY DEF CallsTyped
  <2> QED  BY <2>1 DEF CallsTyped
<1> QED  BY <1>1, <1>2 DEF CallsTyped

\* Calls that leave the database alone keep the invariant.
LEMMA ThreadsStep ==
    ASSUME Core, Calling, NEW t \in Threads, NEW i \in Inodes,
           \/ Open(t, i)
           \/ \E offset \in Offsets, length \in Lengths : ReadBegin(t, i, offset, length)
           \/ FileGone(t, i)
    PROVE  FilesInv'
<1>1. i \in Nat /\ FilesTyped(saved.inodes, saved.nextId)
  BY FilesAssumption DEF Inodes, Core, SavedTyped
<1>2. CASE Open(t, i)
  <2>1. Call("open", i, 0, 0) \in CallRecord /\ Call("open", i, 0, 0).length = 0
    BY <1>1, CallTyped DEF CallOps
  <2>2. CallsTyped'
    BY <1>2, <2>1, CallStep DEF Open, Calling
  <2>3. Calling'
    BY <1>2, <2>2 DEF Open, Calling, LoadedTyped
  <2>4. UNCHANGED coreVars
    BY <1>2 DEF Open, coreVars, dbVars
  <2> QED  BY <2>3, <2>4, CoreUnchanged DEF FilesInv
<1>3. ASSUME NEW offset \in Offsets, NEW length \in Lengths, ReadBegin(t, i, offset, length)
      PROVE  FilesInv'
  <2> DEFINE bytes == ReadLength(i, offset, length)
  <2>1. offset \in Nat /\ length \in Nat /\ saved.inodes[i].length \in Nat
    BY <1>1, <1>3, FilesFacts, FilesAssumption DEF ReadBegin
  <2>2. bytes \in Nat /\ bytes <= length
    BY <2>1 DEF ReadLength
  <2> HIDE DEF bytes
  <2> DEFINE c == IF bytes > 0 THEN Call("storage_read", i, offset, bytes) ELSE Idle
  <2>3. c \in CallRecord /\ (c.length = 0 \/ \E n \in Lengths : c.length <= n)
    <3>1. "storage_read" \in CallOps
      BY DEF CallOps
    <3> QED  BY <1>1, <2>1, <2>2, <3>1, CallTyped
  <2>4. calls' = [calls EXCEPT ![t] = c]
    BY <1>3 DEF ReadBegin, bytes
  <2> HIDE DEF c
  <2>5. CallsTyped'
    BY <2>3, <2>4, CallStep DEF Calling
  <2>6. Calling'
    BY <1>3, <2>5 DEF ReadBegin, Calling, LoadedTyped
  <2>7. UNCHANGED coreVars
    BY <1>3 DEF ReadBegin, coreVars, dbVars
  <2> QED  BY <2>6, <2>7, CoreUnchanged DEF FilesInv
<1>4. CASE FileGone(t, i)
  <2> DEFINE C == {Idle} \cup {Call("storage_read", i, offset, length) :
                     offset \in Offsets, length \in Lengths}
  <2>0. ASSUME NEW c \in C
        PROVE  c \in CallRecord /\ (c.length = 0 \/ \E n \in Lengths : c.length <= n)
    <3>1. "storage_read" \in CallOps
      BY DEF CallOps
    <3>2. \A offset \in Offsets, length \in Lengths : offset \in Nat /\ length \in Nat
      BY FilesAssumption
    <3>3. \A n \in Nat : n <= n
      OBVIOUS
    <3>4. Idle \in CallRecord /\ Idle.length = 0
      BY DEF Idle, CallRecord, CallOps
    <3> QED  BY <1>1, <3>1, <3>2, <3>3, <3>4, CallTyped
  <2>1. CallsTyped' /\ stopped' \in {stopped, "file"}
    <3>1. CASE stopped' = "file" /\ calls' = calls
      BY <3>1 DEF Calling, CallsTyped
    <3>2. CASE calls' \in {[calls EXCEPT ![t] = c] : c \in C} /\ stopped' = stopped
      <4> HIDE DEF C
      <4>1. PICK c \in C : calls' = [calls EXCEPT ![t] = c]
        BY <3>2
      <4>2. CallsTyped'
        BY <2>0, <4>1, CallStep DEF Calling
      <4> QED  BY <3>2, <4>2
    <3> QED  BY <1>4, <3>1, <3>2 DEF FileGone
  <2>2. Calling'
    BY <1>4, <2>1 DEF FileGone, Calling, LoadedTyped
  <2>3. UNCHANGED coreVars
    BY <1>4 DEF FileGone, coreVars, dbVars
  <2> QED  BY <2>2, <2>3, CoreUnchanged DEF FilesInv
<1> QED  BY <1>2, <1>3, <1>4

\* The storage loads the extents of a file and walks them.
LEMMA StorageStep ==
    ASSUME Core, Calling, NEW t \in Threads, StorageAccess(t)
    PROVE  FilesInv'
<1>1. FilesTyped(saved.inodes, saved.nextId)
  BY DEF Core, SavedTyped
<1>2. CASE StorageLoad(t)
  <2> DEFINE c == calls[t]
             w == IF c.op = "storage_write" THEN "walk_write" ELSE "walk_read"
  <2>1. c \in CallRecord /\ (c.length = 0 \/ \E n \in Lengths : c.length <= n)
    BY DEF Calling, CallsTyped
  <2>2. LoadedList(c.inode) \in Seq(FileExtent)
    <3>1. CASE c.inode \in DOMAIN saved.inodes
      <4>1. saved.inodes[c.inode].extents \in Seq(FileExtent)
        BY <1>1, <3>1, FilesFacts
      <4> QED  BY <4>1 DEF LoadedList
    <3>2. CASE c.inode \notin DOMAIN saved.inodes
      BY <3>2 DEF LoadedList
    <3> QED  BY <3>1, <3>2
  <2>3. CASE stopped' = "storage" /\ UNCHANGED <<loaded, calls>>
    <3>1. Calling'
      BY <2>3 DEF Calling, CallsTyped, LoadedTyped
    <3>2. UNCHANGED coreVars
      BY <1>2 DEF StorageLoad, coreVars, dbVars
    <3> QED  BY <3>1, <3>2, CoreUnchanged DEF FilesInv
  <2>4. CASE /\ loaded' = [thread |-> t, list |-> LoadedList(c.inode)]
             /\ calls' = [calls EXCEPT ![t].op =
                             IF @ = "storage_write" THEN "walk_write" ELSE "walk_read"]
             /\ stopped' = stopped
    <3>1. calls' = [calls EXCEPT ![t] = [c EXCEPT !.op = w]]
      BY <2>4 DEF Calling, CallsTyped
    <3>2. [c EXCEPT !.op = w] \in CallRecord /\ [c EXCEPT !.op = w].length = c.length
      BY <2>1 DEF CallRecord, CallOps
    <3>3. CallsTyped'
      <4> DEFINE d == [c EXCEPT !.op = w]
      <4>1. d \in CallRecord /\ (d.length = 0 \/ \E n \in Lengths : d.length <= n)
        BY <2>1, <3>2
      <4> HIDE DEF d
      <4> QED  BY <3>1, <4>1, CallStep DEF Calling, d
    <3>4. LoadedTyped'
      BY <2>2, <2>4 DEF LoadedTyped
    <3>5. UNCHANGED coreVars
      BY <1>2 DEF StorageLoad, coreVars, dbVars
    <3>6. Calling'
      BY <2>4, <3>3, <3>4 DEF Calling
    <3> QED  BY <3>5, <3>6, CoreUnchanged DEF FilesInv
  <2> QED  BY <1>2, <2>3, <2>4 DEF StorageLoad
<1>3. CASE StorageWalk(t)
  <2>1. CallsTyped'
    <3>1. CASE calls' = calls
      BY <3>1 DEF Calling, CallsTyped
    <3>2. CASE calls' = [calls EXCEPT ![t] = Idle]
      <4>1. Idle \in CallRecord /\ Idle.length = 0
        BY DEF Idle, CallRecord, CallOps
      <4> QED  BY <3>2, <4>1, CallStep DEF Calling
    <3> QED  BY <1>3, <3>1, <3>2 DEF StorageWalk
  <2>2. stopped' \in {stopped, "storage"} /\ loaded' = loaded
    BY <1>3 DEF StorageWalk
  <2>3. Calling'
    BY <2>1, <2>2 DEF Calling, LoadedTyped
  <2>4. UNCHANGED coreVars
    BY <1>3 DEF StorageWalk, coreVars, dbVars
  <2> QED  BY <2>3, <2>4, CoreUnchanged DEF FilesInv
<1> QED  BY <1>2, <1>3 DEF StorageAccess

\* An assertion of the allocator fails.
LEMMA AbortStep ==
    ASSUME Core, Calling, ExpandAborts
    PROVE  FilesInv'
<1>1. Calling'
  BY DEF ExpandAborts, Calling, CallsTyped, LoadedTyped
<1>2. UNCHANGED coreVars
  BY DEF ExpandAborts, coreVars, dbVars
<1> QED  BY <1>1, <1>2, CoreUnchanged DEF FilesInv

----------------------------------------------------------------------------
(* The steps of the transactions. *)

\* Between transactions the working state is the committed one.
LEMMA SettledFacts ==
    ASSUME Core, txn = NoTxn
    PROVE  /\ saved.extents = extents /\ saved.heap = heap /\ saved.missteps = missteps
           /\ saved.inodes = inodes /\ saved.nextId = nextId
BY DEF Core, Settled, Snapshot

\* mtl_write, mtl_truncate and mtl_unlink take the write lock.
LEMMA BeginStep ==
    ASSUME Core, Calling, NEW t \in Threads, NEW i \in Inodes,
           \/ \E offset \in Offsets, length \in Lengths : WriteBegin(t, i, offset, length)
           \/ \E offset \in Offsets : TruncateUpBegin(t, i, offset)
           \/ UnlinkBegin(t, i)
    PROVE  FilesInv'
<1>1. i \in Nat /\ \A offset \in Offsets, length \in Lengths : offset \in Nat /\ length \in Nat
  BY FilesAssumption DEF Inodes
<1>2. PICK op \in {"write", "truncate", "unlink"}, end \in {0} \cup Ends,
           pending \in Seq(FileExtent), offset \in Nat, length \in Nat :
        /\ txn = NoTxn
        /\ txn' = Begin(t, op, i, end, pending)
        /\ pending # <<>> => end = 0
        /\ calls' = [calls EXCEPT ![t] = Call(op, i, offset, length)]
        /\ length = 0 \/ \E n \in Lengths : length <= n
        /\ UNCHANGED <<dbVars, saved, loaded, stopped>>
  <2>1. ASSUME NEW offset \in Offsets, NEW length \in Lengths,
               WriteBegin(t, i, offset, length)
        PROVE  /\ txn = NoTxn
               /\ txn' = Begin(t, "write", i, offset + length, <<>>)
               /\ offset + length \in {0} \cup Ends /\ <<>> \in Seq(FileExtent)
               /\ <<>> # <<>> => offset + length = 0
               /\ calls' = [calls EXCEPT ![t] = Call("write", i, offset, length)]
               /\ offset \in Nat /\ length \in Nat
               /\ length = 0 \/ \E n \in Lengths : length <= n
               /\ UNCHANGED <<dbVars, saved, loaded, stopped>>
    <3>1. length <= length /\ offset \in Nat /\ length \in Nat
      BY <1>1
    <3>2. offset + length \in Ends
      BY DEF Ends
    <3> QED  BY <2>1, <3>1, <3>2 DEF WriteBegin
  <2>2. ASSUME NEW offset \in Offsets, TruncateUpBegin(t, i, offset)
        PROVE  /\ txn = NoTxn
               /\ txn' = Begin(t, "truncate", i, offset, <<>>)
               /\ offset \in {0} \cup Ends /\ <<>> \in Seq(FileExtent)
               /\ <<>> # <<>> => offset = 0
               /\ calls' = [calls EXCEPT ![t] = Call("truncate", i, offset, 0)]
               /\ offset \in Nat /\ 0 \in Nat
               /\ 0 = 0 \/ \E n \in Lengths : 0 <= n
               /\ UNCHANGED <<dbVars, saved, loaded, stopped>>
    <3>1. offset \in Nat
      BY FilesAssumption
    <3>2. offset + 0 \in Ends
      <4> DEFINE L == Lengths \cup {0}
      <4>1. 0 \in L
        OBVIOUS
      <4> HIDE DEF L
      <4>2. offset + 0 \in {a + n : a \in Offsets, n \in L}
        BY <4>1
      <4> QED  BY <4>2 DEF Ends, L
    <3>3. offset + 0 = offset
      BY <3>1
    <3> QED  BY <2>2, <3>1, <3>2, <3>3 DEF TruncateUpBegin
  <2>3. ASSUME UnlinkBegin(t, i)
        PROVE  /\ txn = NoTxn
               /\ txn' = Begin(t, "unlink", i, 0, inodes[i].extents)
               /\ 0 \in {0} \cup Ends /\ inodes[i].extents \in Seq(FileExtent)
               /\ inodes[i].extents # <<>> => 0 = 0
               /\ calls' = [calls EXCEPT ![t] = Call("unlink", i, 0, 0)]
               /\ 0 \in Nat /\ 0 \in Nat
               /\ 0 = 0 \/ \E n \in Lengths : 0 <= n
               /\ UNCHANGED <<dbVars, saved, loaded, stopped>>
    <3>1. inodes[i].extents \in Seq(FileExtent)
      BY <2>3, FilesFacts DEF UnlinkBegin, Core
    <3> QED  BY <2>3, <3>1 DEF UnlinkBegin
  <2> QED  BY <2>1, <2>2, <2>3, ZenonT(30)
<1>3. Calling'
  <2>1. op \in CallOps
    BY DEF CallOps
  <2>2. Call(op, i, offset, length) \in CallRecord /\ Call(op, i, offset, length).length = length
    BY <1>1, <1>2, <2>1, CallTyped
  <2>3. CallsTyped'
    <3> DEFINE c == Call(op, i, offset, length)
    <3>1. c \in CallRecord /\ (c.length = 0 \/ \E n \in Lengths : c.length <= n)
      BY <1>2, <2>2
    <3> HIDE DEF c
    <3> QED  BY <1>2, <3>1, CallStep DEF Calling, c
  <2> QED  BY <1>2, <2>3 DEF Calling, LoadedTyped
<1>4. TxnTyped' /\ txn' # NoTxn
  <2>1. txn' \in Transaction /\ txn'.pending = pending /\ txn'.end = end /\ txn'.op = op
    BY <1>2 DEF Begin, Transaction
  <2> QED  BY <1>2, <2>1 DEF TxnTyped, NoTxn
<1>5. /\ UNCHANGED <<extents, heap, missteps, inodes, nextId, saved>>
      /\ inodes = saved.inodes
  BY <1>2, SettledFacts DEF dbVars
<1>6. Reworked'
  BY <1>5 DEF Reworked
<1>7. Core'
  BY <1>4, <1>5, <1>6 DEF Core, AllocatorTyped, FilesTyped, SavedTyped, Settled, Matching
<1> QED  BY <1>3, <1>7 DEF FilesInv

\* mtl_create.
LEMMA CreateStep ==
    ASSUME Core, Calling, NEW t \in Threads, Create(t)
    PROVE  FilesInv'
<1>1. EmptyFile \in File /\ NumBlocksOf(EmptyFile.extents) = BlocksFor(EmptyFile.length)
  BY NoBlocks, BlocksForWhole DEF EmptyFile, File
<1>2. /\ txn = NoTxn /\ txn' = txn /\ nextId \in Inodes /\ nextId' = nextId + 1
      /\ inodes' = PutInode(nextId, EmptyFile)
      /\ saved' = [saved EXCEPT !.inodes = inodes', !.nextId = nextId']
      /\ UNCHANGED <<extents, heap, missteps, calls, loaded, stopped>>
  BY DEF Create
<1>3. /\ FilesTyped(inodes, nextId) /\ Matching(inodes)
      /\ AllocatorTyped(extents, heap, missteps) /\ SavedTyped
  BY DEF Core
<1>4. FilesTyped(inodes', nextId')
  <2>1. nextId' \in nextId .. MaxInodes + 1 /\ nextId \in 1 .. nextId' - 1
    BY <1>2, FilesAssumption DEF Inodes
  <2> QED  BY <1>1, <1>2, <1>3, <2>1, PutInodeTyped
<1>5. Matching(inodes')
  BY <1>1, <1>2, <1>3, PutInodeMatching
<1>6. /\ saved' = [extents |-> saved.extents, heap |-> saved.heap,
                   missteps |-> saved.missteps, inodes |-> inodes', nextId |-> nextId']
      /\ saved'.extents = saved.extents /\ saved'.heap = saved.heap
      /\ saved'.missteps = saved.missteps
      /\ saved'.inodes = inodes' /\ saved'.nextId = nextId'
  BY <1>2, <1>3, Zenon DEF SavedTyped
<1>7. SavedTyped'
  BY <1>3, <1>4, <1>6 DEF SavedTyped
<1>8. Settled'
  BY <1>2, <1>6, SettledFacts, Zenon DEF Settled, Snapshot
<1>9. Reworked'
  BY <1>6 DEF Reworked
<1>10. Core'
  BY <1>2, <1>3, <1>4, <1>5, <1>6, <1>7, <1>8, <1>9 DEF Core, AllocatorTyped, TxnTyped
<1> QED  BY <1>2, <1>10 DEF FilesInv, Calling, CallsTyped, LoadedTyped

\* The end of a transaction.
LEMMA CommitStep ==
    ASSUME Core, Calling, Commit
    PROVE  FilesInv'
<1>1. /\ txn # NoTxn /\ txn' = NoTxn
      /\ inodes' = IF txn.op = "unlink"
                   THEN [j \in DOMAIN inodes \ {txn.inode} |-> inodes[j]]
                   ELSE inodes
      /\ saved' = [Snapshot EXCEPT !.inodes = inodes']
      /\ UNCHANGED <<extents, heap, missteps, nextId, loaded, stopped>>
  BY DEF Commit
<1>2. /\ AllocatorTyped(extents, heap, missteps) /\ FilesTyped(inodes, nextId)
      /\ Matching(inodes) /\ txn \in Transaction
  BY <1>1 DEF Core, TxnTyped
<1>3. FilesTyped(inodes', nextId')
  <2>1. DOMAIN inodes' \subseteq DOMAIN inodes /\ \A j \in DOMAIN inodes' : inodes'[j] = inodes[j]
    BY <1>1
  <2>2. inodes' \in [DOMAIN inodes' -> File]
    BY <1>1, <1>2 DEF FilesTyped
  <2> QED  BY <1>1, <1>2, <2>1, <2>2 DEF FilesTyped
<1>4. Matching(inodes')
  <2>1. DOMAIN inodes' \subseteq DOMAIN inodes /\ \A j \in DOMAIN inodes' : inodes'[j] = inodes[j]
    BY <1>1
  <2> HIDE DEF NumBlocksOf, BlocksFor
  <2> QED  BY <1>2, <2>1 DEF Matching
<1>5. /\ saved' = [extents |-> extents, heap |-> heap, missteps |-> missteps,
                   inodes |-> inodes', nextId |-> nextId]
      /\ saved'.extents = extents /\ saved'.heap = heap /\ saved'.missteps = missteps
      /\ saved'.inodes = inodes' /\ saved'.nextId = nextId
  BY <1>1 DEF Snapshot
<1>6. SavedTyped'
  BY <1>1, <1>2, <1>3, <1>5, Zenon DEF SavedTyped
<1>7. Settled'
  BY <1>1, <1>5 DEF Settled, Snapshot
<1>8. Reworked'
  BY <1>5 DEF Reworked
<1>9. Core'
  BY <1>1, <1>2, <1>3, <1>4, <1>5, <1>6, <1>7, <1>8 DEF Core, AllocatorTyped, TxnTyped
<1>10. CallsTyped'
  <2> DEFINE t == txn.thread
             c == IF txn.op = "write" THEN [calls[t] EXCEPT !.op = "storage_write"] ELSE Idle
  <2>1. t \in Threads /\ calls[t] \in CallRecord
    BY <1>2 DEF Transaction, Calling, CallsTyped
  <2>2. calls' = [calls EXCEPT ![t] = c]
    BY <2>1 DEF Commit, Calling, CallsTyped
  <2>3. c \in CallRecord /\ c.length \in {0, calls[t].length}
    BY <2>1 DEF CallRecord, CallOps, Idle
  <2>4. c.length = 0 \/ \E n \in Lengths : c.length <= n
    BY <2>1, <2>3 DEF Calling, CallsTyped
  <2> HIDE DEF t, c
  <2> QED  BY <2>1, <2>2, <2>3, <2>4, CallStep DEF Calling
<1> QED  BY <1>1, <1>9, <1>10 DEF FilesInv, Calling, LoadedTyped

\* The next process finds the committed databases.
LEMMA RestartStep ==
    ASSUME Core, Calling, Restart
    PROVE  FilesInv'
<1>1. SavedTyped /\ Matching(saved.inodes)
  BY DEF Core
<1>2. AllocatorTyped(extents', heap', missteps')
  <2>1. TypedDb(saved.extents) /\ saved.heap \subseteq Node
    BY <1>1 DEF SavedTyped, AllocatorTyped
  <2>2. /\ TypedDb(InitializedExtents(saved.extents))
        /\ InitializedHeap(saved.extents, saved.heap) \in SUBSET Node
    BY <2>1, InitializedTyped
  <2> QED  BY <1>1, <2>2 DEF Restart, SavedTyped, AllocatorTyped
<1>3. /\ saved' = [extents |-> extents', heap |-> heap', missteps |-> missteps',
                   inodes |-> inodes', nextId |-> nextId']
      /\ saved'.extents = extents' /\ saved'.heap = heap' /\ saved'.missteps = missteps'
      /\ saved'.inodes = inodes' /\ saved'.nextId = nextId'
  BY DEF Restart, Snapshot
<1>4. inodes' = saved.inodes /\ nextId' = saved.nextId /\ txn' = NoTxn
  BY DEF Restart
<1>5. FilesTyped(inodes', nextId') /\ Matching(inodes') /\ TxnTyped'
  BY <1>1, <1>4 DEF SavedTyped, TxnTyped
<1>6. SavedTyped'
  BY <1>2, <1>3, <1>5 DEF SavedTyped
<1>7. Settled'
  BY <1>3 DEF Settled, Snapshot
<1>8. Reworked'
  BY <1>3 DEF Reworked
<1>9. Core'
  BY <1>2, <1>3, <1>5, <1>6, <1>7, <1>8 DEF Core
<1>10. Calling'
  <2>1. Idle \in CallRecord /\ Idle.length = 0
    BY DEF Idle, CallRecord, CallOps
  <2>2. CallsTyped'
    BY <2>1 DEF Restart, CallsTyped
  <2>3. LoadedTyped'
    <3>1. <<>> \in Seq(FileExtent)
      OBVIOUS
    <3> QED  BY <3>1 DEF Restart, LoadedTyped, NoList
  <2> QED  BY <2>2, <2>3 DEF Restart, Calling
<1> QED  BY <1>9, <1>10 DEF FilesInv

----------------------------------------------------------------------------
(* Truncating and expanding. *)

\* A list is what comes before its last extent, and that one.
LEMMA ButLastFacts ==
    ASSUME NEW list \in Seq(FileExtent), list # <<>>
    PROVE  /\ LastExtent(list) \in FileExtent
           /\ ButLast(list) \in Seq(FileExtent)
           /\ list = Append(ButLast(list), LastExtent(list))
<1> DEFINE n == Len(list)
           l == ButLast(list)
<1>1. n \in 1 .. Len(list) /\ list[n] \in FileExtent
  OBVIOUS
<1>2. /\ l \in Seq(FileExtent) /\ Len(l) = n - 1
      /\ \A j \in 1 .. n - 1 : l[j] = list[j]
  BY <1>1, SubSeqFacts, ZenonT(30) DEF ButLast
<1>3. LastExtent(list) = list[n]
  BY DEF LastExtent
<1> HIDE DEF l
<1>4. list = Append(l, list[n])
  BY <1>1, <1>2
<1> QED  BY <1>1, <1>2, <1>3, <1>4 DEF l

(* mtl_truncate cuts the list so that what is left is the beginning of     *)
(* what there was, with the blocks of the new length.                      *)
LEMMA TruncateDownEffect ==
    ASSUME Core, NEW t \in Threads, NEW i \in Inodes, NEW offset \in Offsets,
           TruncateDownBegin(t, i, offset)
    PROVE  /\ txn = NoTxn /\ i \in DOMAIN inodes
           /\ UNCHANGED <<nextId, saved, loaded>>
           /\ \/ stopped' = "allocator" /\ UNCHANGED <<dbVars, txn, calls>>
              \/ \E f \in File, rest \in Seq(FileExtent) :
                   /\ AllocatorTyped(extents', heap', missteps')
                   /\ inodes' = PutInode(i, f)
                   /\ NumBlocksOf(f.extents) = BlocksFor(f.length)
                   /\ Starts(BlocksOf(f.extents), BlocksOf(inodes[i].extents))
                   /\ txn' = Begin(t, "truncate", i, 0, rest)
                   /\ calls' = [calls EXCEPT ![t] = Call("truncate", i, offset, 0)]
                   /\ stopped' = stopped
<1> DEFINE list == inodes[i].extents
<1>1. /\ txn = NoTxn /\ i \in DOMAIN inodes /\ offset \in Nat
      /\ UNCHANGED <<nextId, saved, loaded>>
  BY FilesAssumption, Zenon DEF TruncateDownBegin, dbVars
<1>2. list \in Seq(FileExtent) /\ AllocatorTyped(extents, heap, missteps)
  BY <1>1, FilesFacts DEF Core
<1>3. PICK k \in 1 .. Len(list) :
        LET before == NumBlocksOf(SubSeq(list, 1, k - 1)) * BlockSize
        IN  /\ before <= offset
            /\ offset < before + list[k].length * BlockSize
            /\ IF list[k].offset \in DOMAIN extents
               THEN /\ Cut(i, k, BlocksFor(offset - before), offset)
                    /\ txn' = Begin(t, "truncate", i, 0, SubSeq(list, k + 1, Len(list)))
                    /\ calls' = [calls EXCEPT ![t] = Call("truncate", i, offset, 0)]
                    /\ UNCHANGED <<nextId, saved, loaded, stopped>>
               ELSE /\ stopped' = "allocator"
                    /\ UNCHANGED <<dbVars, txn, saved, calls, loaded>>
  BY DEF TruncateDownBegin
<1> DEFINE kept == SubSeq(list, 1, k - 1)
           n == NumBlocksOf(kept)
           x == offset - n * BlockSize
           blocks == BlocksFor(x)
           c == [list[k] EXCEPT !.length = blocks]
           rest == SubSeq(list, k + 1, Len(list))
           new == IF blocks > 0 THEN Append(kept, c) ELSE kept
           f == [length |-> offset, extents |-> new]
<1>4. CASE list[k].offset \notin DOMAIN extents
  BY <1>1, <1>3, <1>4
<1>5. CASE list[k].offset \in DOMAIN extents
  <2>1. /\ n * BlockSize <= offset /\ offset < n * BlockSize + list[k].length * BlockSize
        /\ Cut(i, k, blocks, offset)
        /\ txn' = Begin(t, "truncate", i, 0, rest)
        /\ calls' = [calls EXCEPT ![t] = Call("truncate", i, offset, 0)]
        /\ stopped' = stopped
    BY <1>3, <1>5, Zenon
  <2>2. /\ list[k] \in FileExtent /\ list[k].offset \in Nat /\ list[k].length \in Nat
        /\ kept \in Seq(FileExtent)
    BY <1>2, ListTyped, SubSeqFacts
  <2>3. rest \in Seq(FileExtent)
    BY <1>2
  <2>4. n \in Nat
    BY <2>2, SumNat, Zenon
  <2> HIDE DEF n
  <2>5. /\ x \in Nat /\ x <= list[k].length * BlockSize
        /\ n * BlockSize + x = offset
    <3>1. n * BlockSize \in Nat /\ list[k].length * BlockSize \in Nat
      BY <2>2, <2>4, FilesAssumption
    <3> QED  BY <1>1, <2>1, <3>1
  <2> HIDE DEF x
  <2>6. blocks \in Nat /\ blocks <= list[k].length /\ BlocksFor(offset) = n + blocks
    BY <2>2, <2>4, <2>5, BlocksForFacts, Zenon
  <2> HIDE DEF blocks
  <2>7. c \in FileExtent /\ c.offset = list[k].offset /\ c.length = blocks
    BY <2>2, <2>6 DEF FileExtent
  <2> HIDE DEF c
  <2>8. /\ Starts(BlocksOf(kept), BlocksOf(list))
        /\ Starts(BlocksOf(Append(kept, c)), BlocksOf(list))
    BY <1>2, <2>6, <2>7, CutRuns
  <2>9. NumBlocksOf(Append(kept, c)) = n + blocks
    BY <2>2, <2>7, AppendBlocks, Zenon DEF n
  <2> HIDE DEF kept, rest
  <2>10. /\ new \in Seq(FileExtent) /\ NumBlocksOf(new) = BlocksFor(offset)
         /\ Starts(BlocksOf(new), BlocksOf(list))
    <3>1. CASE blocks > 0
      <4>1. new = Append(kept, c) /\ Append(kept, c) \in Seq(FileExtent)
        BY <2>2, <2>7, <3>1
      <4> HIDE DEF new
      <4> QED  BY <2>6, <2>8, <2>9, <4>1
    <3>2. CASE ~(blocks > 0)
      <4>1. new = kept /\ blocks = 0 /\ n + blocks = NumBlocksOf(kept)
        BY <2>4, <2>6, <3>2 DEF n
      <4> HIDE DEF new
      <4> QED  BY <2>2, <2>6, <2>8, <4>1
    <3> QED  BY <3>1, <3>2
  <2>11. /\ inodes' = PutInode(i, f)
         /\ \/ TruncateExtent(list[k], blocks)
            \/ FreeExtent(extents, list[k].offset, missteps \cup Short(list[k]))
    BY <2>1, Zenon DEF Cut, kept, c
  <2> HIDE DEF new
  <2>12. f \in File /\ f.extents = new /\ f.length = offset
    BY <1>1, <2>10 DEF File
  <2> HIDE DEF f
  <2>13. AllocatorTyped(extents', heap', missteps')
    <3>1. DbTyped
      BY <1>2 DEF AllocatorTyped, DbTyped
    <3>2. CASE TruncateExtent(list[k], blocks)
      <4>1. DbTyped'
        BY <1>5, <2>2, <2>6, <3>1, <3>2, TruncateTyped
      <4> QED  BY <4>1 DEF AllocatorTyped, DbTyped
    <3>3. CASE FreeExtent(extents, list[k].offset, missteps \cup Short(list[k]))
      <4>1. DbTyped'
        BY <1>5, <2>2, <3>1, <3>3, FreeTyped, Zenon
      <4> QED  BY <4>1 DEF AllocatorTyped, DbTyped
    <3> QED  BY <2>11, <3>2, <3>3
  <2>14. NumBlocksOf(f.extents) = BlocksFor(f.length) /\ Starts(BlocksOf(f.extents), BlocksOf(list))
    BY <2>10, <2>12
  <2> HIDE DEF list
  <2> QED  BY <1>1, <2>1, <2>3, <2>11, <2>12, <2>13, <2>14, Zenon DEF list
<1> QED  BY <1>4, <1>5, Zenon

(* The list that mtl_add_extent_to_inode leaves goes on where the old one  *)
(* ended, and has the blocks of the length that it notes.                  *)
LEMMA ExpandedFacts ==
    ASSUME NEW new \in FileExtent, txn.inode \in DOMAIN inodes,
           inodes[txn.inode].extents \in Seq(FileExtent), txn.end \in Nat,
           FileBlocks + new.length <= BlocksFor(txn.end)
    PROVE  /\ Expanded(new) \in File
           /\ NumBlocksOf(Expanded(new).extents) = BlocksFor(Expanded(new).length)
           /\ Starts(BlocksOf(inodes[txn.inode].extents), BlocksOf(Expanded(new).extents))
<1> DEFINE list == inodes[txn.inode].extents
           last == LastExtent(list)
           n == NumBlocksOf(list)
           m == n + new.length
           bytes == m * BlockSize
           grows == last.length > 0 /\ last.offset = new.offset
           longer == [last EXCEPT !.length = @ + new.length]
           exts == IF grows THEN Append(ButLast(list), longer) ELSE Append(list, new)
           len == IF txn.end > bytes THEN bytes ELSE txn.end
<1>1. FileBlocks = n /\ n \in Nat
  BY SumNat DEF FileBlocks, Missing
<1>2. Expanded(new) = [length |-> len, extents |-> exts]
  BY <1>1 DEF Expanded
<1>3. new.offset \in Nat /\ new.length \in Nat /\ Run(new) \in Seq(Nat)
  BY RunFacts DEF FileExtent
<1>4. BlocksOf(list) \in Seq(Nat)
  BY RunsGrow
<1>5. /\ exts \in Seq(FileExtent) /\ NumBlocksOf(exts) = m
      /\ Starts(BlocksOf(list), BlocksOf(exts))
  <2>1. CASE grows
    <3>1. list # <<>>
      BY <2>1 DEF LastExtent, NoExtent
    <3>2. /\ last \in FileExtent /\ ButLast(list) \in Seq(FileExtent)
          /\ list = Append(ButLast(list), last)
      BY <3>1, ButLastFacts
    <3> DEFINE front == ButLast(list)
    <3>3. /\ last.length \in Nat
          /\ longer \in FileExtent /\ longer.offset = last.offset
          /\ longer.length = last.length + new.length
      <4> HIDE DEF last
      <4> QED  BY <1>3, <3>2, LongerExtent, Zenon
    <3>4. exts = Append(front, longer)
      BY <2>1
    <3> HIDE DEF exts, longer, front, last, list
    <3>5. NumBlocksOf(list) = NumBlocksOf(front) + last.length
      BY <3>2, AppendBlocks, Zenon DEF front
    <3>6. NumBlocksOf(exts) = NumBlocksOf(front) + longer.length
      BY <3>2, <3>3, <3>4, AppendBlocks DEF front
    <3>7. NumBlocksOf(front) \in Nat
      BY <3>2, SumNat DEF front
    <3>8. NumBlocksOf(exts) = m
      BY <1>3, <3>3, <3>5, <3>6, <3>7
    <3>9. last.length <= longer.length
      BY <1>3, <3>3
    <3>10. Starts(BlocksOf(Append(front, last)), BlocksOf(Append(front, longer)))
      BY <3>2, <3>3, <3>9, LongerRuns DEF front
    <3>11. exts \in Seq(FileExtent)
      BY <3>2, <3>3, <3>4 DEF front
    <3> QED  BY <3>2, <3>4, <3>8, <3>10, <3>11, Zenon DEF front
  <2>2. CASE ~grows
    <3>1. exts = Append(list, new)
      BY <2>2
    <3> HIDE DEF exts, list
    <3>2. NumBlocksOf(exts) = m
      BY <3>1, AppendBlocks DEF list
    <3>3. BlocksOf(exts) = BlocksOf(list) \o Run(new)
      BY <3>1, AppendRuns DEF list
    <3>4. Starts(BlocksOf(list), BlocksOf(list) \o Run(new))
      BY <1>3, <1>4, StartsConcat
    <3>5. exts \in Seq(FileExtent)
      BY <3>1 DEF list
    <3> QED  BY <3>2, <3>3, <3>4, <3>5
  <2> QED  BY <2>1, <2>2, Zenon
<1>6. len \in Nat /\ BlocksFor(len) = m
  <2> HIDE DEF n
  <2>1. m \in Nat /\ bytes \in Nat /\ m <= BlocksFor(txn.end)
    <3>1. m \in Nat
      BY <1>1, <1>3
    <3> QED  BY <1>1, <3>1, FilesAssumption
  <2>2. BlocksFor(bytes) = m
    BY <2>1, BlocksForWhole
  <2> HIDE DEF m
  <2>3. CASE txn.end > bytes
    BY <2>1, <2>2, <2>3
  <2>4. CASE ~(txn.end > bytes)
    <3>1. txn.end <= m * BlockSize
      BY <2>1, <2>4
    <3>2. BlocksFor(txn.end) <= m /\ BlocksFor(txn.end) \in Nat
      BY <2>1, <3>1, BlocksForFacts, ZenonT(30)
    <3>3. len = txn.end
      BY <2>4
    <3> QED  BY <2>1, <3>2, <3>3
  <2> QED  BY <2>3, <2>4
<1> HIDE DEF len, exts
<1>7. Expanded(new) \in File /\ Expanded(new).length = len /\ Expanded(new).extents = exts
  BY <1>2, <1>5, <1>6 DEF File
<1> QED  BY <1>5, <1>6, <1>7

\* A transaction expands its file to a number of bytes.
LEMMA TransactionEnd ==
    ASSUME NEW t \in Transaction
    PROVE  t.end \in Nat
<1>1. t.end \in {0} \cup Ends
  BY DEF Transaction
<1>2. \A e \in {0} \cup Ends : e \in Nat
  BY FilesAssumption DEF Ends
<1> QED  BY <1>1, <1>2, Zenon

(* One turn of the loop of mtl_expand_inode. *)
LEMMA ExpandEffect ==
    ASSUME Core, ExpandStep
    PROVE  /\ txn \in Transaction /\ txn.op \in {"write", "truncate"} /\ txn.end # 0
           /\ txn.inode \in DOMAIN inodes
           /\ AllocatorTyped(extents', heap', missteps')
           /\ UNCHANGED <<nextId, txn, saved, calls, loaded, stopped>>
           /\ \E f \in File :
                /\ inodes' = PutInode(txn.inode, f)
                /\ NumBlocksOf(f.extents) = BlocksFor(f.length)
                /\ Starts(BlocksOf(inodes[txn.inode].extents), BlocksOf(f.extents))
<1> DEFINE i == txn.inode
           list == inodes[i].extents
           last == LastExtent(list)
           size == BlocksFor(txn.end) - FileBlocks
<1>1. /\ txn.op \in {"write", "truncate"} /\ FileBlocks < BlocksFor(txn.end)
      /\ i \in DOMAIN inodes
      /\ UNCHANGED <<nextId, txn, saved, calls, loaded, stopped>>
  BY Zenon DEF ExpandStep, Expanding, Missing
<1>2. txn \in Transaction
  BY <1>1 DEF Core, TxnTyped, NoTxn
<1>3. txn.end \in Nat
  BY <1>2, TransactionEnd, Zenon
<1>4. list \in Seq(FileExtent)
  BY <1>1, FilesFacts DEF Core
<1>5. FileBlocks \in Nat /\ BlocksFor(txn.end) \in Nat
  BY <1>1, <1>3, <1>4, SumNat, BlocksForFacts, Zenon DEF FileBlocks, Missing
<1>6. size \in Nat
  BY <1>1, <1>5
<1>7. txn.end # 0
  BY <1>1, <1>5, BlocksForWhole
<1>8. last \in FileExtent
  <2>1. CASE list = <<>>
    BY <2>1 DEF LastExtent, NoExtent, FileExtent
  <2>2. CASE list # <<>>
    BY <1>4, <2>2, ButLastFacts
  <2> QED  BY <2>1, <2>2
<1>9. DbTyped
  BY DEF Core, AllocatorTyped, DbTyped
<1>10. ASSUME NEW new \in FileExtent, new.length \in 0 .. size, DbTyped',
              inodes' = PutInode(i, Expanded(new))
       PROVE  /\ AllocatorTyped(extents', heap', missteps')
              /\ \E f \in File :
                   /\ inodes' = PutInode(i, f)
                   /\ NumBlocksOf(f.extents) = BlocksFor(f.length)
                   /\ Starts(BlocksOf(list), BlocksOf(f.extents))
  <2>1. FileBlocks + new.length <= BlocksFor(txn.end)
    <3> HIDE DEF FileBlocks, BlocksFor
    <3> QED  BY <1>5, <1>10
  <2>2. /\ Expanded(new) \in File
        /\ NumBlocksOf(Expanded(new).extents) = BlocksFor(Expanded(new).length)
        /\ Starts(BlocksOf(list), BlocksOf(Expanded(new).extents))
    BY <1>1, <1>3, <1>4, <2>1, ExpandedFacts
  <2>3. AllocatorTyped(extents', heap', missteps')
    BY <1>10 DEF AllocatorTyped, DbTyped
  <2> QED  BY <1>10, <2>2, <2>3
<1>11. CASE /\ ExtendExtent(last, size)
            /\ inodes' = PutInode(i, Expanded([offset |-> last.offset,
                                               length |-> ExtendGranted(last, size)]))
  <2> HIDE DEF last, size
  <2> DEFINE g == ExtendGranted(last, size)
             new == [offset |-> last.offset, length |-> g]
  <2>1. DbTyped' /\ g \in 0 .. size
    BY <1>6, <1>8, <1>9, <1>11, ExtendTyped
  <2>2. inodes' = PutInode(i, Expanded(new))
    BY <1>11
  <2> HIDE DEF g
  <2>3. new \in FileExtent /\ new.length \in 0 .. size
    BY <1>6, <1>8, <2>1 DEF FileExtent
  <2> HIDE DEF new
  <2> QED  BY <1>1, <1>2, <1>7, <1>10, <2>1, <2>2, <2>3
<1>12. ASSUME NEW node \in heap, PopExtent(node, size),
              inodes' = PutInode(i, Expanded([offset |-> node.v,
                                              length |-> PopGranted(node, size)]))
       PROVE  /\ AllocatorTyped(extents', heap', missteps')
              /\ \E f \in File :
                   /\ inodes' = PutInode(i, f)
                   /\ NumBlocksOf(f.extents) = BlocksFor(f.length)
                   /\ Starts(BlocksOf(list), BlocksOf(f.extents))
  <2> HIDE DEF size
  <2> DEFINE g == PopGranted(node, size)
             new == [offset |-> node.v, length |-> g]
  <2>1. DbTyped' /\ node.v \in Nat /\ g \in 0 .. size
    BY <1>6, <1>9, <1>12, PopTyped
  <2>2. inodes' = PutInode(i, Expanded(new))
    BY <1>12
  <2> HIDE DEF g
  <2>3. new \in FileExtent /\ new.length \in 0 .. size
    BY <1>6, <2>1 DEF FileExtent
  <2> HIDE DEF new
  <2> QED  BY <1>10, <2>1, <2>2, <2>3
<1> QED  BY <1>1, <1>2, <1>7, <1>11, <1>12, Zenon DEF ExpandStep

\* The start of a truncation to a smaller size keeps the invariant.
LEMMA TruncateDownStep ==
    ASSUME Core, Calling, NEW t \in Threads, NEW i \in Inodes, NEW offset \in Offsets,
           TruncateDownBegin(t, i, offset)
    PROVE  FilesInv'
<1>1. txn = NoTxn /\ i \in DOMAIN inodes /\ UNCHANGED <<nextId, saved, loaded>>
  BY TruncateDownEffect, Zenon
<1>2. CASE stopped' = "allocator" /\ UNCHANGED <<dbVars, txn, calls>>
  <2>1. Calling'
    BY <1>1, <1>2 DEF Calling, CallsTyped, LoadedTyped
  <2>2. UNCHANGED coreVars
    BY <1>1, <1>2 DEF coreVars, dbVars
  <2> QED  BY <2>1, <2>2, CoreUnchanged DEF FilesInv
<1>3. ASSUME NEW f \in File, NEW rest \in Seq(FileExtent),
             AllocatorTyped(extents', heap', missteps'),
             inodes' = PutInode(i, f),
             NumBlocksOf(f.extents) = BlocksFor(f.length),
             Starts(BlocksOf(f.extents), BlocksOf(inodes[i].extents)),
             txn' = Begin(t, "truncate", i, 0, rest),
             calls' = [calls EXCEPT ![t] = Call("truncate", i, offset, 0)],
             stopped' = stopped
      PROVE  FilesInv'
  <2>1. txn' \in Transaction /\ txn' # NoTxn /\ txn'.end = 0 /\ txn'.op = "truncate"
        /\ txn'.inode = i
    BY <1>3, Zenon DEF Begin, Transaction, NoTxn
  <2>2. FilesTyped(inodes, nextId) /\ Matching(inodes) /\ Matching(saved.inodes) /\ SavedTyped
    BY DEF Core
  <2>3. FilesTyped(inodes', nextId')
    <3>1. nextId \in nextId .. MaxInodes + 1 /\ i \in 1 .. nextId - 1
      BY <1>1, <2>2, FilesAssumption DEF FilesTyped
    <3> QED  BY <1>1, <1>3, <2>2, <3>1, PutInodeTyped, Zenon
  <2>4. Matching(inodes')
    BY <1>3, <2>2, PutInodeMatching, ZenonT(30)
  <2>5. SavedTyped'
    BY <1>1, <2>2 DEF SavedTyped, AllocatorTyped, FilesTyped
  <2>6. Reworked'
    <3>1. saved'.inodes = inodes
      BY <1>1, SettledFacts
    <3>2. /\ DOMAIN inodes' = DOMAIN inodes /\ inodes'[i] = f
          /\ \A j \in DOMAIN inodes : j # i => inodes'[j] = inodes[j]
      BY <1>1, <1>3, Zenon DEF PutInode
    <3> QED  BY <1>3, <2>1, <3>1, <3>2, Zenon DEF Reworked
  <2>7. TxnTyped' /\ Settled'
    BY <2>1 DEF TxnTyped, Settled
  <2>8. Core'
    BY <1>1, <1>3, <2>2, <2>3, <2>4, <2>5, <2>6, <2>7, Zenon DEF Core
  <2>9. CallsTyped'
    <3>1. i \in Nat /\ offset \in Nat /\ "truncate" \in CallOps
      BY FilesAssumption DEF Inodes, CallOps
    <3>2. Call("truncate", i, offset, 0) \in CallRecord
          /\ Call("truncate", i, offset, 0).length = 0
      BY <3>1, CallTyped
    <3> QED  BY <1>3, <3>2, CallStep DEF Calling
  <2> QED  BY <1>1, <1>3, <2>8, <2>9, ZenonT(30) DEF FilesInv, Calling, LoadedTyped
<1> HIDE DEF NumBlocksOf, BlocksFor, BlocksOf, Starts
<1> QED  BY <1>2, <1>3, TruncateDownEffect, ZenonT(30)

\* One round of the expansion loop keeps the invariant.
LEMMA ExpandStepKeeps ==
    ASSUME Core, Calling, ExpandStep
    PROVE  FilesInv'
<1> DEFINE i == txn.inode
<1>1. /\ txn \in Transaction /\ txn.op \in {"write", "truncate"} /\ txn.end # 0
      /\ i \in DOMAIN inodes
      /\ AllocatorTyped(extents', heap', missteps')
      /\ UNCHANGED <<nextId, txn, saved, calls, loaded, stopped>>
  BY ExpandEffect
<1>2. PICK f \in File :
        /\ inodes' = PutInode(i, f)
        /\ NumBlocksOf(f.extents) = BlocksFor(f.length)
        /\ Starts(BlocksOf(inodes[i].extents), BlocksOf(f.extents))
  BY ExpandEffect
<1>3. FilesTyped(inodes, nextId) /\ Matching(inodes) /\ Matching(saved.inodes) /\ SavedTyped
  BY DEF Core
<1>4. FilesTyped(inodes', nextId')
  <2>1. nextId \in nextId .. MaxInodes + 1 /\ i \in 1 .. nextId - 1
    BY <1>1, <1>3, FilesAssumption DEF FilesTyped
  <2> QED  BY <1>1, <1>2, <1>3, <2>1, PutInodeTyped
<1>5. Matching(inodes')
  BY <1>2, <1>3, PutInodeMatching
<1>6. SavedTyped'
  BY <1>1, <1>3 DEF SavedTyped, AllocatorTyped, FilesTyped
<1>7. Reworked'
  <2>1. /\ DOMAIN inodes' = DOMAIN inodes /\ inodes'[i] = f
        /\ \A j \in DOMAIN inodes : j # i => inodes'[j] = inodes[j]
    BY <1>1, <1>2 DEF PutInode
  <2>2. i \in DOMAIN saved.inodes
    BY <1>1 DEF Core, Reworked
  <2>3. /\ BlocksOf(saved.inodes[i].extents) \in Seq(Nat)
        /\ BlocksOf(inodes[i].extents) \in Seq(Nat) /\ BlocksOf(f.extents) \in Seq(Nat)
    BY <1>1, <1>3, <2>2, FilesFacts, FileFacts, RunsGrow DEF SavedTyped
  <2>4. \/ inodes[i] = saved.inodes[i]
        \/ Starts(BlocksOf(saved.inodes[i].extents), BlocksOf(inodes[i].extents))
    BY <1>1 DEF Core, Reworked
  <2>5. Starts(BlocksOf(saved.inodes[i].extents), BlocksOf(f.extents))
    BY <1>2, <2>3, <2>4, StartsTransitive
  <2>6. ASSUME NEW j \in DOMAIN inodes, j # i PROVE inodes'[j] = saved.inodes[j]
    BY <2>1, <2>6, ZenonT(30) DEF Core, Reworked
  <2>7. DOMAIN inodes = DOMAIN saved.inodes
    BY DEF Core, Reworked
  <2> QED  BY <1>1, <2>1, <2>5, <2>6, <2>7 DEF Reworked
<1>8. TxnTyped' /\ Settled'
  BY <1>1 DEF Core, TxnTyped, Settled, NoTxn
<1>9. Core'
  BY <1>1, <1>3, <1>4, <1>5, <1>6, <1>7, <1>8 DEF Core
<1> QED  BY <1>1, <1>9 DEF FilesInv, Calling, CallsTyped, LoadedTyped

\* mtl_truncate and mtl_unlink free one of the extents that they have taken
\* from a file.
LEMMA FreeStepKeeps ==
    ASSUME Core, Calling, FreeStep
    PROVE  FilesInv'
<1> DEFINE e == Head(txn.pending)
<1>1. txn # NoTxn /\ txn \in Transaction /\ txn.end = 0 /\ txn.pending # <<>>
  <2>1. NoTxn.pending = <<>>
    BY DEF NoTxn
  <2> QED  BY <2>1 DEF FreeStep, Core, TxnTyped
<1>2. UNCHANGED <<inodes, nextId, saved, calls, loaded>>
  BY DEF FreeStep
<1>3. /\ AllocatorTyped(extents', heap', missteps') /\ stopped' \in {stopped, "allocator"}
      /\ txn' = txn \/ txn' = [txn EXCEPT !.pending = Tail(@)]
  <2>1. CASE e.offset \in DOMAIN extents
    <3>1. /\ FreeExtent(extents, e.offset, missteps \cup Short(e)) /\ stopped' = stopped
          /\ txn' = [txn EXCEPT !.pending = Tail(@)]
      BY <2>1 DEF FreeStep
    <3>2. DbTyped
      BY DEF Core, AllocatorTyped, DbTyped
    <3>3. DbTyped'
      BY <2>1, <3>1, <3>2, FreeTyped, Zenon
    <3> QED  BY <3>1, <3>3 DEF AllocatorTyped, DbTyped
  <2>2. CASE e.offset \notin DOMAIN extents
    BY <2>2 DEF FreeStep, Core, AllocatorTyped
  <2> QED  BY <2>1, <2>2
<1>4. /\ txn' \in Transaction /\ txn'.end = 0 /\ txn'.op = txn.op /\ txn'.inode = txn.inode
      /\ txn' # NoTxn
  <2>1. Tail(txn.pending) \in Seq(FileExtent) /\ txn.op # "none"
    BY <1>1 DEF Transaction
  <2>2. CASE txn' = txn
    BY <1>1, <2>2
  <2>3. CASE txn' = [txn EXCEPT !.pending = Tail(@)]
    <3>1. /\ txn' \in Transaction /\ txn'.end = txn.end /\ txn'.op = txn.op
          /\ txn'.inode = txn.inode
      BY <1>1, <2>1, <2>3 DEF Transaction
    <3> QED  BY <1>1, <2>1, <3>1 DEF NoTxn
  <2> QED  BY <1>3, <2>2, <2>3
<1>5. TxnTyped' /\ Settled'
  BY <1>4 DEF TxnTyped, Settled
<1>6. Reworked'
  BY <1>1, <1>2, <1>4 DEF Core, Reworked
<1>7. Core'
  BY <1>2, <1>3, <1>5, <1>6
     DEF Core, AllocatorTyped, FilesTyped, SavedTyped, Matching
<1> QED  BY <1>2, <1>3, <1>7 DEF FilesInv, Calling, CallsTyped, LoadedTyped

----------------------------------------------------------------------------
(* The theorems about the files themselves. *)

\* The databases of a new storage.
LEMMA InitFilesInv == Init => FilesInv
<1> SUFFICES ASSUME Init PROVE FilesInv
  OBVIOUS
<1> DEFINE none == [o \in {} |-> NoExtent]
<1>1. TypedDb(none) /\ {} \in SUBSET Node
  BY DEF TypedDb
<1>2. TypedDb(InitializedExtents(none)) /\ InitializedHeap(none, {}) \in SUBSET Node
  <2> HIDE DEF none
  <2> QED  BY <1>1, InitializedTyped
<1>3. AllocatorTyped(extents, heap, missteps)
  BY <1>2 DEF Init, AllocatorTyped
<1>4. DOMAIN inodes = {} /\ inodes \in [{} -> File]
  BY DEF Init
<1>5. FilesTyped(inodes, nextId) /\ Matching(inodes)
  <2>1. nextId \in 1 .. MaxInodes + 1
    <3>1. nextId = 1
      BY DEF Init
    <3>2. MaxInodes \in Nat
      BY FilesAssumption
    <3> QED  BY <3>1, <3>2
  <2>2. FilesTyped(inodes, nextId)
    BY <1>4, <2>1 DEF FilesTyped
  <2>3. Matching(inodes)
    BY <1>4 DEF Matching
  <2> QED  BY <2>2, <2>3
<1>6. /\ saved = Snapshot /\ txn = NoTxn
      /\ saved.extents = extents /\ saved.heap = heap /\ saved.missteps = missteps
      /\ saved.inodes = inodes /\ saved.nextId = nextId
  BY DEF Init, Snapshot
<1>7. SavedTyped /\ Settled /\ TxnTyped /\ Reworked
  BY <1>3, <1>5, <1>6, Zenon DEF SavedTyped, Snapshot, Settled, TxnTyped, Reworked
<1>8. Core
  BY <1>3, <1>5, <1>6, <1>7 DEF Core
<1>9. Idle \in CallRecord /\ Idle.length = 0 /\ <<>> \in Seq(FileExtent)
  BY DEF Idle, CallRecord, CallOps
<1>10. CallsTyped
  BY <1>9 DEF Init, CallsTyped
<1>11. LoadedTyped
  BY <1>9 DEF Init, LoadedTyped, NoList
<1> QED  BY <1>8, <1>10, <1>11 DEF FilesInv, Calling, Init

\* The steps of the threads, of the transaction and of the process.
LEMMA NextCases ==
    ASSUME [Next]_vars
    PROVE  \/ UNCHANGED vars
           \/ \E t \in Threads, i \in Inodes :
                \/ Open(t, i)
                \/ \E offset \in Offsets, length \in Lengths : ReadBegin(t, i, offset, length)
                \/ FileGone(t, i)
           \/ \E t \in Threads : StorageAccess(t)
           \/ ExpandAborts
           \/ \E t \in Threads, i \in Inodes :
                \/ \E offset \in Offsets, length \in Lengths : WriteBegin(t, i, offset, length)
                \/ \E offset \in Offsets : TruncateUpBegin(t, i, offset)
                \/ UnlinkBegin(t, i)
           \/ \E t \in Threads : Create(t)
           \/ \E t \in Threads, i \in Inodes, offset \in Offsets : TruncateDownBegin(t, i, offset)
           \/ ExpandStep \/ FreeStep \/ Commit \/ Restart
BY DEF Next, Grows, Shrinks, Transact

\* Every step keeps the invariant.
LEMMA NextFilesInv == FilesInv /\ [Next]_vars => FilesInv'
<1> SUFFICES ASSUME FilesInv, [Next]_vars PROVE FilesInv'
  OBVIOUS
<1>0. Core /\ Calling
  BY DEF FilesInv
<1>1. CASE UNCHANGED vars
  <2>1. UNCHANGED coreVars /\ UNCHANGED <<calls, loaded, stopped>>
    BY <1>1 DEF vars, dbVars, coreVars
  <2>2. Calling'
    BY <1>0, <2>1 DEF Calling, CallsTyped, LoadedTyped
  <2> QED  BY <1>0, <2>1, <2>2, CoreUnchanged DEF FilesInv
<1>2. ASSUME NEW t \in Threads, NEW i \in Inodes,
             \/ Open(t, i)
             \/ \E offset \in Offsets, length \in Lengths : ReadBegin(t, i, offset, length)
             \/ FileGone(t, i)
      PROVE  FilesInv'
  BY <1>0, <1>2, ThreadsStep
<1>3. ASSUME NEW t \in Threads, StorageAccess(t) PROVE FilesInv'
  BY <1>0, <1>3, StorageStep
<1>4. CASE ExpandAborts
  BY <1>0, <1>4, AbortStep
<1>5. ASSUME NEW t \in Threads, NEW i \in Inodes,
             \/ \E offset \in Offsets, length \in Lengths : WriteBegin(t, i, offset, length)
             \/ \E offset \in Offsets : TruncateUpBegin(t, i, offset)
             \/ UnlinkBegin(t, i)
      PROVE  FilesInv'
  BY <1>0, <1>5, BeginStep
<1>6. ASSUME NEW t \in Threads, Create(t) PROVE FilesInv'
  BY <1>0, <1>6, CreateStep
<1>7. ASSUME NEW t \in Threads, NEW i \in Inodes, NEW offset \in Offsets,
             TruncateDownBegin(t, i, offset)
      PROVE  FilesInv'
  BY <1>0, <1>7, TruncateDownStep
<1>8. CASE ExpandStep
  BY <1>0, <1>8, ExpandStepKeeps
<1>9. CASE FreeStep
  BY <1>0, <1>9, FreeStepKeeps
<1>10. CASE Commit
  BY <1>0, <1>10, CommitStep
<1>11. CASE Restart
  BY <1>0, <1>11, RestartStep
<1> QED  BY <1>1, <1>2, <1>3, <1>4, <1>5, <1>6, <1>7, <1>8, <1>9, <1>10, <1>11, NextCases

\* The invariant holds in every reachable state.
LEMMA FilesInvariance == Spec => []FilesInv
BY InitFilesInv, NextFilesInv, PTL DEF Spec

(* The inodes hold lists of extents with a length, for any device, any     *)
(* number of threads and any calls, also after the allocator has lost      *)
(* track; mtl_read never asks the storage for more than it was asked for.  *)
THEOREM TypeCorrect == Spec => []TypeOK
<1>1. ASSUME FilesInv PROVE TypeOK
  <2>1. \A i \in DOMAIN inodes : i \in Inodes /\ inodes[i] \in File
    BY <1>1, FilesFacts DEF FilesInv, Core
  <2>2. \A i \in DOMAIN saved.inodes : i \in Inodes /\ saved.inodes[i] \in File
    BY <1>1, FilesFacts DEF FilesInv, Core, SavedTyped
  <2>3. nextId \in 1 .. MaxInodes + 1
    BY <1>1 DEF FilesInv, Core, FilesTyped
  <2>4. txn = NoTxn \/ (txn.thread \in Threads /\ txn.pending \in Seq(FileExtent))
    BY <1>1 DEF FilesInv, Core, TxnTyped, Transaction
  <2>5. loaded.thread \in Threads \cup {0} /\ loaded.list \in Seq(FileExtent)
    BY <1>1 DEF FilesInv, Calling, LoadedTyped
  <2> QED  BY <1>1, <2>1, <2>2, <2>3, <2>4, <2>5 DEF TypeOK, FilesInv, Calling, CallsTyped
<1> QED  BY <1>1, FilesInvariance, PTL

(* A file has the blocks of its length and no others at every moment: in   *)
(* the middle of mtl_expand_inode, after mtl_truncate_inode, and when a    *)
(* restart finds what was committed.                                       *)
THEOREM LengthsMatch == Spec => []BlocksMatchLength
<1>1. FilesInv => BlocksMatchLength
  BY DEF FilesInv, Core, Matching, BlocksMatchLength
<1> QED  BY <1>1, FilesInvariance, PTL

(* What a step makes of a file that it does not delete. *)
LEMMA StepKeepsBlocks ==
    ASSUME FilesInv, [Next]_vars, NEW i \in DOMAIN inodes, i \in DOMAIN inodes'
    PROVE  \/ inodes'[i] = inodes[i]
           \/ Starts(BlocksOf(inodes[i].extents), BlocksOf(inodes'[i].extents))
           \/ Starts(BlocksOf(inodes'[i].extents), BlocksOf(inodes[i].extents))
<1>0. Core
  BY DEF FilesInv
<1>1. CASE inodes' = inodes
  BY <1>1
<1>2. ASSUME NEW t \in Threads, Create(t) PROVE inodes'[i] = inodes[i]
  <2>1. nextId \notin DOMAIN inodes
    BY <1>0 DEF Core, FilesTyped
  <2> QED  BY <1>2, <2>1 DEF Create, PutInode
<1>3. ASSUME NEW t \in Threads, NEW j \in Inodes, NEW offset \in Offsets,
             TruncateDownBegin(t, j, offset)
      PROVE  \/ inodes'[i] = inodes[i]
             \/ Starts(BlocksOf(inodes'[i].extents), BlocksOf(inodes[i].extents))
  <2>1. CASE inodes' = inodes
    BY <2>1
  <2>2. ASSUME NEW f \in File, inodes' = PutInode(j, f),
               Starts(BlocksOf(f.extents), BlocksOf(inodes[j].extents))
        PROVE  \/ inodes'[i] = inodes[i]
               \/ Starts(BlocksOf(inodes'[i].extents), BlocksOf(inodes[i].extents))
    <3>1. inodes'[i] = IF i = j THEN f ELSE inodes[i]
      BY <2>2 DEF PutInode
    <3> QED  BY <2>2, <3>1
  <2> HIDE DEF Starts, BlocksOf
  <2> QED  BY <1>0, <1>3, <2>1, <2>2, TruncateDownEffect, Zenon DEF dbVars
<1>4. CASE ExpandStep
  <2>1. PICK f \in File : /\ inodes' = PutInode(txn.inode, f)
                          /\ Starts(BlocksOf(inodes[txn.inode].extents), BlocksOf(f.extents))
    BY <1>0, <1>4, ExpandEffect
  <2>2. inodes'[i] = IF i = txn.inode THEN f ELSE inodes[i]
    BY <2>1 DEF PutInode
  <2> QED  BY <2>1, <2>2
<1>5. CASE Commit
  BY <1>5 DEF Commit
<1>6. CASE Restart
  BY <1>0, <1>6 DEF Restart, Core, Reworked
<1>7. CASE \/ UNCHANGED vars
           \/ \E t \in Threads, j \in Inodes :
                \/ Open(t, j)
                \/ \E offset \in Offsets, length \in Lengths : ReadBegin(t, j, offset, length)
                \/ FileGone(t, j)
                \/ \E offset \in Offsets, length \in Lengths : WriteBegin(t, j, offset, length)
                \/ \E offset \in Offsets : TruncateUpBegin(t, j, offset)
                \/ UnlinkBegin(t, j)
           \/ \E t \in Threads : StorageAccess(t)
           \/ ExpandAborts \/ FreeStep
  <2>1. ASSUME NEW t \in Threads, NEW j \in Inodes, NEW offset \in Offsets,
               NEW length \in Lengths
        PROVE  ReadBegin(t, j, offset, length) \/ WriteBegin(t, j, offset, length)
                 => inodes' = inodes
    BY DEF dbVars, ReadBegin, WriteBegin
  <2>2. ASSUME NEW t \in Threads, NEW j \in Inodes, NEW offset \in Offsets
        PROVE  TruncateUpBegin(t, j, offset) => inodes' = inodes
    BY DEF dbVars, TruncateUpBegin
  <2>3. ASSUME NEW t \in Threads, NEW j \in Inodes
        PROVE  Open(t, j) \/ FileGone(t, j) \/ UnlinkBegin(t, j) => inodes' = inodes
    BY DEF dbVars, Open, FileGone, UnlinkBegin
  <2>4. ASSUME NEW t \in Threads PROVE StorageAccess(t) => inodes' = inodes
    BY DEF dbVars, StorageAccess, StorageLoad, StorageWalk
  <2>5. ExpandAborts \/ FreeStep \/ UNCHANGED vars => inodes' = inodes
    BY DEF dbVars, vars, ExpandAborts, FreeStep
  <2> QED  BY <1>1, <1>7, <2>1, <2>2, <2>3, <2>4, <2>5
<1> HIDE DEF Starts, BlocksOf
<1> QED  BY <1>2, <1>3, <1>4, <1>5, <1>6, <1>7, NextCases, Zenon

(* No step moves a block of a file, whichever files grow, are cut or are   *)
(* deleted meanwhile, and whatever the allocator makes of the extents.     *)
THEOREM BlocksStay == Spec => LogicalBlocksStay
<1> DEFINE Stay ==
             \A i \in DOMAIN inodes \cap DOMAIN inodes' :
               LET old == BlocksOf(inodes[i].extents)
                   new == BlocksOf(inodes'[i].extents)
               IN  \A j \in DOMAIN old \cap DOMAIN new : old[j] = new[j]
<1>1. ASSUME FilesInv, FilesInv', [Next]_vars, NEW i \in DOMAIN inodes \cap DOMAIN inodes'
      PROVE  LET old == BlocksOf(inodes[i].extents)
                 new == BlocksOf(inodes'[i].extents)
             IN  \A j \in DOMAIN old \cap DOMAIN new : old[j] = new[j]
  <2> DEFINE old == BlocksOf(inodes[i].extents)
             new == BlocksOf(inodes'[i].extents)
  <2>1. old = new \/ Starts(old, new) \/ Starts(new, old)
    <3>1. \/ inodes'[i] = inodes[i]
          \/ Starts(BlocksOf(inodes[i].extents), BlocksOf(inodes'[i].extents))
          \/ Starts(BlocksOf(inodes'[i].extents), BlocksOf(inodes[i].extents))
      BY <1>1, StepKeepsBlocks
    <3> HIDE DEF BlocksOf
    <3> QED  BY <3>1
  <2>2. old \in Seq(Nat) /\ new \in Seq(Nat)
    <3>1. inodes[i].extents \in Seq(FileExtent)
      BY <1>1, FilesFacts DEF FilesInv, Core
    <3>2. inodes'[i].extents \in Seq(FileExtent)
      <4>1. FilesTyped(inodes', nextId')
        BY <1>1 DEF FilesInv, Core
      <4> QED  BY <1>1, <4>1, FilesFacts
    <3> QED  BY <3>1, <3>2, RunsGrow
  <2> HIDE DEF old, new
  <2>3. \A j \in DOMAIN old \cap DOMAIN new : old[j] = new[j]
    BY <2>1, <2>2 DEF Starts
  <2> QED  BY <2>3 DEF old, new
<1>2. FilesInv /\ FilesInv' /\ [Next]_vars => [Stay]_vars
  BY <1>1
<1>3. Spec => [][Stay]_vars
  BY <1>2, FilesInvariance, PTL DEF Spec
<1> QED  BY <1>3 DEF LogicalBlocksStay

----------------------------------------------------------------------------
(* The lists of extents: those of the files, and as list 0 what is still   *)
(* to be freed.  A file that mtl_unlink is freeing has its list there.     *)

ListsOf(files, gone, pending) ==
    [i \in {0} \cup (DOMAIN files \ gone) |-> IF i = 0 THEN pending ELSE files[i].extents]

AllOf(lists) == UNION {Listed(lists[i]) : i \in DOMAIN lists}

ListsTyped(lists) == \A i \in DOMAIN lists : lists[i] \in Seq(FileExtent)

\* no two entries begin at the same block
Once(lists) ==
    \A i, j \in DOMAIN lists : \A k \in DOMAIN lists[i], l \in DOMAIN lists[j] :
        lists[i][k].offset = lists[j][l].offset => i = j /\ k = l

\* An extent is listed where it stands in a list.
LEMMA AllOfFacts ==
    ASSUME NEW lists
    PROVE  \A e : e \in AllOf(lists) <=>
                    \E i \in DOMAIN lists : \E k \in DOMAIN lists[i] : e = lists[i][k]
BY DEF AllOf, Listed

\* list i with another entry, which begins where no listed one does
AppendedAt(new, lists, i, e) ==
    /\ DOMAIN new = DOMAIN lists
    /\ i \in DOMAIN lists
    /\ new[i] = Append(lists[i], e)
    /\ \A j \in DOMAIN lists : j # i => new[j] = lists[j]
    /\ e \in FileExtent
    /\ \A a \in AllOf(lists) : a.offset # e.offset

Added(new, lists, e) ==
    /\ Once(new)
    /\ AllOf(new) = AllOf(lists) \cup {e}

\* An extent that begins where no listed one does is appended.
LEMMA AppendListed ==
    ASSUME NEW lists, ListsTyped(lists), Once(lists), NEW i, NEW e, NEW new,
           AppendedAt(new, lists, i, e)
    PROVE  Added(new, lists, e)
<1> USE DEF AppendedAt
<1> DEFINE n == Len(lists[i])
<1>1. /\ n \in Nat /\ DOMAIN lists[i] = 1 .. n /\ DOMAIN new[i] = 1 .. n + 1
      /\ new[i][n + 1] = e /\ \A k \in 1 .. n : new[i][k] = lists[i][k]
  BY DEF ListsTyped
<1>2. \A j \in DOMAIN lists : \A k \in DOMAIN lists[j] : lists[j][k].offset # e.offset
  BY AllOfFacts
<1> HIDE DEF n
<1>3. ASSUME NEW j \in DOMAIN new, NEW k \in DOMAIN new[j]
      PROVE  \/ j = i /\ k = n + 1 /\ new[j][k] = e
             \/ k \in DOMAIN lists[j] /\ new[j][k] = lists[j][k]
  BY <1>1, <1>3
<1>4. ASSUME NEW j \in DOMAIN lists, NEW k \in DOMAIN lists[j]
      PROVE  k \in DOMAIN new[j] /\ new[j][k] = lists[j][k]
  BY <1>1
<1>5. Once(new)
  BY <1>2, <1>3 DEF Once
<1>6. AllOf(new) \subseteq AllOf(lists) \cup {e}
  BY <1>3, AllOfFacts
<1>7. e \in AllOf(new)
  BY <1>1, AllOfFacts
<1>8. AllOf(lists) \subseteq AllOf(new)
  BY <1>4, AllOfFacts
<1> QED  BY <1>5, <1>6, <1>7, <1>8 DEF Added

\* list i without its entries from k on, and list 0 with those behind k
CutAt(new, lists, i, k) ==
    /\ DOMAIN new = DOMAIN lists
    /\ new[i] = SubSeq(lists[i], 1, k - 1)
    /\ new[0] = SubSeq(lists[i], k + 1, Len(lists[i]))
    /\ \A j \in DOMAIN lists : j # i /\ j # 0 => new[j] = lists[j]

\* Entry k of list i goes, and what comes behind it moves to list 0.
LEMMA DropListed ==
    ASSUME NEW lists, ListsTyped(lists), Once(lists), NEW i \in DOMAIN lists, i # 0,
           NEW k \in DOMAIN lists[i], 0 \in DOMAIN lists, lists[0] = <<>>,
           NEW new, CutAt(new, lists, i, k)
    PROVE  Once(new) /\ AllOf(new) = AllOf(lists) \ {lists[i][k]} /\ ListsTyped(new)
<1> USE DEF CutAt
<1> DEFINE list == lists[i]
           n == Len(list)
<1>0. list \in Seq(FileExtent) /\ k \in 1 .. n /\ n \in Nat /\ DOMAIN list = 1 .. n
  BY DEF ListsTyped
<1>1. /\ new[i] \in Seq(FileExtent) /\ DOMAIN new[i] = 1 .. k - 1
      /\ \A l \in 1 .. k - 1 : new[i][l] = list[l]
  BY <1>0
<1>2. /\ new[0] \in Seq(FileExtent) /\ DOMAIN new[0] = 1 .. n - k
      /\ \A l \in 1 .. n - k : new[0][l] = list[k + l]
  BY <1>0
<1> HIDE DEF n
<1>4. ASSUME NEW j \in DOMAIN lists, NEW l \in DOMAIN lists[j], j # i \/ l # k
      PROVE  lists[j][l] \in AllOf(new)
  <2>1. CASE j = i /\ l < k
    <3>1. l \in DOMAIN new[i] /\ new[i][l] = lists[j][l]
      BY <1>0, <1>1, <2>1
    <3> QED  BY <3>1, AllOfFacts
  <2>2. CASE j = i /\ l > k
    <3>1. l - k \in DOMAIN new[0] /\ new[0][l - k] = lists[j][l]
      BY <1>0, <1>2, <2>2
    <3> QED  BY <3>1, AllOfFacts, Zenon
  <2>3. CASE j # i
    <3>1. j # 0 /\ new[j] = lists[j]
      BY <2>3
    <3> QED  BY <3>1, AllOfFacts
  <2> QED  BY <1>0, <1>4, <2>1, <2>2, <2>3
<1> DEFINE from(j) == IF j = 0 THEN i ELSE j
           at(j, l) == IF j = 0 THEN k + l ELSE l
<1>5. ASSUME NEW j \in DOMAIN new, NEW l \in DOMAIN new[j]
      PROVE  /\ from(j) \in DOMAIN lists /\ at(j, l) \in DOMAIN lists[from(j)]
             /\ new[j][l] = lists[from(j)][at(j, l)]
             /\ from(j) # i \/ at(j, l) # k
             /\ j = i => l < k
             /\ j = 0 => l \in Nat /\ l > 0
  <2>1. CASE j = 0
    <3>1. l \in 1 .. n - k /\ new[j][l] = list[k + l] /\ from(j) = i /\ at(j, l) = k + l
      BY <1>2, <1>5, <2>1, Zenon
    <3> QED  BY <1>0, <2>1, <3>1
  <2>2. CASE j = i
    <3>1. l \in 1 .. k - 1 /\ new[j][l] = list[l] /\ from(j) = i /\ at(j, l) = l
      BY <1>1, <1>5, <2>2
    <3> QED  BY <1>0, <2>2, <3>1
  <2>3. CASE j # i /\ j # 0
    <3>1. new[j] = lists[j] /\ from(j) = j /\ at(j, l) = l
      BY <1>5, <2>3
    <3> QED  BY <1>5, <2>3, <3>1
  <2> QED  BY <2>1, <2>2, <2>3
<1>6. ASSUME NEW j \in DOMAIN new, NEW l \in DOMAIN new[j]
      PROVE  new[j][l] \in AllOf(lists) /\ new[j][l].offset # list[k].offset
  <2> DEFINE m == from(j)
             q == at(j, l)
  <2>1. /\ m \in DOMAIN lists /\ q \in DOMAIN lists[m] /\ new[j][l] = lists[m][q]
        /\ m # i \/ q # k
    BY <1>5, <1>6
  <2> HIDE DEF m, q
  <2>2. lists[m][q].offset # list[k].offset
    BY <2>1 DEF Once
  <2> QED  BY <2>1, <2>2, AllOfFacts
<1>10. Once(new)
  <2> SUFFICES ASSUME NEW j \in DOMAIN new, NEW m \in DOMAIN new, NEW l \in DOMAIN new[j],
                      NEW q \in DOMAIN new[m], new[j][l].offset = new[m][q].offset
               PROVE  j = m /\ l = q
    BY DEF Once
  <2>1. from(j) = from(m) /\ at(j, l) = at(m, q)
    <3> DEFINE a == from(j)
               b == from(m)
               c == at(j, l)
               d == at(m, q)
    <3>1. /\ a \in DOMAIN lists /\ b \in DOMAIN lists /\ c \in DOMAIN lists[a]
          /\ d \in DOMAIN lists[b] /\ lists[a][c].offset = lists[b][d].offset
      BY <1>5
    <3> HIDE DEF a, b, c, d
    <3>2. a = b /\ c = d
      BY <3>1 DEF Once
    <3> QED  BY <3>2 DEF a, b, c, d
  <2>2. /\ j = i => l < k /\ l \in 1 .. n
        /\ j = 0 => l \in Nat /\ l > 0
        /\ m = i => q < k /\ q \in 1 .. n
        /\ m = 0 => q \in Nat /\ q > 0
    BY <1>0, <1>1, <1>2, <1>5
  <2> QED  BY <1>0, <2>1, <2>2
<1>7. AllOf(new) \subseteq AllOf(lists) \ {list[k]}
  BY <1>6, AllOfFacts
<1>8. AllOf(lists) \ {list[k]} \subseteq AllOf(new)
  BY <1>4, AllOfFacts
<1>9. ListsTyped(new)
  BY <1>1, <1>2, Zenon DEF ListsTyped
<1> QED  BY <1>7, <1>8, <1>9, <1>10

\* list i without its entries behind k, the last one being f, and list 0 with
\* those behind k
ShrunkAt(new, lists, i, k, f) ==
    /\ DOMAIN new = DOMAIN lists
    /\ new[i] = Append(SubSeq(lists[i], 1, k - 1), f)
    /\ new[0] = SubSeq(lists[i], k + 1, Len(lists[i]))
    /\ \A j \in DOMAIN lists : j # i /\ j # 0 => new[j] = lists[j]
    /\ f \in FileExtent /\ f.offset = lists[i][k].offset

\* an entry of a list other than list 0, which is empty
EntryOf(lists, i, k) ==
    /\ ListsTyped(lists) /\ Once(lists)
    /\ i \in DOMAIN lists /\ i # 0 /\ k \in DOMAIN lists[i]
    /\ 0 \in DOMAIN lists /\ lists[0] = <<>>

Replaced(new, lists, e, f) ==
    /\ Once(new)
    /\ AllOf(new) = (AllOf(lists) \ {e}) \cup {f}

\* Entry k of list i changes its length, and what comes behind it moves to
\* list 0.
LEMMA CutListed ==
    ASSUME NEW lists, NEW i, NEW k, EntryOf(lists, i, k), NEW f, NEW new,
           ShrunkAt(new, lists, i, k, f)
    PROVE  Replaced(new, lists, lists[i][k], f)
<1> USE DEF ShrunkAt, EntryOf
<1> DEFINE kept == SubSeq(lists[i], 1, k - 1)
           mid == [j \in DOMAIN lists |-> IF j = i THEN kept ELSE new[j]]
<1>0. CutAt(mid, lists, i, k)
  BY DEF CutAt
<1>1. /\ DOMAIN mid = DOMAIN lists /\ mid[i] = kept /\ mid[0] = new[0]
      /\ \A j \in DOMAIN lists : j # i => mid[j] = new[j]
  OBVIOUS
<1> HIDE DEF mid
<1>2. Once(mid) /\ AllOf(mid) = AllOf(lists) \ {lists[i][k]} /\ ListsTyped(mid)
  BY <1>0, DropListed
<1>3. ASSUME NEW a \in AllOf(mid) PROVE a.offset # f.offset
  <2>1. a \in AllOf(lists) /\ a # lists[i][k]
    BY <1>2
  <2>2. PICK j \in DOMAIN lists : \E l \in DOMAIN lists[j] : a = lists[j][l]
    BY <2>1, AllOfFacts
  <2>3. PICK l \in DOMAIN lists[j] : a = lists[j][l]
    BY <2>2
  <2> QED  BY <2>1, <2>3 DEF Once
<1> HIDE DEF kept
<1>4. Added(new, mid, f)
  <2>1. AppendedAt(new, mid, i, f)
    BY <1>1, <1>3 DEF kept, AppendedAt
  <2> QED  BY <1>2, <2>1, AppendListed
<1> QED  BY <1>2, <1>4 DEF Replaced, Added

\* The first entry of list 0 goes.
LEMMA HeadDropped ==
    ASSUME NEW lists, ListsTyped(lists), Once(lists), 0 \in DOMAIN lists, lists[0] # <<>>,
           NEW new, DOMAIN new = DOMAIN lists, new[0] = Tail(lists[0]),
           \A j \in DOMAIN lists : j # 0 => new[j] = lists[j]
    PROVE  Once(new) /\ AllOf(new) = AllOf(lists) \ {Head(lists[0])}
<1> DEFINE list == lists[0]
           n == Len(list)
<1>1. /\ list \in Seq(FileExtent) /\ n \in Nat /\ n > 0 /\ DOMAIN list = 1 .. n
      /\ Head(list) = list[1]
  BY DEF ListsTyped
<1>2. /\ DOMAIN new[0] = 1 .. n - 1
      /\ \A l \in 1 .. n - 1 : new[0][l] = list[l + 1]
  BY <1>1
<1> HIDE DEF n
<1>3. ASSUME NEW j \in DOMAIN new, NEW l \in DOMAIN new[j]
      PROVE  \/ j = 0 /\ l + 1 \in 1 .. n /\ l \in Nat /\ l > 0 /\ new[j][l] = list[l + 1]
             \/ j # 0 /\ l \in DOMAIN lists[j] /\ new[j][l] = lists[j][l]
  BY <1>1, <1>2
<1>4. ASSUME NEW j \in DOMAIN lists, NEW l \in DOMAIN lists[j], j # 0 \/ l # 1
      PROVE  lists[j][l] \in AllOf(new)
  <2>1. CASE j = 0
    <3>1. l - 1 \in DOMAIN new[0] /\ new[0][l - 1] = lists[j][l]
      BY <1>1, <1>2, <1>4, <2>1
    <3> QED  BY <3>1, AllOfFacts
  <2>2. CASE j # 0
    BY <2>2, AllOfFacts
  <2> QED  BY <2>1, <2>2
<1>5. Once(new)
  <2> SUFFICES ASSUME NEW j \in DOMAIN new, NEW m \in DOMAIN new, NEW l \in DOMAIN new[j],
                      NEW q \in DOMAIN new[m], new[j][l].offset = new[m][q].offset
               PROVE  j = m /\ l = q
    BY DEF Once
  <2> DEFINE c == IF j = 0 THEN l + 1 ELSE l
             d == IF m = 0 THEN q + 1 ELSE q
  <2>1. /\ c \in DOMAIN lists[j] /\ lists[j][c] = new[j][l]
        /\ d \in DOMAIN lists[m] /\ lists[m][d] = new[m][q]
    BY <1>1, <1>3
  <2>2. j = m /\ c = d
    <3> HIDE DEF c, d
    <3> QED  BY <2>1 DEF Once
  <2>3. (j = 0 => l \in Nat) /\ (m = 0 => q \in Nat)
    BY <1>3
  <2> QED  BY <2>2, <2>3
<1>6. ASSUME NEW j \in DOMAIN new, NEW l \in DOMAIN new[j]
      PROVE  new[j][l] \in AllOf(lists) /\ new[j][l].offset # list[1].offset
  <2>1. PICK m \in DOMAIN lists : \E q \in DOMAIN lists[m] :
          new[j][l] = lists[m][q] /\ (m # 0 \/ q # 1)
    BY <1>1, <1>3
  <2>2. PICK q \in DOMAIN lists[m] : new[j][l] = lists[m][q] /\ (m # 0 \/ q # 1)
    BY <2>1
  <2>3. lists[m][q].offset # list[1].offset
    BY <1>1, <2>2 DEF Once
  <2> QED  BY <2>2, <2>3, AllOfFacts
<1>7. AllOf(new) \subseteq AllOf(lists) \ {list[1]}
  BY <1>6, AllOfFacts
<1>8. AllOf(lists) \ {list[1]} \subseteq AllOf(new)
  BY <1>4, AllOfFacts
<1> QED  BY <1>1, <1>5, <1>7, <1>8

\* The list of a file that is to be removed moves to list 0.
LEMMA ListMoved ==
    ASSUME NEW lists, Once(lists), NEW i \in DOMAIN lists, i # 0,
           0 \in DOMAIN lists, lists[0] = <<>>,
           NEW new, DOMAIN new = DOMAIN lists \ {i}, new[0] = lists[i],
           \A j \in DOMAIN new : j # 0 => new[j] = lists[j]
    PROVE  Once(new) /\ AllOf(new) = AllOf(lists)
<1>1. ASSUME NEW j \in DOMAIN new, NEW l \in DOMAIN new[j]
      PROVE  \/ j = 0 /\ l \in DOMAIN lists[i] /\ new[j][l] = lists[i][l]
             \/ j # 0 /\ j # i /\ j \in DOMAIN lists /\ l \in DOMAIN lists[j]
                /\ new[j][l] = lists[j][l]
  BY <1>1
<1>2. Once(new)
  BY <1>1 DEF Once
<1>3. ASSUME NEW j \in DOMAIN lists, NEW l \in DOMAIN lists[j]
      PROVE  lists[j][l] \in AllOf(new)
  <2>1. CASE j = i
    <3>1. 0 \in DOMAIN new /\ l \in DOMAIN new[0] /\ new[0][l] = lists[j][l]
      BY <1>3, <2>1
    <3> QED  BY <3>1, AllOfFacts
  <2>2. CASE j # i
    <3>1. j # 0
      BY <1>3
    <3>2. j \in DOMAIN new /\ new[j] = lists[j]
      BY <2>2, <3>1
    <3> QED  BY <3>2, AllOfFacts
  <2> QED  BY <2>1, <2>2
<1>4. AllOf(new) \subseteq AllOf(lists)
  BY <1>1, AllOfFacts
<1>5. AllOf(lists) \subseteq AllOf(new)
  BY <1>3, AllOfFacts
<1> QED  BY <1>2, <1>4, <1>5

\* An empty list comes or goes.
LEMMA EmptyListed ==
    ASSUME NEW lists, Once(lists), NEW i, i \in DOMAIN lists => lists[i] = <<>>,
           NEW new, DOMAIN new \ {i} = DOMAIN lists \ {i},
           i \in DOMAIN new => new[i] = <<>>,
           \A j \in DOMAIN new : j # i => new[j] = lists[j]
    PROVE  Once(new) /\ AllOf(new) = AllOf(lists)
<1>1. ASSUME NEW j \in DOMAIN new, NEW l \in DOMAIN new[j]
      PROVE  j \in DOMAIN lists /\ l \in DOMAIN lists[j] /\ new[j][l] = lists[j][l]
  <2>1. j # i
    BY <1>1
  <2> QED  BY <1>1, <2>1
<1>2. ASSUME NEW j \in DOMAIN lists, NEW l \in DOMAIN lists[j]
      PROVE  j \in DOMAIN new /\ l \in DOMAIN new[j] /\ new[j][l] = lists[j][l]
  <2>1. j # i
    BY <1>2
  <2> QED  BY <1>2, <2>1
<1>3. Once(new)
  BY <1>1 DEF Once
<1>4. AllOf(new) \subseteq AllOf(lists)
  BY <1>1, AllOfFacts
<1>5. AllOf(lists) \subseteq AllOf(new)
  BY <1>2, AllOfFacts
<1> QED  BY <1>3, <1>4, <1>5, Zenon

\* What the lists hold.
LEMMA ListsHold ==
    ASSUME NEW files, NEW lists, DOMAIN lists = {0} \cup DOMAIN files,
           \A i \in DOMAIN files : i # 0 /\ lists[i] = files[i].extents
    PROVE  AllOf(lists) = Listed(lists[0]) \cup ListedIn(files)
BY DEF AllOf, ListedIn

----------------------------------------------------------------------------
(* Files that only grow. *)

\* the transaction has at most appended to the committed lists
Appended ==
    \A i \in DOMAIN inodes :
        \/ inodes[i] = saved.inodes[i]
        \/ Starts(BlocksOf(saved.inodes[i].extents), BlocksOf(inodes[i].extents))

\* mtl_write expands the file that its caller is going to write to
Serving ==
    /\ txn.op # "unlink" /\ txn.pending = <<>>
    /\ txn.op = "write" =>
         LET call == calls[txn.thread]
         IN  call.op = "write" /\ call.inode = txn.inode /\ call.offset + call.length = txn.end

\* a file that has been opened is there
Present == \A t \in Threads : calls[t].op # "idle" => calls[t].inode \in DOMAIN saved.inodes

Covered(call) ==
    call.op \in {"storage_write", "storage_read"} =>
        Covers(saved.inodes[call.inode].extents, call)

GrowInv ==
    /\ Core /\ Calling /\ Appended /\ Serving /\ Present
    /\ \A t \in Threads : Covered(calls[t])

\* Bytes within the blocks that they need.
LEMMA BytesCovered ==
    ASSUME NEW x \in Nat, NEW n \in Nat, BlocksFor(x) <= n
    PROVE  x <= n * BlockSize
<1> DEFINE b == BlocksFor(x)
           B == BlockSize
<1>1. b \in Nat /\ x <= b * B /\ B \in Nat \ {0}
  BY BlocksForFacts, FilesAssumption
<1> HIDE DEF b, B
<1>2. CASE b = n
  BY <1>1, <1>2 DEF B
<1>3. CASE b < n
  <2>1. B * b + B <= B * n
    BY <1>1, <1>3, TimesLess
  <2>2. B * b = b * B /\ B * n = n * B /\ b * B \in Nat /\ n * B \in Nat
    BY <1>1
  <2> QED  BY <1>1, <2>1, <2>2 DEF B
<1> QED  BY <1>1, <1>2, <1>3 DEF b

\* No committed file gets shorter, and none disappears.
Larger ==
    /\ DOMAIN saved.inodes \subseteq DOMAIN saved'.inodes
    /\ \A i \in DOMAIN saved.inodes :
         NumBlocksOf(saved.inodes[i].extents) <= NumBlocksOf(saved'.inodes[i].extents)

\* What is covered stays covered.
LEMMA CoverStays ==
    ASSUME SavedTyped, SavedTyped', Larger, NEW c \in CallRecord,
           c.op # "idle" => c.inode \in DOMAIN saved.inodes, Covered(c)
    PROVE  /\ c.op # "idle" => c.inode \in DOMAIN saved'.inodes
           /\ Covered(c)'
<1>1. c.op # "idle" => c.inode \in DOMAIN saved'.inodes
  BY DEF Larger
<1>2. ASSUME c.op \in {"storage_write", "storage_read"}
      PROVE  Covers(saved'.inodes[c.inode].extents, c)
  <2> DEFINE i == c.inode
             a == NumBlocksOf(saved.inodes[i].extents)
             b == NumBlocksOf(saved'.inodes[i].extents)
             B == BlockSize
  <2>1. i \in DOMAIN saved.inodes /\ i \in DOMAIN saved'.inodes /\ a <= b
    BY <1>2 DEF Larger
  <2>2. a \in Nat
    <3>1. saved.inodes[i].extents \in Seq(FileExtent)
      BY <2>1, FilesFacts DEF SavedTyped
    <3> QED  BY <3>1, SumNat
  <2>3. b \in Nat
    <3>1. FilesTyped(saved'.inodes, saved'.nextId)
      BY DEF SavedTyped
    <3>2. saved'.inodes[i].extents \in Seq(FileExtent)
      BY <2>1, <3>1, FilesFacts
    <3> QED  BY <3>2, SumNat
  <2>4. c.offset + c.length <= a * B /\ c.offset + c.length \in Nat
    BY <1>2 DEF Covered, Covers, CallRecord
  <2>5. B \in Nat \ {0}
    BY FilesAssumption
  <2> HIDE DEF a, b, B
  <2>6. a * B <= b * B /\ a * B \in Nat /\ b * B \in Nat
    <3>1. CASE a = b
      BY <2>2, <2>5, <3>1
    <3>2. CASE a < b
      <4>1. B * a + B <= B * b
        BY <2>2, <2>3, <2>5, <3>2, TimesLess
      <4>2. B * a = a * B /\ B * b = b * B /\ a * B \in Nat /\ b * B \in Nat
        BY <2>2, <2>3, <2>5
      <4> QED  BY <2>5, <4>1, <4>2
    <3> QED  BY <2>1, <2>2, <2>3, <3>1, <3>2
  <2>7. c.offset + c.length <= b * B
    BY <2>4, <2>6
  <2> QED  BY <2>7 DEF Covers, b, B
<1> QED  BY <1>1, <1>2 DEF Covered

GrowCalls == Serving /\ Present /\ \A t \in Threads : Covered(calls[t])

\* A thread goes on with its call, or begins one, and the files stay as they
\* are.
LEMMA CallGrows ==
    ASSUME Core, Calling, GrowCalls, NEW t \in Threads, NEW c,
           calls' = [calls EXCEPT ![t] = c], saved' = saved,
           c.op # "idle" => c.inode \in DOMAIN saved.inodes, Covered(c)
    PROVE  /\ Present' /\ \A u \in Threads : Covered(calls[u])'
           /\ txn' = txn /\ (calls[t].op # "write" \/ txn = NoTxn) => Serving'
<1>1. /\ calls \in [Threads -> CallRecord] /\ calls'[t] = c
      /\ \A u \in Threads : u # t => calls'[u] = calls[u]
  BY DEF Calling, CallsTyped
<1>2. Present'
  BY <1>1 DEF Present, GrowCalls
<1>3. \A u \in Threads : Covered(calls[u])'
  BY <1>1 DEF Covered, Covers, GrowCalls
<1>4. ASSUME txn' = txn, calls[t].op # "write" \/ txn = NoTxn PROVE Serving'
  <2>1. CASE txn.op = "write"
    <3>1. txn # NoTxn /\ calls[txn.thread].op = "write"
      BY <2>1 DEF GrowCalls, Serving, NoTxn
    <3>2. txn.thread # t
      BY <1>4, <3>1
    <3>3. txn.thread \in Threads
      BY <3>1 DEF Core, TxnTyped, Transaction
    <3>4. calls'[txn.thread] = calls[txn.thread]
      BY <1>1, <3>2, <3>3
    <3> QED  BY <1>4, <3>4 DEF GrowCalls, Serving
  <2>2. CASE txn.op # "write"
    BY <1>4, <2>2 DEF GrowCalls, Serving
  <2> QED  BY <2>1, <2>2
<1> QED  BY <1>2, <1>3, <1>4

\* A read that begins is covered by the file it reads.
LEMMA ReadCovered ==
    ASSUME Core, NEW t \in Threads, NEW i \in Inodes, NEW offset \in Offsets,
           NEW length \in Lengths, i \in DOMAIN saved.inodes,
           ReadLength(i, offset, length) > 0
    PROVE  Covered(Call("storage_read", i, offset, ReadLength(i, offset, length)))
<1> DEFINE f == saved.inodes[i]
           bytes == ReadLength(i, offset, length)
           n == NumBlocksOf(f.extents)
<1>1. f.length \in Nat /\ f.extents \in Seq(FileExtent)
  BY FilesFacts DEF Core, SavedTyped
<1>2. offset \in Nat /\ length \in Nat
  BY FilesAssumption
<1>3. bytes \in Nat /\ offset + bytes <= f.length
  BY <1>1, <1>2 DEF ReadLength
<1>4. n \in Nat /\ BlocksFor(f.length) = n
  BY <1>1, SumNat DEF Core, Matching
<1>5. f.length <= n * BlockSize /\ n * BlockSize \in Nat
  <2> HIDE DEF n
  <2>1. BlocksFor(f.length) <= n
    BY <1>4
  <2> QED  BY <1>1, <1>4, <2>1, BytesCovered, FilesAssumption
<1>6. offset + bytes <= n * BlockSize
  <2> HIDE DEF n, bytes, f
  <2> QED  BY <1>1, <1>2, <1>3, <1>5
<1> HIDE DEF bytes
<1> QED  BY <1>6 DEF Covered, Covers, Call, bytes

\* The fields of the call of a thread that has opened a file.
LEMMA OpenedCall ==
    ASSUME NEW t, NEW i, calls[t] = Call("open", i, 0, 0)
    PROVE  /\ calls[t].op = "open" /\ calls[t].inode = i
           /\ calls[t].op # "write" /\ calls[t].op # "idle"
BY DEF Call

\* The threads, while the files stay as they are.
LEMMA ThreadsGrow ==
    ASSUME Core, Calling, GrowCalls, NEW t \in Threads, NEW i \in Inodes,
           \/ Open(t, i)
           \/ \E offset \in Offsets :
                \/ \E length \in Lengths : WriteBegin(t, i, offset, length)
                \/ \E length \in Lengths : ReadBegin(t, i, offset, length)
                \/ TruncateUpBegin(t, i, offset)
    PROVE  GrowCalls'
<1>1. CASE Open(t, i)
  <2> DEFINE c == Call("open", i, 0, 0)
  <2>1. /\ calls' = [calls EXCEPT ![t] = c] /\ saved' = saved /\ txn' = txn
        /\ calls[t] = Idle
    BY <1>1 DEF Open, Ready
  <2>2. c.inode \in DOMAIN saved.inodes /\ Covered(c)
    BY <1>1 DEF Open, Call, Covered
  <2>3. calls[t].op # "write"
    BY <2>1 DEF Idle
  <2> HIDE DEF c
  <2> QED  BY <2>1, <2>2, <2>3, CallGrows, Zenon DEF GrowCalls
<1>2. ASSUME NEW offset \in Offsets, NEW length \in Lengths, WriteBegin(t, i, offset, length)
      PROVE  GrowCalls'
  <2> DEFINE c == Call("write", i, offset, length)
  <2>1. /\ calls' = [calls EXCEPT ![t] = c] /\ saved' = saved
        /\ calls[t] = Call("open", i, 0, 0)
        /\ txn' = Begin(t, "write", i, offset + length, <<>>)
    BY <1>2 DEF WriteBegin, Opened
  <2>2. c.inode \in DOMAIN saved.inodes /\ Covered(c)
    <3>1. c.inode = i /\ c.op \notin {"storage_write", "storage_read"}
      BY DEF Call
    <3>2. calls[t].op # "idle" /\ calls[t].inode = i
      BY <2>1, OpenedCall, Zenon
    <3> HIDE DEF c
    <3> QED  BY <3>1, <3>2, Zenon DEF GrowCalls, Present, Covered
  <2>3. Serving'
    <3>1. calls'[t] = c
      BY <2>1 DEF Calling, CallsTyped
    <3> QED  BY <2>1, <3>1 DEF Serving, Begin, Call
  <2> HIDE DEF c
  <2> QED  BY <2>1, <2>2, <2>3, CallGrows, Zenon DEF GrowCalls
<1>3. ASSUME NEW offset \in Offsets, NEW length \in Lengths, ReadBegin(t, i, offset, length)
      PROVE  GrowCalls'
  <2> DEFINE bytes == ReadLength(i, offset, length)
             c == IF bytes > 0 THEN Call("storage_read", i, offset, bytes) ELSE Idle
  <2>1. /\ calls' = [calls EXCEPT ![t] = c] /\ saved' = saved /\ txn' = txn
        /\ calls[t] = Call("open", i, 0, 0) /\ i \in DOMAIN saved.inodes
    BY <1>3 DEF ReadBegin, Opened
  <2>4. calls[t].op # "write"
    BY <2>1, OpenedCall, Zenon
  <2>2. CASE bytes > 0
    <3>1. Covered(Call("storage_read", i, offset, bytes))
      BY <2>1, <2>2, ReadCovered
    <3>2. c = Call("storage_read", i, offset, bytes)
      BY <2>2
    <3>3. Call("storage_read", i, offset, bytes).inode = i
      BY DEF Call
    <3> HIDE DEF c
    <3> QED  BY <2>1, <2>4, <3>1, <3>2, <3>3, CallGrows, Zenon DEF GrowCalls
  <2>3. CASE ~(bytes > 0)
    <3>1. c.op = "idle" /\ Covered(c)
      BY <2>3, ZenonT(30) DEF Idle, Covered
    <3> HIDE DEF c
    <3> QED  BY <2>1, <2>4, <3>1, CallGrows, ZenonT(30) DEF GrowCalls
  <2> QED  BY <2>2, <2>3
<1>4. ASSUME NEW offset \in Offsets, TruncateUpBegin(t, i, offset)
      PROVE  GrowCalls'
  <2> DEFINE c == Call("truncate", i, offset, 0)
  <2>1. /\ calls' = [calls EXCEPT ![t] = c] /\ saved' = saved
        /\ calls[t] = Call("open", i, 0, 0)
        /\ txn' = Begin(t, "truncate", i, offset, <<>>)
    BY <1>4, ZenonT(30) DEF TruncateUpBegin, Opened
  <2>2. c.inode \in DOMAIN saved.inodes /\ Covered(c)
    <3>1. c.inode = i /\ c.op \notin {"storage_write", "storage_read"}
      BY DEF Call
    <3>2. calls[t].op # "idle" /\ calls[t].inode = i
      BY <2>1, OpenedCall, Zenon
    <3> HIDE DEF c
    <3> QED  BY <3>1, <3>2, Zenon DEF GrowCalls, Present, Covered
  <2>3. Serving'
    BY <2>1 DEF Serving, Begin
  <2> HIDE DEF c
  <2> QED  BY <2>1, <2>2, <2>3, CallGrows, ZenonT(30) DEF GrowCalls
<1> QED  BY <1>1, <1>2, <1>3, <1>4

\* An access to the storage keeps the calls covered.
LEMMA StorageGrows ==
    ASSUME Core, Calling, GrowCalls, NEW t \in Threads, StorageAccess(t)
    PROVE  GrowCalls'
<1>1. saved' = saved /\ txn' = txn /\ calls[t].op # "write"
  BY DEF StorageAccess, StorageLoad, StorageWalk
<1>2. CASE calls' = calls
  BY <1>1, <1>2 DEF GrowCalls, Serving, Present, Covered, Covers
<1>3. CASE /\ calls' = [calls EXCEPT ![t].op =
                          IF @ = "storage_write" THEN "walk_write" ELSE "walk_read"]
           /\ calls[t].op \in {"storage_write", "storage_read"}
  <2> DEFINE w == IF calls[t].op = "storage_write" THEN "walk_write" ELSE "walk_read"
             c == [calls[t] EXCEPT !.op = w]
  <2>1. calls' = [calls EXCEPT ![t] = c]
    BY <1>3 DEF Calling, CallsTyped
  <2>2. calls[t] \in CallRecord /\ calls[t].inode \in DOMAIN saved.inodes
    BY <1>3 DEF Calling, CallsTyped, GrowCalls, Present
  <2>3. c.inode \in DOMAIN saved.inodes /\ Covered(c)
    BY <2>2 DEF CallRecord, Covered
  <2> HIDE DEF c
  <2> QED  BY <1>1, <2>1, <2>3, CallGrows, Zenon DEF GrowCalls
<1>4. CASE calls' = [calls EXCEPT ![t] = Idle]
  <2>1. Idle.op = "idle" /\ Covered(Idle)
    BY DEF Idle, Covered
  <2> QED  BY <1>1, <1>4, <2>1, CallGrows, Zenon DEF GrowCalls
<1> QED  BY <1>2, <1>3, <1>4 DEF StorageAccess, StorageLoad, StorageWalk

\* A new file is empty, and the committed ones stay as they are.
LEMMA CreateGrows ==
    ASSUME Core, Calling, Appended, GrowCalls, NEW t \in Threads, Create(t), Core'
    PROVE  Appended' /\ GrowCalls'
<1>1. /\ txn = NoTxn /\ txn' = txn /\ calls' = calls
      /\ inodes' = PutInode(nextId, EmptyFile)
      /\ saved' = [saved EXCEPT !.inodes = inodes', !.nextId = nextId']
  BY DEF Create
<1>2. /\ saved'.inodes = inodes' /\ saved.inodes = inodes
      /\ FilesTyped(inodes, nextId)
  BY <1>1 DEF Core, Settled, Snapshot, SavedTyped
<1>3. nextId \notin DOMAIN inodes
  BY <1>2 DEF FilesTyped
<1>4. /\ DOMAIN inodes \subseteq DOMAIN inodes'
      /\ \A i \in DOMAIN inodes : inodes'[i] = inodes[i]
  BY <1>1, <1>3 DEF PutInode
<1>5. Larger
  <2> SUFFICES ASSUME NEW i \in DOMAIN inodes
               PROVE  NumBlocksOf(saved.inodes[i].extents) <= NumBlocksOf(saved'.inodes[i].extents)
    BY <1>2, <1>4 DEF Larger
  <2>1. saved'.inodes[i] = saved.inodes[i] /\ saved.inodes[i].extents \in Seq(FileExtent)
    BY <1>2, <1>4, FilesFacts
  <2>2. NumBlocksOf(saved.inodes[i].extents) \in Nat
    BY <2>1, SumNat
  <2> QED  BY <2>1, <2>2
<1>6. Appended'
  BY <1>2 DEF Appended
<1>7. SavedTyped /\ SavedTyped' /\ calls \in [Threads -> CallRecord]
  BY Zenon DEF Core, Calling, CallsTyped
<1>8. Present' /\ \A u \in Threads : Covered(calls[u])'
  <2> SUFFICES ASSUME NEW u \in Threads
               PROVE  /\ calls[u].op # "idle" => calls[u].inode \in DOMAIN saved'.inodes
                      /\ Covered(calls[u])'
    BY <1>1 DEF Present
  <2> DEFINE c == calls[u]
  <2>1. c \in CallRecord /\ Covered(c) /\ (c.op # "idle" => c.inode \in DOMAIN saved.inodes)
    BY <1>7 DEF GrowCalls, Present
  <2>2. c' = c
    BY <1>1
  <2>3. /\ c.op # "idle" => c.inode \in DOMAIN saved'.inodes
        /\ c.op \in {"storage_write", "storage_read"} => Covers(saved'.inodes[c.inode].extents, c)
    <3> HIDE DEF c
    <3> QED  BY <1>5, <1>7, <2>1, <2>2, CoverStays, Zenon DEF Covered
  <2> QED  BY <2>2, <2>3 DEF Covered
<1>9. Serving'
  BY <1>1 DEF GrowCalls, Serving, NoTxn
<1> QED  BY <1>6, <1>8, <1>9 DEF GrowCalls

\* A turn of the loop of mtl_expand_inode.
LEMMA ExpandGrows ==
    ASSUME Core, Appended, GrowCalls, ExpandStep
    PROVE  Appended' /\ GrowCalls'
<1> DEFINE i == txn.inode
<1>1. i \in DOMAIN inodes /\ UNCHANGED <<nextId, txn, saved, calls, loaded, stopped>>
  BY ExpandEffect
<1>2. PICK f \in File :
        /\ inodes' = PutInode(i, f)
        /\ Starts(BlocksOf(inodes[i].extents), BlocksOf(f.extents))
  BY ExpandEffect
<1>3. FilesTyped(inodes, nextId) /\ SavedTyped /\ DOMAIN inodes = DOMAIN saved.inodes
  BY DEF Core, Reworked
<1>4. /\ DOMAIN inodes' = DOMAIN inodes /\ inodes'[i] = f
      /\ \A j \in DOMAIN inodes : j # i => inodes'[j] = inodes[j]
  BY <1>1, <1>2 DEF PutInode
<1>5. /\ BlocksOf(saved.inodes[i].extents) \in Seq(Nat)
      /\ BlocksOf(inodes[i].extents) \in Seq(Nat) /\ BlocksOf(f.extents) \in Seq(Nat)
  BY <1>1, <1>3, FilesFacts, FileFacts, RunsGrow DEF SavedTyped
<1>6. Starts(BlocksOf(saved.inodes[i].extents), BlocksOf(f.extents))
  BY <1>1, <1>2, <1>5, StartsTransitive, Zenon DEF Appended
<1>7. Appended'
  <2>1. ASSUME NEW j \in DOMAIN inodes, j # i
        PROVE  \/ inodes'[j] = saved.inodes[j]
               \/ Starts(BlocksOf(saved.inodes[j].extents), BlocksOf(inodes'[j].extents))
    BY <1>4, <2>1 DEF Appended
  <2> QED  BY <1>1, <1>4, <1>6, <2>1 DEF Appended
<1>8. GrowCalls'
  BY <1>1 DEF GrowCalls, Serving, Present, Covered, Covers
<1> QED  BY <1>7, <1>8

\* What a transaction commits holds all that was committed before it.
LEMMA CommitLarger ==
    ASSUME Core, Appended, Serving, Commit
    PROVE  Larger /\ saved'.inodes = inodes /\ inodes' = inodes
<1>1. inodes' = inodes /\ saved'.inodes = inodes
  BY DEF Commit, Serving, Snapshot
<1>2. /\ FilesTyped(inodes, nextId) /\ FilesTyped(saved.inodes, saved.nextId)
      /\ DOMAIN inodes = DOMAIN saved.inodes
  BY DEF Core, Reworked, SavedTyped
<1>3. ASSUME NEW i \in DOMAIN inodes
      PROVE  NumBlocksOf(saved.inodes[i].extents) <= NumBlocksOf(inodes[i].extents)
  <2> DEFINE a == saved.inodes[i].extents
             b == inodes[i].extents
  <2>1. a \in Seq(FileExtent) /\ b \in Seq(FileExtent)
    BY <1>2, FilesFacts
  <2>2. a = b \/ Starts(BlocksOf(a), BlocksOf(b))
    BY DEF Appended
  <2> HIDE DEF a, b
  <2>3. NumBlocksOf(a) \in Nat
    BY <2>1, SumNat
  <2>4. NumBlocksOf(a) <= NumBlocksOf(b)
    BY <2>1, <2>2, <2>3, StartsCount
  <2> QED  BY <2>4 DEF a, b
<1> QED  BY <1>1, <1>2, <1>3 DEF Larger

\* mtl_write ends its transaction when the file has the blocks for the bytes
\* that it is going to write.
LEMMA CommitCovers ==
    ASSUME Core, Calling, GrowCalls, Commit, txn.op = "write"
    PROVE  LET c == calls[txn.thread]
           IN  c.inode \in DOMAIN inodes /\ Covers(inodes[c.inode].extents, c)
<1> DEFINE c == calls[txn.thread]
           i == txn.inode
           n == NumBlocksOf(inodes[i].extents)
<1>1. txn \in Transaction /\ txn.thread \in Threads
  BY DEF Commit, Core, TxnTyped, Transaction
<1>2. c.op = "write" /\ c.inode = i /\ c.offset + c.length = txn.end
  BY DEF GrowCalls, Serving
<1>3. i \in DOMAIN inodes
  BY <1>1, <1>2, Zenon DEF GrowCalls, Present, Core, Reworked
<1>4. ~(n < BlocksFor(txn.end))
  BY <1>3 DEF Commit, Expanding, FileBlocks, Missing
<1>5. txn.end \in Nat
  BY <1>1, TransactionEnd, Zenon
<1>6. inodes[i].extents \in Seq(FileExtent)
  BY <1>3, FilesFacts DEF Core
<1>7. n \in Nat /\ BlocksFor(txn.end) \in Nat
  BY <1>5, <1>6, SumNat, BlocksForFacts, Zenon
<1> HIDE DEF n, c, i
<1>8. txn.end <= n * BlockSize
  BY <1>4, <1>5, <1>7, BytesCovered
<1> QED  BY <1>2, <1>3, <1>8 DEF Covers, n, c, i

\* A commit keeps the calls covered when files only grow.
LEMMA CommitGrows ==
    ASSUME Core, Calling, Appended, GrowCalls, Commit, Core'
    PROVE  Appended' /\ GrowCalls'
<1> DEFINE t == txn.thread
           d == IF txn.op = "write" THEN [calls[t] EXCEPT !.op = "storage_write"] ELSE Idle
<1>1. txn \in Transaction /\ t \in Threads /\ calls \in [Threads -> CallRecord]
  BY DEF Commit, Core, TxnTyped, Transaction, Calling, CallsTyped
<1>2. calls' = [calls EXCEPT ![t] = d] /\ txn' = NoTxn
  BY <1>1 DEF Commit
<1>3. calls'[t] = d /\ \A u \in Threads : u # t => calls'[u] = calls[u]
  BY <1>1, <1>2
<1>4. Larger /\ saved'.inodes = inodes /\ inodes' = inodes
  BY CommitLarger DEF GrowCalls
<1>5. Appended'
  BY <1>4 DEF Appended
<1>6. Serving'
  BY <1>2 DEF Serving, NoTxn
<1>7. SavedTyped /\ SavedTyped'
  BY DEF Core
<1>8. ASSUME NEW u \in Threads
      PROVE  /\ calls'[u].op # "idle" => calls'[u].inode \in DOMAIN saved'.inodes
             /\ calls'[u].op \in {"storage_write", "storage_read"} =>
                  Covers(saved'.inodes[calls'[u].inode].extents, calls'[u])
  <2>1. CASE u # t
    <3> DEFINE c == calls[u]
    <3>1. c \in CallRecord /\ Covered(c) /\ (c.op # "idle" => c.inode \in DOMAIN saved.inodes)
      BY <1>1 DEF GrowCalls, Present
    <3>2. c' = c
      BY <1>3, <2>1
    <3>3. /\ c.op # "idle" => c.inode \in DOMAIN saved'.inodes
          /\ c.op \in {"storage_write", "storage_read"} => Covers(saved'.inodes[c.inode].extents, c)
      <4> HIDE DEF c
      <4> QED  BY <1>4, <1>7, <3>1, <3>2, CoverStays DEF Covered
    <3> QED  BY <3>2, <3>3
  <2>2. CASE u = t /\ txn.op = "write"
    <3>1. calls[t].inode \in DOMAIN inodes /\ Covers(inodes[calls[t].inode].extents, calls[t])
      BY <2>2, CommitCovers
    <3>2. /\ calls'[u] = d /\ d.inode = calls[t].inode /\ d.offset = calls[t].offset
          /\ d.length = calls[t].length
      BY <1>1, <1>3, <2>2 DEF CallRecord
    <3> HIDE DEF d
    <3> QED  BY <1>4, <3>1, <3>2 DEF Covers
  <2>3. CASE u = t /\ txn.op # "write"
    BY <1>3, <2>3 DEF Idle
  <2> QED  BY <2>1, <2>2, <2>3
<1>9. Present' /\ \A u \in Threads : Covered(calls[u])'
  BY <1>8 DEF Present, Covered
<1> QED  BY <1>5, <1>6, <1>9 DEF GrowCalls

\* Nothing is under way after a restart.
LEMMA RestartGrows ==
    ASSUME Restart
    PROVE  Appended' /\ GrowCalls'
<1>1. saved'.inodes = inodes' /\ txn' = NoTxn /\ calls' = [t \in Threads |-> Idle]
  BY DEF Restart, Snapshot
<1>2. Appended'
  BY <1>1 DEF Appended
<1>3. \A t \in Threads : calls'[t].op = "idle"
  BY <1>1 DEF Idle
<1>4. Present' /\ \A t \in Threads : Covered(calls[t])'
  BY <1>3 DEF Present, Covered
<1>5. Serving'
  BY <1>1 DEF Serving, NoTxn
<1> QED  BY <1>2, <1>4, <1>5 DEF GrowCalls

\* Every step of files that only grow keeps their invariant.
LEMMA NextGrowInv == GrowInv /\ [NextGrowing]_vars => GrowInv'
<1> SUFFICES ASSUME GrowInv, [NextGrowing]_vars PROVE GrowInv'
  OBVIOUS
<1>1. Core /\ Calling /\ Appended /\ GrowCalls
  BY DEF GrowInv, GrowCalls
<1>2. Core' /\ Calling'
  <2>1. [Next]_vars
    BY DEF NextGrowing, Next
  <2> QED  BY <1>1, <2>1, NextFilesInv DEF FilesInv
<1>3. SUFFICES Appended' /\ GrowCalls'
  BY <1>2 DEF GrowInv, GrowCalls
<1>4. CASE UNCHANGED vars
  <2>1. UNCHANGED <<inodes, saved, txn, calls>>
    BY <1>4 DEF vars, dbVars
  <2> QED  BY <1>1, <2>1, Zenon DEF Appended, GrowCalls, Serving, Present, Covered, Covers
<1>5. ASSUME NEW t \in Threads, NEW i \in Inodes, Grows(t, i)
      PROVE  Appended' /\ GrowCalls'
  <2>1. GrowCalls'
    BY <1>1, <1>5, ThreadsGrow DEF Grows
  <2>2. UNCHANGED <<inodes, saved>>
    BY <1>5, ZenonT(30) DEF Grows, Open, WriteBegin, ReadBegin, TruncateUpBegin, dbVars
  <2> QED  BY <1>1, <2>1, <2>2 DEF Appended
<1>6. ASSUME NEW t \in Threads, StorageAccess(t)
      PROVE  Appended' /\ GrowCalls'
  <2>1. UNCHANGED <<inodes, saved>>
    BY <1>6 DEF StorageAccess, StorageLoad, StorageWalk, dbVars
  <2> QED  BY <1>1, <1>6, <2>1, StorageGrows, Zenon DEF Appended
<1>7. ASSUME NEW t \in Threads, Create(t) PROVE Appended' /\ GrowCalls'
  BY <1>1, <1>2, <1>7, CreateGrows
<1>8. CASE ExpandStep
  BY <1>1, <1>8, ExpandGrows
<1>9. CASE ExpandAborts
  <2>1. UNCHANGED <<inodes, saved, txn, calls>>
    BY <1>9 DEF ExpandAborts, dbVars
  <2> QED  BY <1>1, <2>1 DEF Appended, GrowCalls, Serving, Present, Covered, Covers
<1>10. CASE FreeStep
  BY <1>1, <1>10 DEF FreeStep, GrowCalls, Serving
<1>11. CASE Commit
  BY <1>1, <1>2, <1>11, CommitGrows
<1>12. CASE Restart
  BY <1>12, RestartGrows
<1> QED
  BY <1>4, <1>5, <1>6, <1>7, <1>8, <1>9, <1>10, <1>11, <1>12 DEF NextGrowing, Transact

\* Files that only grow start in their invariant.
LEMMA InitGrowInv == Init => GrowInv
<1> SUFFICES ASSUME Init PROVE GrowInv
  OBVIOUS
<1>1. Core /\ Calling
  BY InitFilesInv DEF FilesInv
<1>2. saved.inodes = inodes /\ txn = NoTxn /\ calls = [t \in Threads |-> Idle]
  BY DEF Init, Snapshot
<1>3. \A t \in Threads : calls[t].op = "idle"
  BY <1>2 DEF Idle
<1> QED  BY <1>1, <1>2, <1>3 DEF GrowInv, Appended, Serving, Present, Covered, NoTxn

(* While nothing is truncated to less or unlinked, mtl_write and mtl_read  *)
(* get to the storage with bytes that the committed extents of their file  *)
(* cover, although they have given up their transaction and load the list  *)
(* of extents again: for any number of threads, any calls and restarts.    *)
THEOREM StorageCovered == SpecGrowing => []CallsCovered
<1>1. ASSUME GrowInv PROVE CallsCovered
  BY <1>1 DEF GrowInv, CallsCovered, Present, Covered
<1>2. SpecGrowing => []GrowInv
  BY InitGrowInv, NextGrowInv, PTL DEF SpecGrowing
<1> QED  BY <1>1, <1>2, PTL
============================================================================
