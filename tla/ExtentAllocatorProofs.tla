----------------------- MODULE ExtentAllocatorProofs -----------------------
(* Theorems about ExtentAllocator and their proofs. *)
EXTENDS ExtentAllocator, ExtentsProofs

(* What ties the two databases and the files' lists together. *)
Consistent(x, h, u) ==
    /\ Typed(x, h, u)
    /\ NoSharing(x, u)
    /\ WithinDevice(x, u)
    /\ Covering(x, u)
    /\ HeapExact(x, h)
    /\ Recorded(x, u)

----------------------------------------------------------------------------
(* The calls of the allocator on a consistent state. *)

\* an extent's offset identifies it among the held ones
LEMMA HeldByOffset ==
    ASSUME NEW x, NEW h, NEW u, Consistent(x, h, u),
           NEW a \in u, NEW b \in u, a.offset = b.offset
    PROVE  a = b
BY DEF Consistent, Typed, NoSharing, WithinDevice, Apart, FileExtent

(* mtl_free_extent of an extent whose successor is not free. *)
LEMMA FreeAloneConsistent ==
    ASSUME NEW x, NEW h, NEW u, Consistent(x, h, u),
           NEW f \in u, x[f.offset].length = f.length
    PROVE  Consistent(PutExtent(x, f.offset,
                        FreeRecord(f.length, [k |-> f.length, v |-> f.offset])),
                      HeapInsert(h, f.length, f.offset), u \ {f})
<1> DEFINE n == [k |-> f.length, v |-> f.offset]
           y == PutExtent(x, f.offset, FreeRecord(f.length, n))
           g == HeapInsert(h, f.length, f.offset)
           w == u \ {f}
<1>1. /\ f.offset \in Nat /\ f.length \in Nat /\ f.length > 0
      /\ f.offset + f.length <= NumBlocks
      /\ f.offset \in DOMAIN x \ FreeOffsets(x)
  BY DEF Consistent, Typed, WithinDevice, Recorded, FileExtent
<1>2. Typed(y, g, w)
  <2>1. n \in Node /\ g \subseteq Node
    BY <1>1, HeapTyped DEF Consistent, Typed
  <2>2. FreeRecord(f.length, n) \in ExtentRecord
    BY <1>1, <2>1, RecordsTyped
  <2>3. DOMAIN y \subseteq Nat /\ y \in [DOMAIN y -> ExtentRecord]
    BY <1>1, <2>2, PutTyped DEF Consistent, Typed
  <2> QED  BY <2>1, <2>3 DEF Consistent, Typed
<1>3. /\ DOMAIN y = DOMAIN x
      /\ y[f.offset] = FreeRecord(f.length, n)
      /\ \A o \in DOMAIN x : o # f.offset => y[o] = x[o]
  BY <1>1 DEF PutExtent
<1>4. FreeOffsets(y) = FreeOffsets(x) \cup {f.offset}
  BY <1>1, <1>3 DEF FreeOffsets, FreeRecord
<1>5. \A o \in FreeOffsets(x) : o # f.offset /\ o \in DOMAIN x /\ y[o] = x[o]
  BY <1>1, <1>3 DEF FreeOffsets
<1>6. y[f.offset].length = f.length /\ y[f.offset].pq_node = n
  BY <1>3 DEF FreeRecord
<1> HIDE DEF y, w
<1>7. NoSharing(y, w)
  <2>1. \A a, b \in w : a # b => Apart(a.offset, a.length, b.offset, b.length)
    BY DEF w, Consistent, NoSharing
  <2>2. \A o, p \in FreeOffsets(y) : o # p => Apart(o, y[o].length, p, y[p].length)
    BY <1>4, <1>5, <1>6, <1>1 DEF Consistent, NoSharing, Apart
  <2>3. \A a \in w, o \in FreeOffsets(y) : Apart(a.offset, a.length, o, y[o].length)
    BY <1>4, <1>5, <1>6, <1>1 DEF w, Consistent, NoSharing, Apart
  <2> QED  BY <2>1, <2>2, <2>3 DEF NoSharing
<1>8. WithinDevice(y, w)
  BY <1>1, <1>4, <1>5, <1>6 DEF w, Consistent, WithinDevice
<1>9. Covering(y, w)
  BY <1>1, <1>4, <1>5, <1>6 DEF w, Consistent, Covering
<1>10. HeapExact(y, g)
  <2>1. \A o \in FreeOffsets(y) :
          y[o].pq_node = [k |-> y[o].length, v |-> o] /\ y[o].pq_node \in g
    BY <1>4, <1>5, <1>6 DEF Consistent, HeapExact, HeapInsert
  <2>2. \A m \in g : m.v \in FreeOffsets(y) /\ y[m.v].length = m.k
    BY <1>4, <1>5, <1>6 DEF Consistent, HeapExact, HeapInsert
  <2> QED  BY <2>1, <2>2 DEF HeapExact
<1>11. Recorded(y, w)
  <2>1. \A a \in w : a.offset # f.offset
    BY HeldByOffset DEF w
  <2> QED  BY <1>3, <1>4, <2>1 DEF w, Consistent, Recorded
<1> QED  BY <1>2, <1>7, <1>8, <1>9, <1>10, <1>11 DEF Consistent, y, w

(* mtl_free_extent of an extent that ends where a free one begins. *)
LEMMA FreeMergeConsistent ==
    ASSUME NEW x, NEW h, NEW u, Consistent(x, h, u),
           NEW f \in u, x[f.offset].length = f.length,
           NEW n \in FreeOffsets(x), n = f.offset + f.length,
           NEW size, size = f.length + x[n].length
    PROVE  Consistent(PutExtent(DelExtent(x, n), f.offset,
                        FreeRecord(size, [k |-> size, v |-> f.offset])),
                      HeapInsert(HeapDelete(h, x[n].pq_node), size, f.offset),
                      u \ {f})
<1> DEFINE m == [k |-> size, v |-> f.offset]
           y == PutExtent(DelExtent(x, n), f.offset, FreeRecord(size, m))
           g == HeapInsert(HeapDelete(h, x[n].pq_node), size, f.offset)
           w == u \ {f}
<1>1. /\ f.offset \in Nat /\ f.length \in Nat /\ f.length > 0
      /\ f.offset \in DOMAIN x \ FreeOffsets(x)
      /\ n \in DOMAIN x /\ n \in Nat /\ x[n].length \in Nat
      /\ x[n].length > 0 /\ n + x[n].length <= NumBlocks
      /\ n # f.offset /\ size \in Nat
  BY DEF Consistent, Typed, WithinDevice, Recorded, FileExtent, FreeOffsets, ExtentRecord
<1>2. Typed(y, g, w)
  <2>1. HeapDelete(h, x[n].pq_node) \in SUBSET Node
    BY DEF HeapDelete, Consistent, Typed
  <2>2. m \in Node /\ g \subseteq Node
    BY <1>1, <2>1, HeapTyped
  <2>3. FreeRecord(size, m) \in ExtentRecord
    BY <1>1, <2>2, RecordsTyped
  <2>4. /\ DOMAIN DelExtent(x, n) \subseteq Nat
        /\ DelExtent(x, n) \in [DOMAIN DelExtent(x, n) -> ExtentRecord]
    BY DelTyped DEF Consistent, Typed
  <2>5. DOMAIN y \subseteq Nat /\ y \in [DOMAIN y -> ExtentRecord]
    BY <1>1, <2>3, <2>4, PutTyped
  <2> QED  BY <2>2, <2>5 DEF Consistent, Typed
<1>3. /\ DOMAIN y = DOMAIN x \ {n}
      /\ y[f.offset] = FreeRecord(size, m)
      /\ \A o \in DOMAIN x \ {n} : o # f.offset => y[o] = x[o]
  BY <1>1 DEF PutExtent, DelExtent
<1>4. FreeOffsets(y) = (FreeOffsets(x) \ {n}) \cup {f.offset}
  BY <1>1, <1>3 DEF FreeOffsets, FreeRecord
<1>5. \A o \in FreeOffsets(x) \ {n} : o # f.offset /\ o \in DOMAIN x /\ y[o] = x[o]
  BY <1>1, <1>3 DEF FreeOffsets
<1>6. y[f.offset].length = size /\ y[f.offset].pq_node = m
  BY <1>3 DEF FreeRecord
<1>7. \A o \in FreeOffsets(x) : o \in Nat /\ x[o].length \in Nat
  BY DEF FreeOffsets, Consistent, Typed, ExtentRecord
<1>8. \A a \in u : a.offset \in Nat /\ a.length \in Nat
  BY DEF Consistent, Typed, FileExtent
<1> HIDE DEF y, w
<1>9. NoSharing(y, w)
  <2>1. \A a, b \in w : a # b => Apart(a.offset, a.length, b.offset, b.length)
    BY DEF w, Consistent, NoSharing
  <2>2. \A o \in FreeOffsets(x) \ {n} : Apart(o, x[o].length, f.offset, size)
    <3> SUFFICES ASSUME NEW o \in FreeOffsets(x) \ {n}
                 PROVE  Apart(o, x[o].length, f.offset, size)
      OBVIOUS
    <3>1. Apart(o, x[o].length, n, x[n].length) /\ Apart(f.offset, f.length, o, x[o].length)
      BY DEF Consistent, NoSharing
    <3>2. x[o].length > 0
      BY Zenon DEF Consistent, WithinDevice
    <3> QED  BY <1>1, <1>7, <3>1, <3>2 DEF Apart
  <2>3. \A o, p \in FreeOffsets(y) : o # p => Apart(o, y[o].length, p, y[p].length)
    BY <1>4, <1>5, <1>6, <1>1, <2>2 DEF Consistent, NoSharing, Apart
  <2>4. \A a \in w : Apart(a.offset, a.length, f.offset, size)
    <3> SUFFICES ASSUME NEW a \in w
                 PROVE  Apart(a.offset, a.length, f.offset, size)
      OBVIOUS
    <3>1. /\ Apart(a.offset, a.length, n, x[n].length)
          /\ Apart(a.offset, a.length, f.offset, f.length)
      BY DEF w, Consistent, NoSharing
    <3>2. a.length > 0
      BY DEF w, Consistent, WithinDevice
    <3> QED  BY <1>1, <1>8, <3>1, <3>2 DEF w, Apart
  <2>5. \A a \in w, o \in FreeOffsets(y) : Apart(a.offset, a.length, o, y[o].length)
    BY <1>4, <1>5, <1>6, <2>4, ZenonT(30) DEF w, Consistent, NoSharing
  <2> QED  BY <2>1, <2>3, <2>5, Zenon DEF NoSharing
<1>10. WithinDevice(y, w)
  BY <1>1, <1>4, <1>5, <1>6 DEF w, Consistent, WithinDevice
<1>11. Covering(y, w)
  <2> SUFFICES ASSUME NEW b \in 0 .. NumBlocks - 1
               PROVE  \/ \E a \in w : a.offset <= b /\ b < a.offset + a.length
                      \/ \E o \in FreeOffsets(y) : o <= b /\ b < o + y[o].length
    BY DEF Covering
  <2>1. CASE \E a \in w : a.offset <= b /\ b < a.offset + a.length
    BY <2>1
  <2>2. CASE f.offset <= b /\ b < f.offset + f.length
    BY <2>2, <1>1, <1>4, <1>6
  <2>3. CASE n <= b /\ b < n + x[n].length
    BY <2>3, <1>1, <1>4, <1>6
  <2>4. CASE \E o \in FreeOffsets(x) \ {n} : o <= b /\ b < o + x[o].length
    BY <2>4, <1>4, <1>5, Zenon
  <2> QED  BY <2>1, <2>2, <2>3, <2>4 DEF w, Consistent, Covering
<1>12. HeapExact(y, g)
  <2>0. ASSUME NEW o \in FreeOffsets(x)
        PROVE  x[o].pq_node.v = o
    <3>1. x[o].pq_node = [k |-> x[o].length, v |-> o]
      BY DEF Consistent, HeapExact
    <3> QED  BY <3>1
  <2>1. \A o \in FreeOffsets(x) \ {n} : x[o].pq_node # x[n].pq_node
    BY <2>0
  <2>2. \A o \in FreeOffsets(y) :
          y[o].pq_node = [k |-> y[o].length, v |-> o] /\ y[o].pq_node \in g
    BY <1>4, <1>5, <1>6, <2>1, ZenonT(30) DEF Consistent, HeapExact, HeapInsert, HeapDelete
  <2>3. \A c \in h : c.v = n => c = x[n].pq_node
    BY DEF Consistent, HeapExact, Typed, Node
  <2>4. \A c \in g : c.v \in FreeOffsets(y) /\ y[c.v].length = c.k
    <3>1. m.v \in FreeOffsets(y) /\ y[m.v].length = m.k
      BY <1>4, <1>6
    <3>2. ASSUME NEW c \in h, c # x[n].pq_node
          PROVE  c.v \in FreeOffsets(y) /\ y[c.v].length = c.k
      <4>1. c.v \in FreeOffsets(x) \ {n} /\ x[c.v].length = c.k
        BY <2>3, <3>2 DEF Consistent, HeapExact
      <4> QED  BY <4>1, <1>4, <1>5, Zenon
    <3> QED  BY <3>1, <3>2 DEF HeapInsert, HeapDelete
  <2> QED  BY <2>2, <2>4 DEF HeapExact
<1>13. Recorded(y, w)
  <2>1. \A a \in w : a.offset # f.offset
    BY HeldByOffset DEF w
  <2> QED  BY <1>1, <1>3, <1>4, <2>1 DEF w, Consistent, Recorded
<1> QED  BY <1>2, <1>9, <1>10, <1>11, <1>12, <1>13 DEF Consistent, y, w

(* Cutting a held extent in two.  Both mtl_truncate_extent and the         *)
(* splitting half of mtl_reserve_extent are this followed by a free.       *)
LEMMA SplitConsistent ==
    ASSUME NEW x, NEW h, NEW u, Consistent(x, h, u),
           NEW e \in u, x[e.offset].length = e.length,
           NEW len \in Nat, 0 < len, len < e.length
    PROVE  Consistent(PutExtent(PutExtent(x, e.offset, CommittedRecord(len)),
                                e.offset + len, ReservedRecord(e.length - len)),
                      h,
                      (u \ {e}) \cup {[offset |-> e.offset, length |-> len],
                                      [offset |-> e.offset + len,
                                       length |-> e.length - len]})
<1> DEFINE c == e.offset + len
           l == [offset |-> e.offset, length |-> len]
           r == [offset |-> c, length |-> e.length - len]
           y == PutExtent(PutExtent(x, e.offset, CommittedRecord(len)), c,
                          ReservedRecord(e.length - len))
           w == (u \ {e}) \cup {l, r}
<1>1. /\ e.offset \in Nat /\ e.length \in Nat
      /\ e.offset + e.length <= NumBlocks
      /\ e.offset \in DOMAIN x \ FreeOffsets(x)
      /\ c \in Nat /\ e.length - len \in Nat /\ c # e.offset
  BY DEF Consistent, Typed, WithinDevice, Recorded, FileExtent
<1>2. \A o \in FreeOffsets(x) : o \in Nat /\ x[o].length \in Nat
  BY DEF FreeOffsets, Consistent, Typed, ExtentRecord
<1>3. \A a \in u : a.offset \in Nat /\ a.length \in Nat /\ a.length > 0
  BY DEF Consistent, Typed, FileExtent, WithinDevice
<1>4. \A a \in u \ {e} : Apart(a.offset, a.length, e.offset, e.length)
  BY DEF Consistent, NoSharing
<1>5. \A o \in FreeOffsets(x) :
        Apart(e.offset, e.length, o, x[o].length) /\ x[o].length > 0
  BY DEF Consistent, NoSharing, WithinDevice
<1>6. c \notin DOMAIN x
  <2>1. c \notin FreeOffsets(x)
    BY <1>1, <1>2, <1>5 DEF Apart
  <2>2. \A a \in u : a.offset # c
    BY <1>1, <1>3, <1>4 DEF Apart
  <2> QED  BY <2>1, <2>2 DEF Consistent, Recorded
<1>7. /\ DOMAIN y = DOMAIN x \cup {c}
      /\ y[c] = ReservedRecord(e.length - len)
      /\ y[e.offset] = CommittedRecord(len)
      /\ \A o \in DOMAIN x : o # e.offset => y[o] = x[o]
  BY <1>1, <1>6 DEF PutExtent
<1>8. /\ y[c].length = e.length - len /\ y[c].status # "FREE"
      /\ y[e.offset].length = len /\ y[e.offset].status # "FREE"
  BY <1>7 DEF ReservedRecord, CommittedRecord
<1>9. FreeOffsets(y) = FreeOffsets(x) /\ \A o \in FreeOffsets(x) : y[o] = x[o]
  BY <1>1, <1>6, <1>7, <1>8 DEF FreeOffsets
<1>10. Typed(y, h, w)
  <2>1. CommittedRecord(len) \in ExtentRecord /\ ReservedRecord(e.length - len) \in ExtentRecord
    BY <1>1 DEF CommittedRecord, ReservedRecord, INVALID_NODE, ExtentRecord, Node, Statuses
  <2>2. DOMAIN y \subseteq Nat /\ y \in [DOMAIN y -> ExtentRecord]
    BY <1>1, <2>1 DEF PutExtent, Consistent, Typed
  <2>3. l \in FileExtent /\ r \in FileExtent
    BY <1>1 DEF FileExtent
  <2> QED  BY <2>2, <2>3 DEF Consistent, Typed
<1>11. l.offset = e.offset /\ l.length = len /\ r.offset = c /\ r.length = e.length - len
  OBVIOUS
<1> HIDE DEF y, l, r
<1>12. NoSharing(y, w)
  <2>1. ASSUME NEW a \in w, NEW b \in w, a # b
        PROVE  Apart(a.offset, a.length, b.offset, b.length)
    <3>1. CASE a \in u \ {e} /\ b \in u \ {e}
      BY <2>1, <3>1 DEF Consistent, NoSharing
    <3>2. CASE a \in u \ {e} /\ b \in {l, r}
      BY <1>1, <1>3, <1>4, <1>11, <3>2 DEF Apart
    <3>3. CASE b \in u \ {e} /\ a \in {l, r}
      BY <1>1, <1>3, <1>4, <1>11, <3>3 DEF Apart
    <3>4. CASE a \in {l, r} /\ b \in {l, r}
      BY <1>1, <1>11, <2>1, <3>4 DEF Apart
    <3> QED  BY <3>1, <3>2, <3>3, <3>4
  <2>2. \A o, p \in FreeOffsets(y) : o # p => Apart(o, y[o].length, p, y[p].length)
    BY <1>9 DEF Consistent, NoSharing
  <2>3. ASSUME NEW a \in w, NEW o \in FreeOffsets(y)
        PROVE  Apart(a.offset, a.length, o, y[o].length)
    <3>1. CASE a \in u
      BY <1>9, <3>1 DEF Consistent, NoSharing
    <3>2. CASE a \in {l, r}
      BY <1>1, <1>2, <1>5, <1>9, <1>11, <3>2 DEF Apart
    <3> QED  BY <3>1, <3>2
  <2> QED  BY <2>1, <2>2, <2>3 DEF NoSharing
<1>13. WithinDevice(y, w)
  <2>1. \A a \in u : a.length > 0 /\ a.offset + a.length <= NumBlocks
    BY DEF Consistent, WithinDevice
  <2>2. \A a \in {l, r} : a.length > 0 /\ a.offset + a.length <= NumBlocks
    BY <1>1, <1>11, NumBlocksAssumption
  <2>3. \A o \in FreeOffsets(y) : y[o].length > 0 /\ o + y[o].length <= NumBlocks
    BY <1>9 DEF Consistent, WithinDevice
  <2> QED  BY <2>1, <2>2, <2>3 DEF WithinDevice
<1>14. Covering(y, w)
  <2> SUFFICES ASSUME NEW b \in 0 .. NumBlocks - 1
               PROVE  \/ \E a \in w : a.offset <= b /\ b < a.offset + a.length
                      \/ \E o \in FreeOffsets(y) : o <= b /\ b < o + y[o].length
    BY DEF Covering
  <2>1. CASE e.offset <= b /\ b < e.offset + e.length
    BY <2>1, <1>1, <1>11
  <2>2. CASE \E a \in u \ {e} : a.offset <= b /\ b < a.offset + a.length
    BY <2>2
  <2>3. CASE \E o \in FreeOffsets(x) : o <= b /\ b < o + x[o].length
    BY <2>3, <1>9
  <2> QED  BY <2>1, <2>2, <2>3 DEF Consistent, Covering
<1>15. HeapExact(y, h)
  BY <1>9 DEF Consistent, HeapExact
<1>16. Recorded(y, w)
  <2>1. ASSUME NEW a \in w
        PROVE  /\ a.offset \in DOMAIN y \ FreeOffsets(y)
               /\ 0 < y[a.offset].length /\ y[a.offset].length <= a.length
    <3>1. CASE a \in u \ {e}
      <4>1. a.offset # e.offset
        BY <3>1, HeldByOffset
      <4> QED  BY <3>1, <4>1, <1>7, <1>9 DEF Consistent, Recorded
    <3>2. CASE a \in {l, r}
      BY <3>2, <1>1, <1>6, <1>7, <1>8, <1>9, <1>11 DEF FreeOffsets
    <3> QED  BY <3>1, <3>2
  <2>2. ASSUME NEW o \in DOMAIN y \ FreeOffsets(y)
        PROVE  \E a \in w : a.offset = o
    BY <1>7, <1>9, <1>11 DEF Consistent, Recorded
  <2> QED  BY <2>1, <2>2 DEF Recorded
<1> QED  BY <1>10, <1>12, <1>13, <1>14, <1>15, <1>16 DEF Consistent, y, l, r

(* mtl_reserve_extent takes a whole extent off the heap. *)
LEMMA TakeConsistent ==
    ASSUME NEW x, NEW h, NEW u, Consistent(x, h, u), NEW node \in h
    PROVE  Consistent(PutExtent(x, node.v, CommittedRecord(x[node.v].length)),
                      HeapDelete(h, node),
                      u \cup {[offset |-> node.v, length |-> x[node.v].length]})
<1> DEFINE f == node.v
           t == [offset |-> f, length |-> x[f].length]
           y == PutExtent(x, f, CommittedRecord(x[f].length))
           g == HeapDelete(h, node)
           w == u \cup {t}
<1>1. /\ f \in FreeOffsets(x) /\ f \in DOMAIN x /\ f \in Nat
      /\ x[f].length \in Nat /\ x[f].length > 0 /\ f + x[f].length <= NumBlocks
  BY DEF Consistent, Typed, HeapExact, FreeOffsets, WithinDevice, ExtentRecord
<1>2. Typed(y, g, w)
  <2>1. CommittedRecord(x[f].length) \in ExtentRecord
    BY <1>1 DEF CommittedRecord, INVALID_NODE, ExtentRecord, Node, Statuses
  <2>2. DOMAIN y \subseteq Nat /\ y \in [DOMAIN y -> ExtentRecord]
    BY <1>1, <2>1 DEF PutExtent, Consistent, Typed
  <2>3. t \in FileExtent
    BY <1>1 DEF FileExtent
  <2> QED  BY <2>2, <2>3 DEF Consistent, Typed, HeapDelete
<1>3. /\ DOMAIN y = DOMAIN x
      /\ y[f] = CommittedRecord(x[f].length)
      /\ \A o \in DOMAIN x : o # f => y[o] = x[o]
  BY <1>1 DEF PutExtent
<1>4. y[f].length = x[f].length /\ y[f].status # "FREE"
  BY <1>3 DEF CommittedRecord
<1>5. /\ FreeOffsets(y) = FreeOffsets(x) \ {f}
      /\ \A o \in FreeOffsets(y) : y[o] = x[o]
  BY <1>1, <1>3, <1>4 DEF FreeOffsets
<1>6. t.offset = f /\ t.length = x[f].length
  OBVIOUS
<1>7. \A a \in u : a.offset \in Nat /\ a.length \in Nat
  BY DEF Consistent, Typed, FileExtent
<1>8. \A o \in FreeOffsets(x) : o \in Nat /\ x[o].length \in Nat
  BY DEF FreeOffsets, Consistent, Typed, ExtentRecord
<1> HIDE DEF y, t
<1>9. NoSharing(y, w)
  <2>1. ASSUME NEW a \in w, NEW b \in w, a # b
        PROVE  Apart(a.offset, a.length, b.offset, b.length)
    <3>1. CASE a \in u /\ b \in u
      BY <2>1, <3>1 DEF Consistent, NoSharing
    <3>2. CASE a \in u /\ b = t
      BY <1>1, <1>6, <3>2 DEF Consistent, NoSharing
    <3>3. CASE a = t /\ b \in u
      <4>1. Apart(b.offset, b.length, f, x[f].length)
        BY <1>1, <3>3 DEF Consistent, NoSharing
      <4> QED  BY <1>6, <3>3, <4>1 DEF Apart
    <3> QED  BY <2>1, <3>1, <3>2, <3>3
  <2>2. \A o, p \in FreeOffsets(y) : o # p => Apart(o, y[o].length, p, y[p].length)
    BY <1>5 DEF Consistent, NoSharing
  <2>3. ASSUME NEW a \in w, NEW o \in FreeOffsets(y)
        PROVE  Apart(a.offset, a.length, o, y[o].length)
    <3>1. CASE a \in u
      BY <1>5, <3>1 DEF Consistent, NoSharing
    <3>2. CASE a = t
      BY <1>1, <1>5, <1>6, <3>2 DEF Consistent, NoSharing
    <3> QED  BY <3>1, <3>2
  <2> QED  BY <2>1, <2>2, <2>3 DEF NoSharing
<1>10. WithinDevice(y, w)
  BY <1>1, <1>5, <1>6 DEF Consistent, WithinDevice
<1>11. Covering(y, w)
  <2> SUFFICES ASSUME NEW b \in 0 .. NumBlocks - 1
               PROVE  \/ \E a \in w : a.offset <= b /\ b < a.offset + a.length
                      \/ \E o \in FreeOffsets(y) : o <= b /\ b < o + y[o].length
    BY DEF Covering
  <2>1. CASE f <= b /\ b < f + x[f].length
    BY <2>1, <1>6
  <2>2. CASE \E a \in u : a.offset <= b /\ b < a.offset + a.length
    BY <2>2
  <2>3. CASE \E o \in FreeOffsets(x) \ {f} : o <= b /\ b < o + x[o].length
    BY <2>3, <1>5
  <2> QED  BY <2>1, <2>2, <2>3 DEF Consistent, Covering
<1>12. HeapExact(y, g)
  <2>1. ASSUME NEW o \in FreeOffsets(y)
        PROVE  y[o].pq_node = [k |-> y[o].length, v |-> o] /\ y[o].pq_node \in g
    <3>1. y[o].pq_node = [k |-> y[o].length, v |-> o] /\ y[o].pq_node \in h
      BY <1>5 DEF Consistent, HeapExact
    <3>2. y[o].pq_node.v # f
      BY <1>5, <3>1
    <3> QED  BY <3>1, <3>2 DEF HeapDelete
  <2>2. ASSUME NEW c \in g
        PROVE  c.v \in FreeOffsets(y) /\ y[c.v].length = c.k
    <3>1. c \in h /\ c # node
      BY DEF HeapDelete
    <3>2. c.v \in FreeOffsets(x) /\ x[c.v].length = c.k /\ x[f].length = node.k
      BY <3>1 DEF Consistent, HeapExact
    <3>3. c.v # f
      BY <3>1, <3>2 DEF Consistent, Typed, Node
    <3> QED  BY <1>5, <3>2, <3>3
  <2> QED  BY <2>1, <2>2 DEF HeapExact
<1>13. Recorded(y, w)
  <2>1. ASSUME NEW a \in w
        PROVE  /\ a.offset \in DOMAIN y \ FreeOffsets(y)
               /\ 0 < y[a.offset].length /\ y[a.offset].length <= a.length
    <3>1. CASE a \in u
      BY <1>1, <1>3, <1>5, <3>1 DEF Consistent, Recorded
    <3>2. CASE a = t
      BY <1>1, <1>3, <1>4, <1>5, <1>6, <3>2
    <3> QED  BY <3>1, <3>2
  <2>2. ASSUME NEW o \in DOMAIN y \ FreeOffsets(y)
        PROVE  \E a \in w : a.offset = o
    BY <1>3, <1>5, <1>6 DEF Consistent, Recorded
  <2> QED  BY <2>1, <2>2 DEF Recorded
<1> QED  BY <1>2, <1>9, <1>10, <1>11, <1>12, <1>13 DEF Consistent, y, t

(* mtl_reserve_extent appends the whole free extent that follows to a held *)
(* one; the record may show any length up to the new one.                  *)
LEMMA AbsorbConsistent ==
    ASSUME NEW x, NEW h, NEW u, Consistent(x, h, u), NEW e \in u,
           NEW n \in FreeOffsets(x), n = e.offset + e.length,
           NEW rec \in Nat, 0 < rec, rec <= e.length + x[n].length
    PROVE  Consistent(PutExtent(DelExtent(x, n), e.offset, CommittedRecord(rec)),
                      HeapDelete(h, x[n].pq_node),
                      (u \ {e}) \cup {[offset |-> e.offset,
                                       length |-> e.length + x[n].length]})
<1> DEFINE t == [offset |-> e.offset, length |-> e.length + x[n].length]
           y == PutExtent(DelExtent(x, n), e.offset, CommittedRecord(rec))
           g == HeapDelete(h, x[n].pq_node)
           w == (u \ {e}) \cup {t}
<1>1. /\ e.offset \in Nat /\ e.length \in Nat /\ e.length > 0
      /\ e.offset \in DOMAIN x \ FreeOffsets(x)
      /\ n \in DOMAIN x /\ n \in Nat /\ x[n].length \in Nat
      /\ x[n].length > 0 /\ n + x[n].length <= NumBlocks
      /\ n # e.offset
  BY DEF Consistent, Typed, WithinDevice, Recorded, FileExtent, FreeOffsets, ExtentRecord
<1>2. Typed(y, g, w)
  <2>1. CommittedRecord(rec) \in ExtentRecord
    BY DEF CommittedRecord, INVALID_NODE, ExtentRecord, Node, Statuses
  <2>2. /\ DOMAIN DelExtent(x, n) \subseteq Nat
        /\ DelExtent(x, n) \in [DOMAIN DelExtent(x, n) -> ExtentRecord]
    BY DelTyped DEF Consistent, Typed
  <2>3. DOMAIN y \subseteq Nat /\ y \in [DOMAIN y -> ExtentRecord]
    BY <1>1, <2>1, <2>2, PutTyped
  <2>4. t \in FileExtent
    BY <1>1 DEF FileExtent
  <2> QED  BY <2>3, <2>4 DEF Consistent, Typed, HeapDelete
<1>3. /\ DOMAIN y = DOMAIN x \ {n}
      /\ y[e.offset] = CommittedRecord(rec)
      /\ \A o \in DOMAIN x \ {n} : o # e.offset => y[o] = x[o]
  BY <1>1 DEF PutExtent, DelExtent
<1>4. y[e.offset].length = rec /\ y[e.offset].status # "FREE"
  BY <1>3 DEF CommittedRecord
<1>5. /\ FreeOffsets(y) = FreeOffsets(x) \ {n}
      /\ \A o \in FreeOffsets(y) : y[o] = x[o]
  BY <1>1, <1>3, <1>4 DEF FreeOffsets
<1>6. t.offset = e.offset /\ t.length = e.length + x[n].length
  OBVIOUS
<1>7. \A a \in u : a.offset \in Nat /\ a.length \in Nat /\ a.length > 0
  BY DEF Consistent, Typed, FileExtent, WithinDevice
<1>8. \A o \in FreeOffsets(x) : o \in Nat /\ x[o].length \in Nat /\ x[o].length > 0
  BY DEF FreeOffsets, Consistent, Typed, ExtentRecord, WithinDevice
<1> HIDE DEF y, t
<1>9. NoSharing(y, w)
  <2>1. ASSUME NEW a \in u \ {e}
        PROVE  Apart(a.offset, a.length, t.offset, t.length)
    <3>1. /\ Apart(a.offset, a.length, e.offset, e.length)
          /\ Apart(a.offset, a.length, n, x[n].length)
      BY Zenon DEF Consistent, NoSharing
    <3> QED  BY <1>1, <1>6, <1>7, <3>1 DEF Apart
  <2>2. ASSUME NEW a \in w, NEW b \in w, a # b
        PROVE  Apart(a.offset, a.length, b.offset, b.length)
    <3>1. CASE a \in u \ {e} /\ b \in u \ {e}
      BY <2>2, <3>1 DEF Consistent, NoSharing
    <3>2. CASE a \in u \ {e} /\ b = t
      BY <2>1, <3>2
    <3>3. CASE a = t /\ b \in u \ {e}
      <4>1. Apart(b.offset, b.length, t.offset, t.length)
        BY <2>1, <3>3
      <4> QED  BY <3>3, <4>1 DEF Apart
    <3> QED  BY <2>2, <3>1, <3>2, <3>3
  <2>3. \A o, p \in FreeOffsets(y) : o # p => Apart(o, y[o].length, p, y[p].length)
    BY <1>5 DEF Consistent, NoSharing
  <2>4. ASSUME NEW a \in w, NEW o \in FreeOffsets(y)
        PROVE  Apart(a.offset, a.length, o, y[o].length)
    <3>1. CASE a \in u \ {e}
      BY <1>5, <3>1 DEF Consistent, NoSharing
    <3>2. CASE a = t
      <4>1. o \in FreeOffsets(x) \ {n} /\ y[o] = x[o]
        BY <1>5, Zenon
      <4>2. Apart(e.offset, e.length, o, x[o].length) /\ Apart(n, x[n].length, o, x[o].length)
        BY <4>1, Zenon DEF Consistent, NoSharing
      <4> QED  BY <1>1, <1>6, <1>8, <3>2, <4>1, <4>2 DEF Apart
    <3> QED  BY <3>1, <3>2
  <2> QED  BY <2>2, <2>3, <2>4 DEF NoSharing
<1>10. WithinDevice(y, w)
  BY <1>1, <1>5, <1>6 DEF Consistent, WithinDevice
<1>11. Covering(y, w)
  <2> SUFFICES ASSUME NEW b \in 0 .. NumBlocks - 1
               PROVE  \/ \E a \in w : a.offset <= b /\ b < a.offset + a.length
                      \/ \E o \in FreeOffsets(y) : o <= b /\ b < o + y[o].length
    BY DEF Covering
  <2>1. CASE e.offset <= b /\ b < e.offset + e.length
    BY <2>1, <1>1, <1>6
  <2>2. CASE n <= b /\ b < n + x[n].length
    BY <2>2, <1>1, <1>6
  <2>3. CASE \E a \in u \ {e} : a.offset <= b /\ b < a.offset + a.length
    BY <2>3
  <2>4. CASE \E o \in FreeOffsets(x) \ {n} : o <= b /\ b < o + x[o].length
    BY <2>4, <1>5
  <2> QED  BY <2>1, <2>2, <2>3, <2>4, Zenon DEF Consistent, Covering
<1>12. HeapExact(y, g)
  <2>1. x[n].pq_node = [k |-> x[n].length, v |-> n]
    BY DEF Consistent, HeapExact
  <2>2. ASSUME NEW o \in FreeOffsets(y)
        PROVE  y[o].pq_node = [k |-> y[o].length, v |-> o] /\ y[o].pq_node \in g
    <3>1. y[o].pq_node = [k |-> y[o].length, v |-> o] /\ y[o].pq_node \in h
      BY <1>5, Zenon DEF Consistent, HeapExact
    <3>2. y[o].pq_node.v # x[n].pq_node.v
      BY <1>5, <2>1, <3>1
    <3> QED  BY <3>1, <3>2 DEF HeapDelete
  <2>3. ASSUME NEW c \in g
        PROVE  c.v \in FreeOffsets(y) /\ y[c.v].length = c.k
    <3>1. c \in h /\ c # x[n].pq_node
      BY DEF HeapDelete
    <3>2. c.v \in FreeOffsets(x) /\ x[c.v].length = c.k
      BY <3>1 DEF Consistent, HeapExact
    <3>3. c.v # n
      BY <2>1, <3>1, <3>2 DEF Consistent, Typed, Node
    <3> QED  BY <1>5, <3>2, <3>3, Zenon
  <2> QED  BY <2>2, <2>3 DEF HeapExact
<1>13. Recorded(y, w)
  <2>1. ASSUME NEW a \in w
        PROVE  /\ a.offset \in DOMAIN y \ FreeOffsets(y)
               /\ 0 < y[a.offset].length /\ y[a.offset].length <= a.length
    <3>1. CASE a \in u \ {e}
      <4>1. a.offset # e.offset
        BY <3>1, HeldByOffset
      <4> QED  BY <1>3, <1>5, <3>1, <4>1 DEF Consistent, Recorded
    <3>2. CASE a = t
      BY <1>1, <1>3, <1>4, <1>5, <1>6, <3>2 DEF FreeOffsets
    <3> QED  BY <3>1, <3>2
  <2>2. ASSUME NEW o \in DOMAIN y \ FreeOffsets(y)
        PROVE  \E a \in w : a.offset = o
    BY <1>3, <1>5, <1>6 DEF Consistent, Recorded
  <2> QED  BY <2>1, <2>2 DEF Recorded
<1> QED  BY <1>2, <1>9, <1>10, <1>11, <1>12, <1>13 DEF Consistent, y, t

(* Splitting a held extent and freeing its tail. *)
LEMMA SplitFreeConsistent ==
    ASSUME NEW x, NEW h, NEW u, Consistent(x, h, u),
           NEW e \in u, x[e.offset].length = e.length,
           NEW len \in Nat, 0 < len, len < e.length,
           NEW tail, tail = e.offset + len, NEW rest, rest = e.length - len
    PROVE  Consistent(PutExtent(PutExtent(x, tail,
                                  FreeRecord(rest, [k |-> rest, v |-> tail])),
                                e.offset, CommittedRecord(len)),
                      HeapInsert(h, rest, tail),
                      (u \ {e}) \cup {[offset |-> e.offset, length |-> len]})
<1> DEFINE l == [offset |-> e.offset, length |-> len]
           r == [offset |-> tail, length |-> rest]
           F == FreeRecord(rest, [k |-> rest, v |-> tail])
           y == PutExtent(PutExtent(x, e.offset, CommittedRecord(len)), tail,
                          ReservedRecord(rest))
           w == (u \ {e}) \cup {l, r}
<1>1. /\ e.offset \in Nat /\ e.length \in Nat /\ e.offset \in DOMAIN x
      /\ tail # e.offset
  BY DEF Consistent, Typed, Recorded, FileExtent
<1>2. Consistent(y, h, w)
  BY SplitConsistent
<1>3. r \in w /\ r.offset = tail /\ r.length = rest
  OBVIOUS
<1>4. y[tail].length = rest
  BY DEF PutExtent, ReservedRecord
<1>5. Consistent(PutExtent(y, tail, F), HeapInsert(h, rest, tail), w \ {r})
  <2> HIDE DEF y, w, r
  <2>1. Consistent(PutExtent(y, r.offset,
                     FreeRecord(r.length, [k |-> r.length, v |-> r.offset])),
                   HeapInsert(h, r.length, r.offset), w \ {r})
    BY <1>2, <1>3, <1>4, FreeAloneConsistent
  <2> QED  BY <1>3, <2>1
<1>6. PutExtent(y, tail, F) = PutExtent(PutExtent(x, tail, F), e.offset, CommittedRecord(len))
  <2> HIDE DEF F
  <2> QED  BY <1>1 DEF PutExtent
<1>7. w \ {r} = (u \ {e}) \cup {l}
  <2>1. r # l
    BY <1>1, <1>3
  <2>2. r \notin u \ {e}
    <3> SUFFICES ASSUME r \in u \ {e} PROVE FALSE
      OBVIOUS
    <3>1. Apart(r.offset, r.length, e.offset, e.length)
      BY DEF Consistent, NoSharing
    <3> QED  BY <1>1, <1>3, <3>1 DEF Apart
  <2> QED  BY <2>1, <2>2
<1> QED  BY <1>5, <1>6, <1>7

(* mtl_reserve_extent, the way that takes an extent off the heap. *)
LEMMA PopConsistent ==
    ASSUME NEW x, NEW h, NEW u, Consistent(x, h, u),
           NEW node \in h, NEW size \in Nat \ {0}
    PROVE  Consistent(CarvedExtents(x, node.v, 0, 0, size),
                      CarvedHeap(x, HeapDelete(h, node), node.v, 0, 0, size),
                      u \cup {[offset |-> node.v,
                               length |-> Granted(x[node.v].length, 0, size)]})
<1> DEFINE f == node.v
           t == [offset |-> f, length |-> x[f].length]
           y == PutExtent(x, f, CommittedRecord(x[f].length))
           g == HeapDelete(h, node)
           w == u \cup {t}
<1>1. f \in FreeOffsets(x) /\ f \in DOMAIN x /\ f \in Nat /\ x[f].length \in Nat
  BY DEF Consistent, Typed, HeapExact, FreeOffsets, ExtentRecord
<1>2. Consistent(y, g, w)
  BY TakeConsistent
<1>3. CASE ~(x[f].length > size)
  <2>1. CarvedExtents(x, f, 0, 0, size) = y
    BY <1>1, <1>3 DEF CarvedExtents
  <2>2. CarvedHeap(x, g, f, 0, 0, size) = g
    BY <1>1, <1>3 DEF CarvedHeap
  <2>3. Granted(x[f].length, 0, size) = x[f].length
    BY <1>1, <1>3 DEF Granted
  <2> QED  BY <1>2, <2>1, <2>2, <2>3, Zenon
<1>4. CASE x[f].length > size
  <2> DEFINE tail == f + size
             rest == x[f].length - size
             F == FreeRecord(rest, [k |-> rest, v |-> tail])
  <2>1. CarvedExtents(x, f, 0, 0, size)
          = PutExtent(PutExtent(x, tail, F), f, CommittedRecord(size))
    <3>1. x[f].length + 0 = x[f].length /\ 0 + size = size
      BY <1>1
    <3> QED  BY <1>4, <3>1 DEF CarvedExtents
  <2>2. CarvedHeap(x, g, f, 0, 0, size) = HeapInsert(g, rest, tail)
    BY <1>1, <1>4 DEF CarvedHeap
  <2>3. Granted(x[f].length, 0, size) = size
    BY <1>1, <1>4 DEF Granted
  <2>4. t \in w /\ t.offset = f /\ t.length = x[f].length /\ y[f].length = x[f].length
    BY <1>1 DEF PutExtent, CommittedRecord
  <2>5. Consistent(PutExtent(PutExtent(y, tail, F), f, CommittedRecord(size)),
                   HeapInsert(g, rest, tail),
                   (w \ {t}) \cup {[offset |-> f, length |-> size]})
    <3>1. size \in Nat /\ 0 < size /\ size < t.length
          /\ tail = t.offset + size /\ rest = t.length - size
      BY <1>1, <1>4, <2>4
    <3> HIDE DEF y, g, w, t, f, tail, rest
    <3>2. Consistent(PutExtent(PutExtent(y, tail, F), t.offset, CommittedRecord(size)),
                     HeapInsert(g, rest, tail),
                     (w \ {t}) \cup {[offset |-> t.offset, length |-> size]})
      BY <1>2, <2>4, <3>1, SplitFreeConsistent, Zenon
    <3> QED  BY <2>4, <3>2
  <2>6. PutExtent(PutExtent(y, tail, F), f, CommittedRecord(size))
          = PutExtent(PutExtent(x, tail, F), f, CommittedRecord(size))
    <3> HIDE DEF F
    <3> QED  BY <1>1 DEF PutExtent
  <2>7. t \notin u
    BY <1>1, <2>4 DEF Consistent, Recorded
  <2>8. (w \ {t}) \cup {[offset |-> f, length |-> size]} = u \cup {[offset |-> f, length |-> size]}
    BY <2>7
  <2> QED  BY <2>1, <2>2, <2>3, <2>5, <2>6, <2>8, ZenonT(30)
<1> QED  BY <1>3, <1>4

(* mtl_reserve_extent, the way that extends last_extent, when the record   *)
(* of last_extent has the length its file shows.                           *)
LEMMA ExtendConsistent ==
    ASSUME NEW x, NEW h, NEW u, Consistent(x, h, u),
           NEW e \in u, x[e.offset].length = e.length,
           NEW n \in FreeOffsets(x), n = e.offset + e.length,
           NEW size \in Nat \ {0}
    PROVE  Consistent(CarvedExtents(DelExtent(x, n), e.offset, e.length, x[n].length, size),
                      CarvedHeap(DelExtent(x, n), HeapDelete(h, x[n].pq_node),
                                 e.offset, e.length, x[n].length, size),
                      (u \ {e}) \cup
                        {[offset |-> e.offset,
                          length |-> e.length +
                                       Granted(e.length + x[n].length, e.length, size)]})
<1> DEFINE a == x[n].length
           d == DelExtent(x, n)
           g == HeapDelete(h, x[n].pq_node)
           all == e.length + a
           total == e.length + size
<1>1. /\ e.offset \in Nat /\ e.length \in Nat /\ e.length > 0 /\ e.offset \in DOMAIN x
      /\ n # e.offset /\ n \in Nat /\ a \in Nat /\ a > 0 /\ all \in Nat /\ total \in Nat
  BY DEF Consistent, Typed, Recorded, FileExtent, FreeOffsets, WithinDevice, ExtentRecord
<1>2. d[e.offset] = x[e.offset]
  BY <1>1 DEF DelExtent
<1>3. CASE ~(all > total)
  <2>1. CarvedExtents(d, e.offset, e.length, a, size)
          = PutExtent(d, e.offset, CommittedRecord(e.length))
    BY <1>2, <1>3 DEF CarvedExtents
  <2>2. CarvedHeap(d, g, e.offset, e.length, a, size) = g
    BY <1>2, <1>3 DEF CarvedHeap
  <2>3. e.length + Granted(e.length + a, e.length, size) = e.length + a
    BY <1>1, <1>3 DEF Granted
  <2>4. Consistent(PutExtent(d, e.offset, CommittedRecord(e.length)), g,
                   (u \ {e}) \cup {[offset |-> e.offset, length |-> e.length + a]})
    <3>1. e.length <= e.length + x[n].length
      BY <1>1
    <3> QED  BY <1>1, <3>1, AbsorbConsistent
  <2> QED  BY <2>1, <2>2, <2>3, <2>4
<1>4. CASE all > total
  <2> DEFINE t == [offset |-> e.offset, length |-> all]
             y == PutExtent(d, e.offset, CommittedRecord(all))
             w == (u \ {e}) \cup {t}
             tail == e.offset + total
             rest == all - total
             F == FreeRecord(rest, [k |-> rest, v |-> tail])
  <2>1. CarvedExtents(d, e.offset, e.length, a, size)
          = PutExtent(PutExtent(d, tail, F), e.offset, CommittedRecord(total))
    BY <1>2, <1>4, ZenonT(30) DEF CarvedExtents
  <2>2. CarvedHeap(d, g, e.offset, e.length, a, size) = HeapInsert(g, rest, tail)
    BY <1>2, <1>4 DEF CarvedHeap
  <2>3. e.length + Granted(e.length + a, e.length, size) = total
    BY <1>1, <1>4 DEF Granted
  <2>4. Consistent(y, g, w)
    <3>1. 0 < all /\ all <= e.length + x[n].length
      BY <1>1
    <3> QED  BY <1>1, <3>1, AbsorbConsistent
  <2>5. t \in w /\ t.offset = e.offset /\ t.length = all /\ y[e.offset].length = all
    BY <1>1 DEF PutExtent, CommittedRecord
  <2>6. total \in Nat /\ 0 < total /\ total < all
    BY <1>1, <1>4
  <2>7. Consistent(PutExtent(PutExtent(y, tail, F), e.offset, CommittedRecord(total)),
                   HeapInsert(g, rest, tail),
                   (w \ {t}) \cup {[offset |-> e.offset, length |-> total]})
    <3>1. tail = t.offset + total /\ rest = t.length - total
      BY <2>5
    <3> HIDE DEF y, g, w, t, d, tail, rest, total, all
    <3>2. Consistent(PutExtent(PutExtent(y, tail, F), t.offset, CommittedRecord(total)),
                     HeapInsert(g, rest, tail),
                     (w \ {t}) \cup {[offset |-> t.offset, length |-> total]})
      BY <2>4, <2>5, <2>6, <3>1, SplitFreeConsistent, ZenonT(30)
    <3> QED  BY <2>5, <3>2
  <2>8. PutExtent(PutExtent(y, tail, F), e.offset, CommittedRecord(total))
          = PutExtent(PutExtent(d, tail, F), e.offset, CommittedRecord(total))
    <3> HIDE DEF F, d, total, tail
    <3> QED  BY Zenon DEF PutExtent
  <2>9. t \notin u \ {e}
    BY <1>1, <2>5, HeldByOffset
  <2>10. (w \ {t}) \cup {[offset |-> e.offset, length |-> total]}
          = (u \ {e}) \cup {[offset |-> e.offset, length |-> total]}
    BY <2>9
  <2> QED  BY <2>1, <2>2, <2>3, <2>7, <2>8, <2>10, ZenonT(30)
<1> QED  BY <1>3, <1>4

----------------------------------------------------------------------------
(* Type correctness, whether or not the allocator has lost track. *)

\* The type of the state, part by part.
LEMMA TypedSplit ==
    ASSUME NEW x, NEW h, NEW u
    PROVE  Typed(x, h, u) <=> TypedDb(x) /\ h \subseteq Node /\ u \subseteq FileExtent
BY DEF Typed, TypedDb

\* The database as format creates it is typed.
LEMMA InitTypeOK == Init => TypeOK
<1> SUFFICES ASSUME Init PROVE TypeOK
  OBVIOUS
<1> DEFINE none == [o \in {} |-> NoExtent]
           F == FreeRecord(NumBlocks, [k |-> NumBlocks, v |-> 0])
<1>1. TypedDb(none) /\ 0 \notin DOMAIN none
  BY DEF TypedDb
<1>2. F \in ExtentRecord
  BY NumBlocksAssumption, FreeRecordTyped
<1>3. TypedDb(PutExtent(none, 0, F))
  BY <1>1, <1>2, PutTypedDb
<1>4. TypedDb(extents)
  BY <1>1, <1>3 DEF Init, InitializedExtents
<1>5. heap \subseteq Node /\ held \subseteq FileExtent
  BY <1>1, NumBlocksAssumption DEF Init, InitializedHeap, HeapInsert, Node
<1> QED  BY <1>4, <1>5, TypedSplit DEF Init, TypeOK, Working, Snapshot

(* One step of mtl_expand_inode keeps the types. *)
LEMMA ExtendTypeOK ==
    ASSUME TypeOK, NEW last \in held, NEW size \in Sizes, Extend(last, size)
    PROVE  TypeOK'
<1>1. DbTyped /\ last \in FileExtent /\ size \in Nat
  BY SizesAssumption, TypedSplit DEF TypeOK, DbTyped
<1>2. DbTyped' /\ ExtendGranted(last, size) \in Nat
  BY <1>1, ExtendTyped DEF Extend
<1>3. [last EXCEPT !.length = @ + ExtendGranted(last, size)] \in FileExtent
  BY <1>1, <1>2 DEF FileExtent
<1>4. held' \subseteq FileExtent
  BY <1>3, TypedSplit DEF Extend, TypeOK
<1> QED  BY <1>2, <1>4, TypedSplit DEF DbTyped, Extend, TypeOK

\* Reserving a popped region keeps the types.
LEMMA AcquireTypeOK ==
    ASSUME TypeOK, NEW last \in held \cup {NoExtent}, NEW size \in Sizes,
           Acquire(last, size)
    PROVE  TypeOK'
<1>1. DbTyped /\ last \in FileExtent /\ size \in Nat
  BY SizesAssumption, TypedSplit DEF TypeOK, DbTyped, NoExtent, FileExtent
<1>2. PICK node \in heap :
        /\ PopExtent(node, size)
        /\ held' = IF last.length > 0 /\ last.offset = node.v
                   THEN (held \ {last})
                          \cup {[last EXCEPT !.length = @ + PopGranted(node, size)]}
                   ELSE held \cup {[offset |-> node.v,
                                    length |-> PopGranted(node, size)]}
  BY Zenon DEF Acquire
<1>3. DbTyped' /\ node.v \in Nat /\ PopGranted(node, size) \in Nat
  BY <1>1, <1>2, PopTyped
<1>4. held' \subseteq FileExtent
  <2>1. [last EXCEPT !.length = @ + PopGranted(node, size)] \in FileExtent
    BY <1>1, <1>3 DEF FileExtent
  <2>2. [offset |-> node.v, length |-> PopGranted(node, size)] \in FileExtent
    BY <1>3 DEF FileExtent
  <2> QED  BY <1>2, <2>1, <2>2, TypedSplit DEF TypeOK
<1> QED  BY <1>3, <1>4, TypedSplit DEF DbTyped, Acquire, TypeOK

\* Truncating an extent keeps the types.
LEMMA ShrinkTypeOK ==
    ASSUME TypeOK, NEW e \in held, NEW len \in 1 .. e.length, Shrink(e, len)
    PROVE  TypeOK'
<1>1. DbTyped /\ e \in FileExtent /\ len \in Nat
  BY TypedSplit DEF TypeOK, DbTyped, FileExtent
<1>2. DbTyped'
  BY <1>1, TruncateTyped DEF Shrink
<1>3. [e EXCEPT !.length = len] \in FileExtent
  BY <1>1 DEF FileExtent
<1>4. held' \subseteq FileExtent
  BY <1>3, TypedSplit DEF TypeOK, Shrink
<1> QED  BY <1>2, <1>4, TypedSplit DEF DbTyped, Shrink, TypeOK

\* Freeing a whole extent keeps the types.
LEMMA ReleaseTypeOK ==
    ASSUME TypeOK, NEW e \in held, Release(e)
    PROVE  TypeOK'
<1>1. DbTyped /\ held' \subseteq FileExtent
  BY TypedSplit DEF TypeOK, DbTyped, Release
<1>2. DbTyped'
  BY <1>1, FreeTyped DEF Release
<1> QED  BY <1>1, <1>2, TypedSplit DEF DbTyped, Release, TypeOK

(* So does a restart. *)
LEMMA RestartTypeOK ==
    ASSUME TypeOK, Restart
    PROVE  TypeOK'
<1>1. TypedDb(saved.extents) /\ saved.heap \in SUBSET Node /\ saved.held \subseteq FileExtent
  BY TypedSplit DEF TypeOK
<1>2. TypedDb(extents') /\ heap' \subseteq Node
  BY <1>1, InitializedTyped DEF Restart
<1>3. held' \subseteq FileExtent /\ missteps' \subseteq Misstep /\ running' \in BOOLEAN
  BY <1>1 DEF Restart, TypeOK
<1>4. /\ saved'.extents = extents' /\ saved'.heap = heap'
      /\ saved'.held = held' /\ saved'.missteps = missteps'
  BY DEF Restart, Working, Snapshot
<1> QED  BY <1>2, <1>3, <1>4, TypedSplit DEF TypeOK

(* The databases keep their shape whatever the files do, also after the    *)
(* allocator has lost track.                                               *)
THEOREM TypeCorrect == Spec => []TypeOK
<1>1. Init => TypeOK
  BY InitTypeOK
<1>2. TypeOK /\ [Next]_vars => TypeOK'
  <2> SUFFICES ASSUME TypeOK, [Next]_vars PROVE TypeOK'
    OBVIOUS
  <2>1. ASSUME NEW last \in held, NEW size \in Sizes, Extend(last, size) PROVE TypeOK'
    BY <2>1, ExtendTypeOK
  <2>2. ASSUME NEW last \in held \cup {NoExtent}, NEW size \in Sizes, Acquire(last, size)
        PROVE  TypeOK'
    BY <2>2, AcquireTypeOK
  <2>3. ASSUME NEW last \in held \cup {NoExtent}, Abort(last) PROVE TypeOK'
    BY <2>3, Zenon DEF Abort, TypeOK
  <2>4. ASSUME NEW e \in held, NEW len \in 1 .. e.length, Shrink(e, len) PROVE TypeOK'
    BY <2>4, ShrinkTypeOK
  <2>5. ASSUME NEW e \in held, Release(e) PROVE TypeOK'
    BY <2>5, ReleaseTypeOK
  <2>6. CASE Commit
    BY <2>6 DEF Commit, Working, Snapshot, TypeOK
  <2>7. CASE Restart
    BY <2>7, RestartTypeOK
  <2>8. CASE UNCHANGED vars
    BY <2>8 DEF vars, TypeOK
  <2> QED  BY <2>1, <2>2, <2>3, <2>4, <2>5, <2>6, <2>7, <2>8 DEF Next
<1> QED  BY <1>1, <1>2, PTL DEF Spec

----------------------------------------------------------------------------
(* The main invariant: while the allocator is on track, the databases are  *)
(* consistent with the files' lists, in the running transaction and in     *)
(* the committed state.                                                    *)

IndInv ==
    /\ TypeOK
    /\ missteps = {} => Consistent(extents, heap, held)
    /\ saved.missteps = {} => Consistent(saved.extents, saved.heap, saved.held)
    /\ AbortsOnlyWhenFull

\* Writing an extent of a file again with its own length changes nothing.
LEMMA RecommitConsistent ==
    ASSUME NEW x, NEW h, NEW u, Consistent(x, h, u),
           NEW e \in u, x[e.offset].length = e.length
    PROVE  Consistent(PutExtent(x, e.offset, CommittedRecord(e.length)), h, u)
<1> DEFINE y == PutExtent(x, e.offset, CommittedRecord(e.length))
<1>1. e.offset \in DOMAIN x \ FreeOffsets(x) /\ e.offset \in Nat /\ e.length \in Nat
  BY DEF Consistent, Typed, Recorded, FileExtent
<1>2. Typed(y, h, u)
  <2>1. CommittedRecord(e.length) \in ExtentRecord
    BY <1>1 DEF CommittedRecord, INVALID_NODE, ExtentRecord, Node, Statuses
  <2>2. DOMAIN y \subseteq Nat /\ y \in [DOMAIN y -> ExtentRecord]
    BY <1>1, <2>1, PutTyped DEF Consistent, Typed
  <2> QED  BY <2>2 DEF Consistent, Typed
<1>3. /\ DOMAIN y = DOMAIN x
      /\ \A o \in DOMAIN x : o # e.offset => y[o] = x[o]
      /\ y[e.offset].length = x[e.offset].length /\ y[e.offset].status # "FREE"
  BY <1>1 DEF PutExtent, CommittedRecord
<1>4. FreeOffsets(y) = FreeOffsets(x) /\ \A o \in FreeOffsets(x) : y[o] = x[o]
  BY <1>1, <1>3 DEF FreeOffsets
<1>5. \A o \in DOMAIN x : y[o].length = x[o].length
  BY <1>3
<1> HIDE DEF y
<1>6. NoSharing(y, u) /\ WithinDevice(y, u) /\ Covering(y, u)
  BY <1>4 DEF Consistent, NoSharing, WithinDevice, Covering
<1>7. HeapExact(y, h)
  BY <1>4 DEF Consistent, HeapExact
<1>8. Recorded(y, u)
  BY <1>3, <1>4, <1>5 DEF Consistent, Recorded
<1> QED  BY <1>2, <1>6, <1>7, <1>8 DEF Consistent, y

(* mtl_free_extent on a consistent database, unless it loses track. *)
LEMMA FreeExtentConsistent ==
    ASSUME NEW db, NEW u, Consistent(db, heap, u), NEW f \in u,
           db[f.offset].length = f.length,
           NEW noted, FreeExtent(db, f.offset, noted), missteps' = {}
    PROVE  Consistent(extents', heap', u \ {f})
<1>1. CASE /\ heap' = HeapInsert(heap, db[f.offset].length, f.offset)
           /\ extents' = PutExtent(db, f.offset,
                           FreeRecord(db[f.offset].length,
                             [k |-> db[f.offset].length, v |-> f.offset]))
  BY <1>1, FreeAloneConsistent
<1>2. ASSUME NEW n \in FreeNext(db, f.offset), n = f.offset + db[f.offset].length,
             NEW size, size = db[f.offset].length + db[n].length,
             heap' = HeapInsert(HeapDelete(heap, db[n].pq_node), size, f.offset),
             extents' = PutExtent(DelExtent(db, n), f.offset,
                          FreeRecord(size, [k |-> size, v |-> f.offset]))
      PROVE  Consistent(extents', heap', u \ {f})
  <2>1. n \in FreeOffsets(db)
    BY DEF FreeNext, MdbNext, FreeOffsets
  <2> QED  BY <1>2, <2>1, FreeMergeConsistent
<1>3. ASSUME NEW n \in FreeNext(db, f.offset),
             LET size == db[f.offset].length + db[n].length
                 gap == IF n = f.offset + db[f.offset].length THEN {} ELSE {"gap"}
             IN  /\ heap' = HeapInsert(HeapDelete(heap, db[n].pq_node), size, f.offset)
                 /\ extents' = PutExtent(DelExtent(db, n), f.offset,
                                 FreeRecord(size, [k |-> size, v |-> f.offset]))
                 /\ missteps' = noted \cup gap
      PROVE  Consistent(extents', heap', u \ {f})
  <2>1. n = f.offset + db[f.offset].length
    BY <1>3, Zenon
  <2> QED  BY <1>2, <1>3, <2>1
<1>4. ~(\E n : \E m : missteps' = n \cup m \cup {"twice"})
  OBVIOUS
<1> QED  BY <1>1, <1>3, <1>4, Zenon DEF FreeExtent

\* Extending the last extent of a file keeps the invariant.
LEMMA ExtendIndInv ==
    ASSUME IndInv, NEW last \in held, NEW size \in Sizes, Extend(last, size)
    PROVE  IndInv'
<1> DEFINE next == last.offset + last.length
           g == [offset |-> last.offset, length |-> last.length + ExtendGranted(last, size)]
<1>1. TypeOK'
  BY ExtendTypeOK DEF IndInv
<1>2. running /\ running' /\ saved' = saved
  BY DEF Extend
<1>3. ASSUME missteps' = {} PROVE Consistent(extents', heap', held')
  <2>1. missteps = {} /\ extents[last.offset].length = last.length
    BY <1>3 DEF Extend, ExtendExtent, Short
  <2>2. Consistent(extents, heap, held)
    BY <2>1, Zenon DEF IndInv
  <2>3. next \in FreeOffsets(extents)
    BY DEF Extend, ExtendExtent, CanExtend, FreeOffsets
  <2>4. /\ extents' = CarvedExtents(DelExtent(extents, next), last.offset, last.length,
                                    extents[next].length, size)
        /\ heap' = CarvedHeap(DelExtent(extents, next),
                              HeapDelete(heap, extents[next].pq_node), last.offset,
                              last.length, extents[next].length, size)
    BY <2>1 DEF Extend, ExtendExtent
  <2>5. ExtendGranted(last, size)
          = Granted(last.length + extents[next].length, last.length, size)
    BY <2>1 DEF ExtendGranted
  <2>6. last \in FileExtent /\ size \in Nat \ {0}
    BY SizesAssumption DEF IndInv, TypeOK, Typed
  <2>7. [last EXCEPT !.length = @ + ExtendGranted(last, size)] = g
    BY <2>6 DEF FileExtent
  <2>8. held' = (held \ {last}) \cup {g}
    BY <2>7 DEF Extend
  <2> QED  BY <2>1, <2>2, <2>3, <2>4, <2>5, <2>6, <2>8, ExtendConsistent, Zenon
<1> QED  BY <1>1, <1>2, <1>3, ZenonT(30) DEF IndInv, AbortsOnlyWhenFull

\* Popping the largest free region keeps the invariant.
LEMMA AcquireIndInv ==
    ASSUME IndInv, NEW last \in held \cup {NoExtent}, NEW size \in Sizes,
           Acquire(last, size)
    PROVE  IndInv'
<1>1. TypeOK'
  BY AcquireTypeOK, Zenon DEF IndInv
<1>2. running /\ running' /\ saved' = saved
  BY DEF Acquire
<1>3. ASSUME missteps' = {} PROVE Consistent(extents', heap', held')
  <2>1. PICK node \in heap :
          /\ PopExtent(node, size)
          /\ held' = IF last.length > 0 /\ last.offset = node.v
                     THEN (held \ {last})
                            \cup {[last EXCEPT !.length = @ + PopGranted(node, size)]}
                     ELSE held \cup {[offset |-> node.v,
                                      length |-> PopGranted(node, size)]}
    BY ZenonT(30) DEF Acquire
  <2>2. Consistent(extents, heap, held)
    BY <1>3, <2>1 DEF IndInv, PopExtent
  <2>3. ~(last.length > 0 /\ last.offset = node.v)
    <3>1. node.v \in FreeOffsets(extents)
      BY <2>2, ZenonT(30) DEF Consistent, HeapExact
    <3>2. CASE last \in held
      BY <2>2, <3>1, <3>2, Zenon DEF Consistent, Recorded
    <3>3. CASE last = NoExtent
      BY <3>3 DEF NoExtent
    <3> QED  BY <3>2, <3>3
  <2>4. held' = held \cup {[offset |-> node.v,
                            length |-> Granted(extents[node.v].length, 0, size)]}
    BY <2>1, <2>3 DEF PopGranted
  <2>5. size \in Nat \ {0}
    BY SizesAssumption
  <2> QED  BY <2>1, <2>2, <2>4, <2>5, PopConsistent DEF PopExtent
<1> QED  BY <1>1, <1>2, <1>3, ZenonT(30) DEF IndInv, AbortsOnlyWhenFull

\* A reserve that gives up keeps the invariant.
LEMMA AbortIndInv ==
    ASSUME IndInv, NEW last \in held \cup {NoExtent}, Abort(last)
    PROVE  IndInv'
<1>1. UNCHANGED <<extents, heap, missteps, held, saved>> /\ TypeOK'
  BY Zenon DEF Abort, IndInv, TypeOK
<1>2. ASSUME missteps = {} PROVE FreeOffsets(extents) = {}
  <2>1. Consistent(extents, heap, held)
    BY <1>2 DEF IndInv
  <2>2. last.length > 0 => last \in held
    BY DEF NoExtent
  <2>3. last.length > 0 => last.offset \in DOMAIN extents
    BY <2>1, <2>2 DEF Consistent, Recorded
  <2>4. CanExtend(last) => ExtendAsserts(last)
    BY <2>1, <2>3, Zenon DEF CanExtend, ExtendAsserts, FreeOffsets, Consistent, HeapExact
  <2>5. \A node \in heap : node.v \in DOMAIN extents
    BY <2>1 DEF Consistent, HeapExact, FreeOffsets
  <2>6. heap = {}
    BY <2>3, <2>4, <2>5 DEF Abort, ReserveAborts
  <2> QED  BY <2>1, <2>6 DEF Consistent, HeapExact
<1> QED  BY <1>1, <1>2 DEF IndInv, AbortsOnlyWhenFull

\* Truncating an extent keeps the invariant, whatever is left beside it.
LEMMA ShrinkIndInv ==
    ASSUME IndInv, NEW e \in held, NEW len \in 1 .. e.length, Shrink(e, len)
    PROVE  IndInv'
<1> DEFINE noted == missteps \cup Short(e)
           l == [offset |-> e.offset, length |-> len]
           r == [offset |-> e.offset + len, length |-> e.length - len]
           db == PutExtent(PutExtent(extents, e.offset, CommittedRecord(len)),
                           e.offset + len, ReservedRecord(e.length - len))
           w == (held \ {e}) \cup {l, r}
<1>1. TypeOK'
  BY ShrinkTypeOK DEF IndInv
<1>2. running /\ running' /\ saved' = saved
  BY DEF Shrink
<1>3. ASSUME missteps' = {} PROVE Consistent(extents', heap', held')
  <2>1. noted = {}
    <3>1. noted \subseteq missteps'
      BY Zenon DEF Shrink, TruncateExtent, FreeExtent
    <3> QED  BY <1>3, <3>1
  <2>2. missteps = {} /\ extents[e.offset].length = e.length
    BY <2>1 DEF Short
  <2>3. Consistent(extents, heap, held)
    BY <2>2 DEF IndInv
  <2>4. e \in FileExtent /\ e.offset \in Nat /\ e.length \in Nat /\ len \in Nat /\ 0 < len
    BY DEF IndInv, TypeOK, Typed, FileExtent
  <2>5. [e EXCEPT !.length = len] = l
    BY <2>4 DEF FileExtent
  <2>6. held' = (held \ {e}) \cup {l}
    BY <2>5 DEF Shrink
  <2>7. CASE e.length > len
    <3>1. FreeExtent(db, e.offset + len, noted)
      BY <2>2, <2>7 DEF Shrink, TruncateExtent, ReservedRecord
    <3>2. Consistent(db, heap, w)
      BY <2>2, <2>3, <2>4, <2>7, SplitConsistent, Zenon
    <3>3. r \in w /\ r.offset = e.offset + len /\ r.length = e.length - len
      OBVIOUS
    <3>4. db[r.offset].length = r.length
      BY <3>3 DEF PutExtent, ReservedRecord
    <3>5. r \notin held \ {e}
      <4> SUFFICES ASSUME r \in held \ {e} PROVE FALSE
        OBVIOUS
      <4>1. Apart(r.offset, r.length, e.offset, e.length)
        BY <2>3 DEF Consistent, NoSharing
      <4> QED  BY <2>4, <2>7, <3>3, <4>1 DEF Apart
    <3>6. r # l
      BY <2>4, <3>3
    <3>7. w \ {r} = held'
      BY <2>6, <3>5, <3>6
    <3>8. Consistent(extents', heap', w \ {r})
      <4> HIDE DEF db, w, r, noted
      <4> QED  BY <1>3, <3>1, <3>2, <3>3, <3>4, FreeExtentConsistent
    <3> QED  BY <3>7, <3>8, Zenon
  <2>8. CASE ~(e.length > len)
    <3>1. len = e.length
      BY <2>4, <2>8
    <3>2. extents' = PutExtent(extents, e.offset, CommittedRecord(e.length)) /\ heap' = heap
      BY <2>2, <2>8, <3>1 DEF Shrink, TruncateExtent
    <3>3. held' = held
      BY <2>4, <2>6, <3>1 DEF FileExtent
    <3> QED  BY <2>2, <2>3, <3>2, <3>3, RecommitConsistent
  <2> QED  BY <2>7, <2>8
<1> QED  BY <1>1, <1>2, <1>3 DEF IndInv, AbortsOnlyWhenFull

\* Freeing an extent keeps the invariant.
LEMMA ReleaseIndInv ==
    ASSUME IndInv, NEW e \in held, Release(e)
    PROVE  IndInv'
<1>1. TypeOK'
  BY ReleaseTypeOK DEF IndInv
<1>2. running /\ running' /\ saved' = saved
  BY DEF Release
<1>3. ASSUME missteps' = {} PROVE Consistent(extents', heap', held')
  <2>1. missteps \cup Short(e) \subseteq missteps'
    BY Zenon DEF Release, FreeExtent
  <2>2. missteps = {} /\ extents[e.offset].length = e.length
    BY <1>3, <2>1 DEF Short
  <2>3. Consistent(extents, heap, held)
    BY <2>2 DEF IndInv
  <2> QED  BY <1>3, <2>2, <2>3, FreeExtentConsistent DEF Release
<1> QED  BY <1>1, <1>2, <1>3 DEF IndInv, AbortsOnlyWhenFull

\* the extent database always has a record for block 0
LEMMA FirstBlockRecorded ==
    ASSUME NEW x, NEW h, NEW u, Consistent(x, h, u)
    PROVE  0 \in DOMAIN x
<1>1. 0 \in 0 .. NumBlocks - 1
  BY NumBlocksAssumption
<1>2. CASE \E a \in u : a.offset <= 0 /\ 0 < a.offset + a.length
  BY <1>2 DEF Consistent, Typed, Recorded, FileExtent
<1>3. CASE \E o \in FreeOffsets(x) : o <= 0 /\ 0 < o + x[o].length
  BY <1>3 DEF Consistent, Typed, FreeOffsets
<1> QED  BY <1>1, <1>2, <1>3 DEF Consistent, Covering

\* A restart after an abort keeps the invariant.
LEMMA RestartIndInv ==
    ASSUME IndInv, Restart
    PROVE  IndInv'
<1>1. TypeOK'
  BY RestartTypeOK DEF IndInv
<1>2. /\ saved'.extents = extents' /\ saved'.heap = heap'
      /\ saved'.held = held' /\ saved'.missteps = missteps' /\ running'
  BY DEF Restart, Working, Snapshot
<1>3. ASSUME missteps' = {} PROVE Consistent(extents', heap', held')
  <2>1. Consistent(saved.extents, saved.heap, saved.held)
    BY <1>3 DEF Restart, IndInv
  <2>2. 0 \in DOMAIN saved.extents
    BY <2>1, FirstBlockRecorded
  <2> QED  BY <2>1, <2>2 DEF Restart, InitializedExtents, InitializedHeap
<1> QED  BY <1>1, <1>2, <1>3 DEF IndInv, AbortsOnlyWhenFull

\* The invariant holds once the storage is formatted.
LEMMA InitIndInv == Init => IndInv
<1> SUFFICES ASSUME Init PROVE IndInv
  OBVIOUS
<1> DEFINE node == [k |-> NumBlocks, v |-> 0]
<1>1. TypeOK /\ NumBlocks \in Nat /\ NumBlocks > 0
  BY InitTypeOK, NumBlocksAssumption
<1>2. /\ DOMAIN extents = {0} /\ extents[0] = FreeRecord(NumBlocks, node)
      /\ heap = {node} /\ held = {}
  BY DEF Init, InitializedExtents, InitializedHeap, PutExtent, HeapInsert
<1>3. extents[0].status = "FREE" /\ extents[0].length = NumBlocks /\ extents[0].pq_node = node
  BY <1>2 DEF FreeRecord
<1>4. FreeOffsets(extents) = {0}
  BY <1>2, <1>3 DEF FreeOffsets
<1>5. NoSharing(extents, held) /\ WithinDevice(extents, held)
  BY <1>1, <1>2, <1>3, <1>4 DEF NoSharing, WithinDevice
<1>6. Covering(extents, held)
  BY <1>1, <1>3, <1>4 DEF Covering
<1>7. HeapExact(extents, heap)
  BY <1>2, <1>3, <1>4 DEF HeapExact
<1>8. Recorded(extents, held)
  BY <1>2, <1>4 DEF Recorded
<1>9. Consistent(extents, heap, held)
  BY <1>1, <1>5, <1>6, <1>7, <1>8 DEF Consistent, TypeOK
<1> QED  BY <1>1, <1>9 DEF Init, IndInv, AbortsOnlyWhenFull, Working, Snapshot

\* Every operation of the allocator keeps the invariant.
LEMMA NextIndInv == IndInv /\ [Next]_vars => IndInv'
<1> SUFFICES ASSUME IndInv, [Next]_vars PROVE IndInv'
  OBVIOUS
<1>1. ASSUME NEW last \in held, NEW size \in Sizes, Extend(last, size) PROVE IndInv'
  BY <1>1, ExtendIndInv
<1>2. ASSUME NEW last \in held \cup {NoExtent}, NEW size \in Sizes, Acquire(last, size)
      PROVE  IndInv'
  BY <1>2, AcquireIndInv
<1>3. ASSUME NEW last \in held \cup {NoExtent}, Abort(last) PROVE IndInv'
  BY <1>3, AbortIndInv
<1>4. ASSUME NEW e \in held, NEW len \in 1 .. e.length, Shrink(e, len) PROVE IndInv'
  BY <1>4, ShrinkIndInv
<1>5. ASSUME NEW e \in held, Release(e) PROVE IndInv'
  BY <1>5, ReleaseIndInv
<1>6. CASE Commit
  <2>1. TypeOK'
    BY <1>6 DEF Commit, Working, Snapshot, TypeOK, IndInv
  <2> QED  BY <1>6, <2>1 DEF Commit, Working, Snapshot, IndInv, AbortsOnlyWhenFull
<1>7. CASE Restart
  BY <1>7, RestartIndInv
<1>8. CASE UNCHANGED vars
  BY <1>8 DEF vars, IndInv, TypeOK, AbortsOnlyWhenFull
<1> QED  BY <1>1, <1>2, <1>3, <1>4, <1>5, <1>6, <1>7, <1>8 DEF Next

\* The invariant holds in every reachable state.
LEMMA Invariance == Spec => []IndInv
BY InitIndInv, NextIndInv, PTL DEF Spec

(* Every block belongs to exactly one file extent or one free extent until *)
(* the allocator loses track, for every device, byte order and request.    *)
THEOREM PartitionCorrect == Spec => []BlocksPartitioned
<1>1. IndInv => BlocksPartitioned
  BY DEF IndInv, Consistent, BlocksPartitioned
<1> QED  BY <1>1, Invariance, PTL

(* The heap indexes exactly the free extents until the allocator loses     *)
(* track.                                                                  *)
THEOREM HeapCorrect == Spec => []HeapIndexesFreeExtents
<1>1. IndInv => HeapIndexesFreeExtents
  BY DEF IndInv, Consistent, HeapIndexesFreeExtents
<1> QED  BY <1>1, Invariance, PTL

(* Until the allocator loses track, no assertion of mtl_reserve_extent     *)
(* fails, and that of mtl_expand_inode fails only on a full device.        *)
THEOREM AssertionsCorrect == Spec => []AbortsOnlyWhenFull
<1>1. IndInv => AbortsOnlyWhenFull
  BY DEF IndInv
<1> QED  BY <1>1, Invariance, PTL

(* A restart at any moment, also in the middle of a transaction, finds a   *)
(* consistent allocator, unless a committed transaction had lost track.    *)
THEOREM RecoveryCorrect == Spec => []RecoverableState
<1>1. IndInv => RecoverableState
  BY FirstBlockRecorded DEF IndInv, Consistent, RecoverableState
<1> QED  BY <1>1, Invariance, PTL

----------------------------------------------------------------------------
(* The allocator implements the block pool as long as it is on track. *)

OnTrackInv == IndInv /\ missteps = {} /\ saved.missteps = {}

\* As long as no operation has lost track, the stronger invariant holds.
LEMMA OnTrackInvariance == SpecOnTrack => []OnTrackInv
<1>1. Init => OnTrackInv
  BY InitIndInv DEF Init, OnTrackInv, Working, Snapshot
<1>2. OnTrackInv /\ [Next /\ missteps' = {}]_vars => OnTrackInv'
  <2> SUFFICES ASSUME OnTrackInv, [Next /\ missteps' = {}]_vars PROVE OnTrackInv'
    OBVIOUS
  <2>1. IndInv'
    BY NextIndInv DEF OnTrackInv
  <2>2. missteps' = {}
    BY DEF OnTrackInv, vars
  <2>3. saved'.missteps = {}
    BY <2>2 DEF OnTrackInv, Next, Extend, Acquire, Abort, Shrink, Release, Commit, Restart,
             Working, Snapshot, vars
  <2> QED  BY <2>1, <2>2, <2>3 DEF OnTrackInv
<1> QED  BY <1>1, <1>2, PTL DEF SpecOnTrack

\* What a reserve grants is at least one block and no more than is free.
LEMMA GrantedBounds ==
    ASSUME NEW own \in Nat, NEW free \in Nat, free > 0, NEW size \in Nat, size > 0
    PROVE  /\ Granted(own + free, own, size) \in Nat
           /\ Granted(own + free, own, size) > 0
           /\ Granted(own + free, own, size) <= free
  BY DEF Granted

\* Extending in place is a growth of the pool's region.
LEMMA ExtendGrows ==
    ASSUME OnTrackInv, NEW last \in held, NEW size \in Sizes, Extend(last, size),
           missteps' = {}
    PROVE  \E n \in 1 .. NumBlocks : Pool!Grow(last, n)
<1> DEFINE next == last.offset + last.length
           n == ExtendGranted(last, size)
           g == [offset |-> next, length |-> n]
<1>1. Consistent(extents, heap, held) /\ size \in Nat /\ size > 0
  BY SizesAssumption DEF OnTrackInv, IndInv
<1>2. extents[last.offset].length = last.length /\ next \in FreeOffsets(extents)
  BY DEF Extend, ExtendExtent, Short, CanExtend, FreeOffsets
<1>3. /\ last.offset \in Nat /\ last.length \in Nat /\ next \in Nat
      /\ extents[next].length \in Nat /\ extents[next].length > 0
      /\ next + extents[next].length <= NumBlocks
  BY <1>1, <1>2 DEF Consistent, Typed, FileExtent, FreeOffsets, ExtentRecord, WithinDevice
<1>4. n \in Nat /\ n > 0 /\ n <= extents[next].length /\ n \in 1 .. NumBlocks
  <2>1. n = Granted(last.length + extents[next].length, last.length, size)
    BY <1>2 DEF ExtendGranted
  <2> DEFINE free == extents[next].length
  <2> HIDE DEF n
  <2>2. n \in Nat /\ n > 0 /\ n <= free
    <3>1. last.length \in Nat /\ free \in Nat /\ free > 0 /\ size \in Nat /\ size > 0
      BY <1>1, <1>3, Zenon
    <3>2. n = Granted(last.length + free, last.length, size)
      BY <2>1
    <3> HIDE DEF free
    <3> QED  BY <3>1, <3>2, GrantedBounds, Zenon
  <2> QED  BY <1>3, <2>2, NumBlocksAssumption
<1>5. g.offset = next /\ g.length = n
  OBVIOUS
<1> HIDE DEF g, n
<1>6. Pool!Unused(g)
  <2>1. g.offset + g.length <= NumBlocks
    BY <1>3, <1>4, <1>5, NumBlocksAssumption
  <2>2. ASSUME NEW a \in held PROVE Pool!Apart(a, g)
    <3>1. Apart(a.offset, a.length, next, extents[next].length)
      BY <1>1, <1>2 DEF Consistent, NoSharing
    <3>2. a.offset \in Nat /\ a.length \in Nat
      BY <1>1 DEF Consistent, Typed, FileExtent
    <3> QED  BY <1>3, <1>4, <1>5, <3>1, <3>2 DEF Apart, Pool!Apart
  <2> QED  BY <2>1, <2>2 DEF Pool!Unused
<1>7. held' = (held \ {last}) \cup {[last EXCEPT !.length = @ + n]} /\ saved'.held = saved.held
  BY DEF Extend, n
<1> QED  BY <1>4, <1>6, <1>7 DEF Pool!Grow, g

\* Popping a region is the pool's taking of one.
LEMMA AcquireTakes ==
    ASSUME OnTrackInv, NEW last \in held \cup {NoExtent}, NEW size \in Sizes,
           Acquire(last, size)
    PROVE  \E e \in Pool!Region : Pool!Take(e)
<1>1. Consistent(extents, heap, held) /\ size \in Nat /\ size > 0
  BY SizesAssumption DEF OnTrackInv, IndInv
<1>2. PICK node \in heap :
        held' = IF last.length > 0 /\ last.offset = node.v
                THEN (held \ {last})
                       \cup {[last EXCEPT !.length = @ + PopGranted(node, size)]}
                ELSE held \cup {[offset |-> node.v, length |-> PopGranted(node, size)]}
  BY ZenonT(30) DEF Acquire
<1> DEFINE n == PopGranted(node, size)
           g == [offset |-> node.v, length |-> n]
           avail == extents[node.v].length
<1>3. /\ node.v \in FreeOffsets(extents) /\ node.v \in Nat /\ avail \in Nat /\ avail > 0
      /\ node.v + avail <= NumBlocks
  BY <1>1 DEF Consistent, Typed, HeapExact, FreeOffsets, WithinDevice, ExtentRecord
<1>4. ~(last.length > 0 /\ last.offset = node.v)
  <2>1. CASE last \in held
    BY <1>1, <1>3, <2>1 DEF Consistent, Recorded
  <2>2. CASE last = NoExtent
    BY <2>2 DEF NoExtent
  <2> QED  BY <2>1, <2>2
<1>5. n \in Nat /\ n > 0 /\ n <= avail
  <2>1. n = Granted(avail, 0, size) /\ 0 + avail = avail
    BY <1>3 DEF PopGranted
  <2> HIDE DEF n, avail
  <2> QED  BY <1>1, <1>3, <2>1, GrantedBounds
<1>6. g.offset = node.v /\ g.length = n
  OBVIOUS
<1>7. g \in Pool!Region
  BY <1>3, <1>5, NumBlocksAssumption DEF Pool!Region
<1> HIDE DEF n, g
<1>8. Pool!Unused(g)
  <2>1. g.offset + g.length <= NumBlocks
    BY <1>3, <1>5, <1>6, NumBlocksAssumption
  <2>2. ASSUME NEW a \in held PROVE Pool!Apart(a, g)
    <3>1. Apart(a.offset, a.length, node.v, avail)
      BY <1>1, <1>3 DEF Consistent, NoSharing
    <3>2. a.offset \in Nat /\ a.length \in Nat
      BY <1>1 DEF Consistent, Typed, FileExtent
    <3> QED  BY <1>3, <1>5, <1>6, <3>1, <3>2 DEF Apart, Pool!Apart
  <2> QED  BY <2>1, <2>2 DEF Pool!Unused
<1>9. held' = held \cup {g} /\ saved'.held = saved.held
  BY <1>2, <1>4 DEF Acquire, g, n
<1> QED  BY <1>7, <1>8, <1>9 DEF Pool!Take

(* mtl_reserve_extent, mtl_truncate_extent and mtl_free_extent implement   *)
(* the block pool in every behaviour in which the allocator does not lose  *)
(* track.                                                                  *)
THEOREM PoolImplemented == SpecOnTrack => ImplementsPool
<1>1. Init => Pool!Init
  BY DEF Init, Working, Snapshot, Pool!Init
<1>2. OnTrackInv /\ [Next /\ missteps' = {}]_vars => [Pool!Next]_(Pool!vars)
  <2> SUFFICES ASSUME OnTrackInv, [Next /\ missteps' = {}]_vars
               PROVE  Pool!Next \/ UNCHANGED Pool!vars
    OBVIOUS
  <2>1. ASSUME NEW last \in held, NEW size \in Sizes, Extend(last, size), missteps' = {}
        PROVE  Pool!Next
    BY <2>1, ExtendGrows DEF Pool!Next
  <2>2. ASSUME NEW last \in held \cup {NoExtent}, NEW size \in Sizes, Acquire(last, size)
        PROVE  Pool!Next
    BY <2>2, AcquireTakes DEF Pool!Next
  <2>3. ASSUME NEW last \in held \cup {NoExtent}, Abort(last)
        PROVE  UNCHANGED Pool!vars
    BY <2>3 DEF Abort, Pool!vars
  <2>4. ASSUME NEW e \in held, NEW len \in 1 .. e.length, Shrink(e, len)
        PROVE  Pool!Next
    BY <2>4 DEF Shrink, Pool!Shrink, Pool!Next
  <2>5. ASSUME NEW e \in held, Release(e) PROVE Pool!Next
    BY <2>5 DEF Release, Pool!Drop, Pool!Next
  <2>6. CASE Commit
    BY <2>6 DEF Commit, Working, Snapshot, Pool!Commit, Pool!Next
  <2>7. CASE Restart
    BY <2>7 DEF Restart, Working, Snapshot, Pool!Rollback, Pool!Next
  <2>8. CASE UNCHANGED vars
    BY <2>8 DEF vars, Pool!vars
  <2> QED  BY <2>1, <2>2, <2>3, <2>4, <2>5, <2>6, <2>7, <2>8 DEF Next
<1> QED  BY <1>1, <1>2, OnTrackInvariance, PTL DEF SpecOnTrack, ImplementsPool, Pool!Spec

----------------------------------------------------------------------------
(* Files that only grow.  The free blocks then form a single extent, and   *)
(* the only record that can fall short of its file's extent is the one     *)
(* that has swallowed the last free block.                                 *)

Snug(x, u) ==
    /\ \A o, p \in FreeOffsets(x) : o = p
    /\ FreeOffsets(x) # {} => \A a \in u : x[a.offset].length = a.length

GrowingInv ==
    /\ OnTrackInv
    /\ Snug(extents, held)
    /\ Snug(saved.extents, saved.held)

\* The record of a committed extent.
LEMMA CommittedFacts ==
    \A n : CommittedRecord(n).length = n /\ CommittedRecord(n).status # "FREE"
  BY DEF CommittedRecord

(* The second half of mtl_reserve_extent leaves at most the tail free when *)
(* the extent it cuts was the only free one.                               *)
LEMMA CarvedSnug ==
    ASSUME NEW x, NEW o \in DOMAIN x, FreeOffsets(x) \subseteq {o},
           NEW u, NEW t, t.offset = o,
           NEW original \in Nat, NEW append \in Nat, NEW size \in Nat,
           o \in Nat, x[o].length \in Nat,
           x[o].length + append > original + size => t.length = original + size,
           NEW y, y = CarvedExtents(x, o, original, append, size),
           \A a \in u \cup {t} : a.offset \notin FreeOffsets(y),
           \A a \in u : a.offset \in DOMAIN x \ {o} /\ x[a.offset].length = a.length
    PROVE  Snug(y, u \cup {t})
<1> DEFINE total == original + size
           length == x[o].length + append
           tail == o + total
           F == FreeRecord(length - total, [k |-> length - total, v |-> tail])
<1>1. CASE length > total
  <2>1. y = PutExtent(PutExtent(x, tail, F), o, CommittedRecord(total)) /\ F.status = "FREE"
    BY <1>1 DEF CarvedExtents, FreeRecord
  <2>0. t.length = total
    BY <1>1
  <2> HIDE DEF total, length, tail, F
  <2>2. /\ DOMAIN y = DOMAIN x \cup {tail}
        /\ y[o] = CommittedRecord(total)
        /\ \A p \in DOMAIN x : p # o /\ p # tail => y[p] = x[p]
        /\ tail # o => y[tail] = F
    BY <2>1 DEF PutExtent
  <2>3. y[o].length = total /\ y[o].status # "FREE"
    BY <2>2, CommittedFacts
  <2>4. FreeOffsets(y) \subseteq {tail}
    BY <2>2, <2>3 DEF FreeOffsets
  <2>5. ASSUME NEW a \in u PROVE y[a.offset].length = a.length
    <3>1. a.offset # tail
      <4>1. tail # o => y[tail].status = "FREE"
        BY <2>1, <2>2
      <4> QED  BY <2>2, <4>1 DEF FreeOffsets
    <3> QED  BY <2>2, <3>1
  <2>6. y[t.offset].length = t.length
    BY <2>0, <2>3
  <2> QED  BY <2>4, <2>5, <2>6 DEF Snug
<1>2. CASE ~(length > total)
  <2>1. y = PutExtent(x, o, CommittedRecord(x[o].length))
    BY <1>2 DEF CarvedExtents
  <2>2. /\ DOMAIN y = DOMAIN x
        /\ y[o].status # "FREE"
        /\ \A p \in DOMAIN x : p # o => y[p] = x[p]
    <3>1. /\ DOMAIN y = DOMAIN x
          /\ y[o] = CommittedRecord(x[o].length)
          /\ \A p \in DOMAIN x : p # o => y[p] = x[p]
      BY <2>1, Zenon DEF PutExtent
    <3> QED  BY <3>1, CommittedFacts
  <2>3. FreeOffsets(y) = {}
    BY <2>2 DEF FreeOffsets
  <2> QED  BY <2>3 DEF Snug
<1> QED  BY <1>1, <1>2

\* Extending keeps the invariant of histories that only grow.
LEMMA ExtendGrowing ==
    ASSUME GrowingInv, NEW last \in held, NEW size \in Sizes, Extend(last, size)
    PROVE  GrowingInv'
<1> DEFINE next == last.offset + last.length
           rest == DelExtent(extents, next)
           append == extents[next].length
           t == [last EXCEPT !.length = @ + ExtendGranted(last, size)]
           u == held \ {last}
<1>1. Consistent(extents, heap, held) /\ size \in Nat
  BY SizesAssumption DEF GrowingInv, OnTrackInv, IndInv
<1>2. next \in FreeOffsets(extents) /\ last.offset \in DOMAIN extents /\ last.length > 0
  BY DEF Extend, ExtendExtent, CanExtend, ExtendAsserts, FreeOffsets
<1>3. /\ \A a \in held : extents[a.offset].length = a.length
      /\ FreeOffsets(extents) = {next}
  BY <1>2 DEF GrowingInv, Snug
<1>4. missteps' = {} /\ saved' = saved
  BY <1>3 DEF Extend, ExtendExtent, Short, GrowingInv, OnTrackInv
<1>5. IndInv'
  BY ExtendIndInv DEF GrowingInv, OnTrackInv
<1>6. /\ last \in FileExtent /\ last.offset \in Nat /\ last.length \in Nat
      /\ append \in Nat /\ next # last.offset /\ next \in DOMAIN extents
  BY <1>1, <1>2 DEF Consistent, Typed, FileExtent, FreeOffsets, ExtentRecord
<1>7. /\ DOMAIN rest = DOMAIN extents \ {next}
      /\ \A o \in DOMAIN rest : rest[o] = extents[o]
  BY DEF DelExtent
<1>8. last.offset \in DOMAIN rest /\ FreeOffsets(rest) = {} /\ rest[last.offset].length = last.length
  BY <1>2, <1>3, <1>6, <1>7 DEF FreeOffsets
<1>9. /\ extents' = CarvedExtents(rest, last.offset, last.length, append, size)
      /\ held' = u \cup {t}
  BY <1>3 DEF Extend, ExtendExtent
<1>10. t.offset = last.offset /\ t.length = last.length + ExtendGranted(last, size)
  BY <1>6 DEF FileExtent
<1>11. last.length + append > last.length + size => t.length = last.length + size
  BY <1>1, <1>3, <1>6, <1>10 DEF ExtendGranted, Granted
<1>12. \A a \in u \cup {t} : a.offset \notin FreeOffsets(extents')
  BY <1>4, <1>5, <1>9 DEF IndInv, Consistent, Recorded
<1>13. ASSUME NEW a \in u
       PROVE  a.offset \in DOMAIN rest \ {last.offset} /\ rest[a.offset].length = a.length
  <2>1. a.offset # last.offset
    BY <1>1, HeldByOffset
  <2>2. a.offset \in DOMAIN extents \ FreeOffsets(extents)
    BY <1>1 DEF Consistent, Recorded
  <2> QED  BY <1>2, <1>3, <1>7, <2>1, <2>2
<1>14. Snug(extents', held')
  <2> HIDE DEF rest, append, t, u
  <2> QED  BY <1>1, <1>6, <1>8, <1>9, <1>10, <1>11, <1>12, <1>13, CarvedSnug, ZenonT(30)
<1> QED  BY <1>4, <1>5, <1>14 DEF GrowingInv, OnTrackInv

\* Popping a region keeps the invariant of histories that only grow.
LEMMA AcquireGrowing ==
    ASSUME GrowingInv, NEW last \in held \cup {NoExtent}, NEW size \in Sizes,
           Acquire(last, size)
    PROVE  GrowingInv'
<1>1. Consistent(extents, heap, held) /\ size \in Nat
  BY SizesAssumption DEF GrowingInv, OnTrackInv, IndInv
<1>2. PICK node \in heap :
        /\ PopExtent(node, size)
        /\ held' = IF last.length > 0 /\ last.offset = node.v
                   THEN (held \ {last})
                          \cup {[last EXCEPT !.length = @ + PopGranted(node, size)]}
                   ELSE held \cup {[offset |-> node.v,
                                    length |-> PopGranted(node, size)]}
  BY DEF Acquire
<1> DEFINE o == node.v
           t == [offset |-> o, length |-> PopGranted(node, size)]
<1>3. missteps' = {} /\ saved' = saved
  BY <1>2 DEF Acquire, PopExtent, GrowingInv, OnTrackInv
<1>4. IndInv'
  BY AcquireIndInv DEF GrowingInv, OnTrackInv
<1>5. o \in FreeOffsets(extents)
  BY <1>1 DEF Consistent, HeapExact
<1>6. o \in DOMAIN extents /\ o \in Nat /\ extents[o].length \in Nat
  BY <1>1, <1>5 DEF Consistent, Typed, FreeOffsets, ExtentRecord
<1>7. FreeOffsets(extents) = {o} /\ \A a \in held : extents[a.offset].length = a.length
  BY <1>5 DEF GrowingInv, Snug
<1>8. \A a \in held : a.offset \in DOMAIN extents \ {o}
  BY <1>1, <1>5 DEF Consistent, Recorded
<1>9. ~(last.length > 0 /\ last.offset = o)
  BY <1>8 DEF NoExtent
<1>10. held' = held \cup {t} /\ extents' = CarvedExtents(extents, o, 0, 0, size)
  BY <1>2, <1>9 DEF PopExtent
<1>11. t.offset = o /\ t.length = PopGranted(node, size)
  OBVIOUS
<1>12. extents[o].length + 0 > 0 + size => t.length = 0 + size
  <2>1. t.length = Granted(extents[o].length, 0, size)
    BY <1>11 DEF PopGranted
  <2>2. \A l, n \in Nat : l + 0 > 0 + n => Granted(l, 0, n) = 0 + n
    BY DEF Granted
  <2> HIDE DEF t
  <2> QED  BY <1>1, <1>6, <2>1, <2>2
<1>13. \A a \in held \cup {t} : a.offset \notin FreeOffsets(extents')
  BY <1>3, <1>4, <1>10, ZenonT(30) DEF IndInv, Consistent, Recorded
<1>14. Snug(extents', held')
  <2> HIDE DEF o, t
  <2> QED  BY <1>1, <1>6, <1>7, <1>8, <1>10, <1>11, <1>12, <1>13, CarvedSnug, Zenon
<1> QED  BY <1>3, <1>4, <1>14 DEF GrowingInv, OnTrackInv

\* Histories that only grow start in their invariant.
LEMMA InitGrowingInv == Init => GrowingInv
<1> SUFFICES ASSUME Init PROVE GrowingInv
  OBVIOUS
<1>1. OnTrackInv
  BY InitIndInv DEF Init, OnTrackInv, Working, Snapshot
<1>2. DOMAIN extents = {0} /\ held = {}
  BY DEF Init, InitializedExtents, PutExtent
<1>3. Snug(extents, held)
  BY <1>2 DEF Snug, FreeOffsets
<1> QED  BY <1>1, <1>3 DEF Init, GrowingInv, Working, Snapshot

\* Every step of a history that only grows keeps its invariant.
LEMMA NextGrowingInv == GrowingInv /\ [NextGrowing]_vars => GrowingInv'
<1> SUFFICES ASSUME GrowingInv, [NextGrowing]_vars PROVE GrowingInv'
  OBVIOUS
<1>1. ASSUME NEW last \in held, NEW size \in Sizes, Extend(last, size) PROVE GrowingInv'
  BY <1>1, ExtendGrowing
<1>2. ASSUME NEW last \in held \cup {NoExtent}, NEW size \in Sizes, Acquire(last, size)
      PROVE  GrowingInv'
  BY <1>2, AcquireGrowing
<1>3. ASSUME NEW last \in held \cup {NoExtent}, Abort(last) PROVE GrowingInv'
  <2>1. IndInv'
    BY <1>3, AbortIndInv DEF GrowingInv, OnTrackInv
  <2> QED  BY <1>3, <2>1 DEF Abort, GrowingInv, OnTrackInv
<1>4. CASE Commit
  <2>1. IndInv'
    BY <1>4, NextIndInv DEF Next, GrowingInv, OnTrackInv
  <2> QED  BY <1>4, <2>1, Zenon DEF Commit, Working, Snapshot, GrowingInv, OnTrackInv
<1>5. CASE Restart
  <2>1. IndInv'
    BY <1>5, RestartIndInv DEF GrowingInv, OnTrackInv
  <2>2. 0 \in DOMAIN saved.extents
    BY FirstBlockRecorded DEF GrowingInv, OnTrackInv, IndInv
  <2>3. extents' = saved.extents /\ held' = saved.held /\ missteps' = {}
    BY <1>5, <2>2 DEF Restart, InitializedExtents, GrowingInv, OnTrackInv
  <2>4. /\ saved'.extents = extents' /\ saved'.held = held'
        /\ saved'.missteps = missteps'
    BY <1>5 DEF Restart, Working, Snapshot
  <2> QED  BY <2>1, <2>3, <2>4 DEF GrowingInv, OnTrackInv
<1>6. CASE UNCHANGED vars
  <2>1. IndInv'
    BY <1>6, NextIndInv DEF GrowingInv, OnTrackInv
  <2> QED  BY <1>6, <2>1 DEF vars, GrowingInv, OnTrackInv
<1> QED  BY <1>1, <1>2, <1>3, <1>4, <1>5, <1>6 DEF NextGrowing

(* When files only grow, mtl_reserve_extent never loses track, so that the *)
(* blocks stay partitioned without any condition.                          *)
THEOREM GrowingCorrect == SpecGrowing => []NeverLosesTrack
<1>1. GrowingInv => NeverLosesTrack
  BY DEF GrowingInv, OnTrackInv, NeverLosesTrack
<1> QED  BY <1>1, InitGrowingInv, NextGrowingInv, PTL DEF SpecGrowing
============================================================================
