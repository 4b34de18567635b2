--------------------------- MODULE VmSegmentProofs ----------------------------
(***************************************************************************)
(* What the operations of a segment manager do to the units its callers    *)
(* hold, for every number of segments, every segment size and all contents *)
(* of units.                                                               *)
(***************************************************************************)
EXTENDS VmSegment, FiniteSetTheorems, TLAPS

\* The inductive invariant, on a manager m whose callers hold the units L.  That
\* held units are readable is not inductive by itself: a flush must find them
\* within the filled part of the buffer, and a new unit must not take the slot
\* of a held one.  That no segment is freed twice needs the exact counts, and
\* these need the free stack to be disjoint from the segments with units.
Shape(m, L) ==
  /\ m \in Managers
  /\ L \subseteq [off : Offsets, data : Data]
  /\ IsFiniteSet(L)
  /\ BufferFits(m)

Placed(m, L) ==
  /\ \A u, v \in L : u.off = v.off => u = v
  /\ \A u \in L :
       IF segment_of(u.off) = m.buf_seg
       THEN u.off % Slots < Len(m.buf) /\ m.buf[(u.off % Slots) + 1] = u.data
       ELSE m.disk[segment_of(u.off)][u.off % Slots] = u.data

Good(m, L) == Shape(m, L) /\ RefcountExact(m, L) /\ SegmentsPartitioned(m, L) /\ Placed(m, L)

-------------------------------------------------------------------------------
\* Where an offset lies.
LEMMA DivMod ==
  ASSUME NEW a \in Nat, NEW b \in Nat \ {0}
  PROVE  /\ a \div b \in Nat /\ a % b \in 0 .. (b - 1)
         /\ a = (a \div b) * b + (a % b)
  OBVIOUS

LEMMA DivOfSum ==
  ASSUME NEW s \in Nat, NEW b \in Nat \ {0}, NEW k \in 0 .. (b - 1)
  PROVE  (s * b + k) \div b = s /\ (s * b + k) % b = k
  OBVIOUS

LEMMA SegmentOfOffset ==
  ASSUME NEW off \in Offsets
  PROVE  off \in Nat /\ segment_of(off) \in Segs /\ off % Slots \in SlotIdx
<1>1. off \in Nat /\ off < NSeg * Slots
  BY GeometryConstants DEF Offsets
<1>2. /\ off \div Slots \in Nat /\ off % Slots \in 0 .. (Slots - 1)
      /\ off = (off \div Slots) * Slots + (off % Slots)
  BY ZenonT(20), <1>1, DivMod, GeometryConstants
<1>3. ~ (off \div Slots >= NSeg)
  <2>1. ASSUME NEW q \in Nat, q >= NSeg PROVE q * Slots >= NSeg * Slots
    BY <2>1, GeometryConstants
  <2>. QED
    BY <1>1, <1>2, <2>1, GeometryConstants
<1>. QED
  BY <1>1, <1>2, <1>3, GeometryConstants DEF segment_of, Segs, SlotIdx

LEMMA SlotOffset ==
  ASSUME NEW s \in Segs, NEW k \in SlotIdx
  PROVE  /\ s * Slots + k \in Offsets
         /\ segment_of(s * Slots + k) = s
         /\ (s * Slots + k) % Slots = k
<1>1. s \in Nat /\ k \in 0 .. (Slots - 1) /\ s + 1 <= NSeg
  BY GeometryConstants DEF Segs, SlotIdx
<1>2. (s * Slots + k) \div Slots = s /\ (s * Slots + k) % Slots = k
  BY <1>1, DivOfSum, GeometryConstants
<1>3. (s + 1) * Slots <= NSeg * Slots
  <2>1. ASSUME NEW q \in Nat, q <= NSeg PROVE q * Slots <= NSeg * Slots
    BY <2>1, GeometryConstants
  <2>. QED
    BY <1>1, <2>1
<1>4. s * Slots + k < NSeg * Slots /\ s * Slots + k \in Nat
  BY <1>1, <1>3, GeometryConstants
<1>. QED
  BY <1>2, <1>4, GeometryConstants DEF Offsets, segment_of

LEMMA NoSegOutside == NoSeg \notin Segs
  BY DEF NoSeg, Segs

LEMMA UnitsFinite ==
  ASSUME NEW L, IsFiniteSet(L), NEW s
  PROVE  IsFiniteSet(UnitsIn(L, s)) /\ Cardinality(UnitsIn(L, s)) \in Nat
<1>1. UnitsIn(L, s) \subseteq L
  BY DEF UnitsIn
<1>2. IsFiniteSet(UnitsIn(L, s))
  BY <1>1, FS_Subset
<1>. QED
  BY <1>2, FS_CardinalityType

-------------------------------------------------------------------------------
\* The fields of the managers the operations leave.
LEMMA ManagerFields ==
  ASSUME NEW m \in Managers
  PROVE  /\ m.free \in Seq(Segs) /\ m.refcount \in [Segs -> Int]
         /\ m.buf_seg \in Segs \cup {NoSeg} /\ m.buf \in Seq(Data)
         /\ m.disk \in [Segs -> [SlotIdx -> Data \cup {Zero}]]
         /\ Len(m.buf) \in Nat /\ Len(m.free) \in Nat
         /\ \A i \in 1 .. Len(m.free) : m.free[i] \in Segs
  BY DEF Managers

LEMMA PageHolds ==
  ASSUME NEW buf \in Seq(Data)
  PROVE  /\ Page(buf) \in [SlotIdx -> Data \cup {Zero}]
         /\ \A k \in SlotIdx : k < Len(buf) => Page(buf)[k] = buf[k + 1]
  BY GeometryConstants DEF Page, SlotIdx

LEMMA WrittenFields ==
  ASSUME NEW m \in Managers, m.buf_seg \in Segs
  PROVE  /\ Written(m) \in Managers
         /\ Written(m).free = m.free /\ Written(m).refcount = m.refcount
         /\ Written(m).buf_seg = m.buf_seg /\ Written(m).buf = m.buf
         /\ Written(m).disk = [m.disk EXCEPT ![m.buf_seg] = Page(m.buf)]
  BY ZenonT(20), ManagerFields, PageHolds DEF Written, Managers

\* A write of the buffer, failed or not, changes nothing for those who hold units.
LEMMA WrittenGood ==
  ASSUME NEW m, NEW L, Good(m, L), m.buf_seg \in Segs
  PROVE  Good(Written(m), L)
<1>1. m \in Managers
  BY DEF Good, Shape
<1> DEFINE w == Written(m)
<1>2. /\ w \in Managers /\ w.free = m.free /\ w.refcount = m.refcount
      /\ w.buf_seg = m.buf_seg /\ w.buf = m.buf
      /\ w.disk = [m.disk EXCEPT ![m.buf_seg] = Page(m.buf)]
  BY <1>1, WrittenFields
<1>. HIDE DEF w
<1>3. Shape(w, L) /\ RefcountExact(w, L)
  BY <1>2 DEF Good, Shape, BufferFits, RefcountExact
<1>4. SegmentsPartitioned(w, L)
  BY <1>2 DEF Good, SegmentsPartitioned, OnFree
<1>5. Placed(w, L)
  <2>1. ASSUME NEW u \in L, segment_of(u.off) # m.buf_seg
        PROVE  w.disk[segment_of(u.off)] = m.disk[segment_of(u.off)]
    <3>1. u.off \in Offsets
      BY DEF Good, Shape
    <3>. QED
      BY <1>1, <1>2, <2>1, <3>1, SegmentOfOffset, ManagerFields
  <2>. QED
    BY <1>2, <2>1 DEF Good, Placed
<1>. QED
  BY <1>3, <1>4, <1>5 DEF Good, w

LEMMA FlushFields ==
  ASSUME NEW m \in Managers, m.buf_seg \in Segs
  PROVE  /\ flush_locked(m) \in Managers
         /\ flush_locked(m).free = IF m.refcount[m.buf_seg] = 0
                                   THEN Append(m.free, m.buf_seg) ELSE m.free
         /\ flush_locked(m).refcount = m.refcount
         /\ flush_locked(m).buf_seg = NoSeg /\ flush_locked(m).buf = << >>
         /\ flush_locked(m).disk = [m.disk EXCEPT ![m.buf_seg] = Page(m.buf)]
<1> DEFINE w == Written(m)
<1>1. /\ w \in Managers /\ w.free = m.free /\ w.refcount = m.refcount
      /\ w.disk = [m.disk EXCEPT ![m.buf_seg] = Page(m.buf)]
  BY WrittenFields
<1>2. flush_locked(m) =
        [w EXCEPT !.buf_seg = NoSeg, !.buf = << >>,
                  !.free = IF m.refcount[m.buf_seg] = 0 THEN Append(@, m.buf_seg) ELSE @]
  BY DEF flush_locked
<1> DEFINE fr == IF m.refcount[m.buf_seg] = 0 THEN Append(m.free, m.buf_seg) ELSE m.free
<1>3. fr \in Seq(Segs) /\ << >> \in Seq(Data)
  BY ManagerFields
<1>4. flush_locked(m) = [w EXCEPT !.buf_seg = NoSeg, !.buf = << >>, !.free = fr]
  BY <1>1, <1>2
<1>. HIDE DEF w, fr
<1>5. flush_locked(m) = [free |-> fr, refcount |-> m.refcount, buf_seg |-> NoSeg,
                         buf |-> << >>, disk |-> w.disk]
  BY ZenonT(20), <1>1, <1>4 DEF Managers
<1>6. flush_locked(m) \in Managers
  BY <1>1, <1>3, <1>5, ManagerFields DEF Managers
<1>. QED
  BY <1>1, <1>5, <1>6 DEF fr

\* Pushing a segment that is not on the stack.
LEMMA Push ==
  ASSUME NEW f \in Seq(Segs), NEW s \in Segs,
         \A i \in 1 .. Len(f) : f[i] # s,
         \A i, j \in 1 .. Len(f) : f[i] = f[j] => i = j
  PROVE  /\ \A i, j \in 1 .. Len(Append(f, s)) : Append(f, s)[i] = Append(f, s)[j] => i = j
         /\ \A t \in Segs : (\E i \in 1 .. Len(Append(f, s)) : Append(f, s)[i] = t)
                              <=> (t = s \/ \E i \in 1 .. Len(f) : f[i] = t)
<1> DEFINE g == Append(f, s)
<1>1. /\ Len(f) \in Nat /\ Len(g) = Len(f) + 1 /\ g[Len(f) + 1] = s
      /\ \A i \in 1 .. Len(f) : g[i] = f[i]
  OBVIOUS
<1>. HIDE DEF g
<1>2. \A i \in 1 .. Len(g) : i \in 1 .. Len(f) \/ i = Len(f) + 1
  BY <1>1
<1>3. \A i, j \in 1 .. Len(g) : g[i] = g[j] => i = j
  BY <1>1, <1>2
<1>4. \A t \in Segs : (\E i \in 1 .. Len(g) : g[i] = t)
                        <=> (t = s \/ \E i \in 1 .. Len(f) : f[i] = t)
  <2> TAKE t \in Segs
  <2>1. ASSUME NEW i \in 1 .. Len(g), g[i] = t
        PROVE  t = s \/ \E j \in 1 .. Len(f) : f[j] = t
    BY <1>1, <1>2, <2>1
  <2>2. ASSUME NEW j \in 1 .. Len(f), f[j] = t PROVE \E i \in 1 .. Len(g) : g[i] = t
    BY <1>1, <2>2
  <2>3. CASE t = s
    BY <1>1, <2>3
  <2>. QED
    BY <2>1, <2>2, <2>3
<1>. QED
  BY <1>3, <1>4 DEF g

LEMMA FlushGood ==
  ASSUME NEW m, NEW L, Good(m, L), m.buf_seg \in Segs
  PROVE  Good(flush_locked(m), L)
<1> DEFINE w == flush_locked(m)
           b == m.buf_seg
<1>1. m \in Managers /\ IsFiniteSet(L) /\ L \subseteq [off : Offsets, data : Data]
  BY DEF Good, Shape
<1>2. /\ w \in Managers /\ w.refcount = m.refcount /\ w.buf_seg = NoSeg /\ w.buf = << >>
      /\ w.free = IF m.refcount[b] = 0 THEN Append(m.free, b) ELSE m.free
      /\ w.disk = [m.disk EXCEPT ![b] = Page(m.buf)]
  BY <1>1, FlushFields
<1>. HIDE DEF w
<1>3. Shape(w, L)
  BY <1>1, <1>2, GeometryConstants DEF Shape, BufferFits
<1>4. RefcountExact(w, L)
  BY <1>2 DEF Good, RefcountExact
<1>5. m.refcount[b] = 0 <=> UnitsIn(L, b) = {}
  <2>1. m.refcount[b] = Cardinality(UnitsIn(L, b))
    BY DEF Good, RefcountExact
  <2>2. IsFiniteSet(UnitsIn(L, b))
    BY <1>1, UnitsFinite
  <2>3. Cardinality(UnitsIn(L, b)) = 0 <=> UnitsIn(L, b) = {}
    BY <2>2, FS_EmptySet
  <2>. QED
    BY <2>1, <2>3
<1>6. SegmentsPartitioned(w, L)
  <2>1. /\ \A i, j \in 1 .. Len(m.free) : m.free[i] = m.free[j] => i = j
        /\ \A s \in Segs : OnFree(m, s) <=> (s # b /\ UnitsIn(L, s) = {})
        /\ ~ OnFree(m, b) /\ m.free \in Seq(Segs)
    <3>1. m.free \in Seq(Segs)
      BY <1>1, ManagerFields
    <3>2. SegmentsPartitioned(m, L)
      BY DEF Good
    <3>. QED
      BY <3>1, <3>2 DEF SegmentsPartitioned
  <2>2. \A s \in Segs : s # w.buf_seg
    BY <1>2, NoSegOutside
  <2>3. CASE m.refcount[b] = 0
    <3>1. w.free = Append(m.free, b)
      BY <1>2, <2>3
    <3>2. \A i \in 1 .. Len(m.free) : m.free[i] # b
      BY <2>1 DEF OnFree
    <3>3. /\ \A i, j \in 1 .. Len(w.free) : w.free[i] = w.free[j] => i = j
          /\ \A t \in Segs : (\E i \in 1 .. Len(w.free) : w.free[i] = t)
                               <=> (t = b \/ \E i \in 1 .. Len(m.free) : m.free[i] = t)
      BY ONLY <2>1, <3>1, <3>2, Push, m.buf_seg \in Segs
    <3>4. \A t \in Segs : OnFree(w, t) <=> (t = b \/ OnFree(m, t))
      BY <3>3 DEF OnFree
    <3>. QED
      BY <1>5, <2>1, <2>2, <2>3, <3>3, <3>4 DEF SegmentsPartitioned
  <2>4. CASE m.refcount[b] # 0
    <3>1. w.free = m.free
      BY <1>2, <2>4
    <3>. QED
      BY <1>5, <2>1, <2>2, <2>4, <3>1 DEF SegmentsPartitioned, OnFree
  <2>. QED
    BY <2>3, <2>4
<1>7. Placed(w, L)
  <2> SUFFICES ASSUME NEW u \in L
               PROVE  w.disk[segment_of(u.off)][u.off % Slots] = u.data
                      /\ segment_of(u.off) # w.buf_seg
    BY DEF Placed, Good
  <2>1. segment_of(u.off) \in Segs /\ u.off % Slots \in SlotIdx
    BY <1>1, SegmentOfOffset
  <2>2. segment_of(u.off) # w.buf_seg
    BY <1>2, <2>1, NoSegOutside
  <2>3. CASE segment_of(u.off) = b
    <3>1. u.off % Slots < Len(m.buf) /\ m.buf[(u.off % Slots) + 1] = u.data
      BY <2>3 DEF Good, Placed
    <3>2. w.disk[b] = Page(m.buf)
      BY <1>1, <1>2, ManagerFields
    <3>. QED
      BY <1>1, <2>1, <2>2, <2>3, <3>1, <3>2, PageHolds, ManagerFields
  <2>4. CASE segment_of(u.off) # b
    <3>1. m.disk[segment_of(u.off)][u.off % Slots] = u.data
      BY <2>4 DEF Good, Placed
    <3>. QED
      BY <1>1, <1>2, <2>1, <2>2, <2>4, <3>1, ManagerFields
  <2>. QED
    BY <2>3, <2>4
<1>. QED
  BY <1>3, <1>4, <1>6, <1>7 DEF Good, w

\* The top of the stack becomes the segment that is filled.
LEMMA StartGood ==
  ASSUME NEW m, NEW L, Good(m, L), m.buf_seg = NoSeg, m.free # << >>
  PROVE  Good(start_segment(m), L) /\ start_segment(m).buf_seg \in Segs
         /\ start_segment(m).buf = << >>
<1> DEFINE w == start_segment(m)
           n == Len(m.free)
           b == m.free[n]
<1>1. m \in Managers /\ L \subseteq [off : Offsets, data : Data]
  BY DEF Good, Shape
<1>2. n \in Nat /\ n > 0 /\ b \in Segs /\ m.free \in Seq(Segs)
  BY <1>1, ManagerFields
<1>3. /\ SubSeq(m.free, 1, n - 1) \in Seq(Segs) /\ Len(SubSeq(m.free, 1, n - 1)) = n - 1
      /\ \A i \in 1 .. (n - 1) : SubSeq(m.free, 1, n - 1)[i] = m.free[i]
  BY <1>2
<1> DEFINE fr == SubSeq(m.free, 1, n - 1)
<1>5. << >> \in Seq(Data) /\ w = [m EXCEPT !.free = fr, !.buf_seg = b, !.buf = << >>]
  BY DEF start_segment
<1>. HIDE DEF w, fr, n, b
<1>4. w = [free |-> fr, refcount |-> m.refcount, buf_seg |-> b, buf |-> << >>,
           disk |-> m.disk]
  BY ZenonT(20), <1>1, <1>5 DEF Managers
<1>6. w \in Managers
  BY <1>1, <1>2, <1>3, <1>4, <1>5, ManagerFields DEF Managers, fr
<1>7. Shape(w, L)
  BY <1>4, <1>6, GeometryConstants DEF Good, Shape, BufferFits
<1>8. RefcountExact(w, L)
  BY <1>4 DEF Good, RefcountExact
<1>9. UnitsIn(L, b) = {}
  BY <1>2 DEF Good, SegmentsPartitioned, OnFree, b, n
<1>10. SegmentsPartitioned(w, L)
  <2>1. /\ \A i, j \in 1 .. n : m.free[i] = m.free[j] => i = j
        /\ \A s \in Segs : OnFree(m, s) <=> UnitsIn(L, s) = {}
    BY NoSegOutside DEF Good, SegmentsPartitioned, n
  <2>2. w.free = fr /\ Len(fr) = n - 1 /\ \A i \in 1 .. (n - 1) : fr[i] = m.free[i]
    BY <1>3, <1>4 DEF fr
  <2>3. \A s \in Segs : OnFree(w, s) <=> (s # b /\ OnFree(m, s))
    <3> TAKE s \in Segs
    <3>1. ASSUME NEW i \in 1 .. (n - 1), fr[i] = s PROVE s # b /\ OnFree(m, s)
      BY <1>2, <2>1, <2>2, <3>1 DEF OnFree, b, n
    <3>2. ASSUME NEW i \in 1 .. n, m.free[i] = s, s # b PROVE OnFree(w, s)
      <4>1. i \in 1 .. (n - 1) /\ fr[i] = s
        BY <1>2, <2>2, <3>2 DEF b
      <4>. QED
        BY <2>2, <4>1 DEF OnFree
    <3>. QED
      BY <2>2, <3>1, <3>2 DEF OnFree, n
  <2>4. \A i, j \in 1 .. Len(w.free) : w.free[i] = w.free[j] => i = j
    BY <1>2, <2>1, <2>2
  <2>. QED
    BY <1>4, <2>1, <2>3, <2>4 DEF SegmentsPartitioned
<1>11. Placed(w, L)
  <2> SUFFICES ASSUME NEW u \in L
               PROVE  /\ segment_of(u.off) # b
                      /\ m.disk[segment_of(u.off)][u.off % Slots] = u.data
    BY <1>4 DEF Good, Placed
  <2>1. segment_of(u.off) # b
    BY <1>9 DEF UnitsIn
  <2>2. segment_of(u.off) # m.buf_seg
    BY <1>1, SegmentOfOffset, NoSegOutside
  <2>. QED
    BY <2>1, <2>2 DEF Good, Placed
<1>. QED
  BY <1>2, <1>4, <1>7, <1>8, <1>10, <1>11 DEF Good, w

-------------------------------------------------------------------------------
\* A unit added to a segment, or taken from it, and the number of its units.
LEMMA CountAdd ==
  ASSUME NEW L, IsFiniteSet(L), NEW u, u \notin L, NEW s
  PROVE  Cardinality(UnitsIn(L \cup {u}, s)) =
           IF segment_of(u.off) = s THEN Cardinality(UnitsIn(L, s)) + 1
                                    ELSE Cardinality(UnitsIn(L, s))
<1>1. IsFiniteSet(UnitsIn(L, s)) /\ u \notin UnitsIn(L, s)
  BY ZenonT(20), UnitsFinite DEF UnitsIn
<1>2. CASE segment_of(u.off) = s
  <2>1. UnitsIn(L \cup {u}, s) = UnitsIn(L, s) \cup {u}
    BY <1>2 DEF UnitsIn
  <2>2. Cardinality(UnitsIn(L, s) \cup {u}) = Cardinality(UnitsIn(L, s)) + 1
    BY <1>1, FS_AddElement
  <2>. QED
    BY <1>2, <2>1, <2>2
<1>3. CASE segment_of(u.off) # s
  <2>1. UnitsIn(L \cup {u}, s) = UnitsIn(L, s)
    BY <1>3 DEF UnitsIn
  <2>. QED
    BY <1>3, <2>1
<1>. QED
  BY <1>2, <1>3

LEMMA CountRemove ==
  ASSUME NEW L, IsFiniteSet(L), NEW u \in L, NEW s
  PROVE  Cardinality(UnitsIn(L \ {u}, s)) =
           IF segment_of(u.off) = s THEN Cardinality(UnitsIn(L, s)) - 1
                                    ELSE Cardinality(UnitsIn(L, s))
<1> DEFINE K == L \ {u}
<1>1. IsFiniteSet(K) /\ u \notin K /\ K \cup {u} = L
  <2>1. K \subseteq L
    OBVIOUS
  <2>2. IsFiniteSet(K)
    BY <2>1, FS_Subset
  <2>. QED
    BY <2>2
<1>. HIDE DEF K
<1>2. Cardinality(UnitsIn(L, s)) =
        IF segment_of(u.off) = s THEN Cardinality(UnitsIn(K, s)) + 1
                                 ELSE Cardinality(UnitsIn(K, s))
  BY <1>1, CountAdd
<1>3. Cardinality(UnitsIn(K, s)) \in Nat
  BY <1>1, UnitsFinite
<1>. QED
  BY <1>2, <1>3 DEF K

\* A unit goes into the next slot of the segment that is filled.
LEMMA PutGood ==
  ASSUME NEW m, NEW L, Good(m, L), m.buf_seg \in Segs, Len(m.buf) < Slots, NEW d \in Data
  PROVE  Good([m EXCEPT !.buf = Append(@, d), !.refcount[m.buf_seg] = @ + 1],
              L \cup {[off |-> m.buf_seg * Slots + Len(m.buf), data |-> d]})
<1> DEFINE b == m.buf_seg
           k == Len(m.buf)
           u == [off |-> b * Slots + k, data |-> d]
           bu == Append(m.buf, d)
           rc == [m.refcount EXCEPT ![b] = @ + 1]
           w == [m EXCEPT !.buf = Append(@, d), !.refcount[m.buf_seg] = @ + 1]
           M == L \cup {u}
<1>1. m \in Managers /\ IsFiniteSet(L) /\ L \subseteq [off : Offsets, data : Data]
  BY DEF Good, Shape
<1>2. k \in Nat /\ k \in SlotIdx /\ b \in Segs /\ m.buf \in Seq(Data)
      /\ m.refcount \in [Segs -> Int]
  BY <1>1, ManagerFields, GeometryConstants DEF SlotIdx
<1>3. /\ bu \in Seq(Data) /\ Len(bu) = k + 1 /\ bu[k + 1] = d
      /\ \A i \in 1 .. k : bu[i] = m.buf[i]
  BY <1>2
<1>4. rc \in [Segs -> Int] /\ rc[b] = m.refcount[b] + 1
      /\ \A s \in Segs : s # b => rc[s] = m.refcount[s]
  BY <1>2
<1>5. w = [m EXCEPT !.buf = bu, !.refcount = rc]
  BY <1>1 DEF Managers
<1>6. /\ u.off \in Offsets /\ segment_of(u.off) = b /\ u.off % Slots = k
      /\ u \in [off : Offsets, data : Data] /\ u.data = d
  BY <1>2, SlotOffset
<1>. HIDE DEF w, bu, rc, u, b, k
<1>7. w = [free |-> m.free, refcount |-> rc, buf_seg |-> m.buf_seg, buf |-> bu,
           disk |-> m.disk]
  BY ZenonT(20), <1>1, <1>5 DEF Managers
<1>8. w \in Managers
  BY <1>1, <1>3, <1>4, <1>7, ManagerFields DEF Managers
<1>9. \A v \in L : v.off # u.off
  <2> SUFFICES ASSUME NEW v \in L, v.off = u.off PROVE FALSE
    OBVIOUS
  <2>1. v.off % Slots < k
    BY <1>6 DEF Good, Placed, b, k
  <2>. QED
    BY <1>2, <1>6, <2>1
<1>10. u \notin L
  BY <1>9
<1>11. Shape(w, M)
  <2>1. IsFiniteSet(M)
    BY <1>1, FS_AddElement
  <2>2. Len(w.buf) <= Slots
    BY <1>2, <1>3, <1>7, GeometryConstants DEF k
  <2>. QED
    BY <1>1, <1>6, <1>8, <2>1, <2>2 DEF Shape, BufferFits
<1>12. RefcountExact(w, M)
  <2> SUFFICES ASSUME NEW s \in Segs PROVE w.refcount[s] = Cardinality(UnitsIn(M, s))
    BY ZenonT(20) DEF RefcountExact
  <2>1. Cardinality(UnitsIn(M, s)) =
          IF b = s THEN Cardinality(UnitsIn(L, s)) + 1 ELSE Cardinality(UnitsIn(L, s))
    BY <1>1, <1>6, <1>10, CountAdd
  <2>2. m.refcount[s] = Cardinality(UnitsIn(L, s))
    BY DEF Good, RefcountExact
  <2>. QED
    BY <1>4, <1>7, <2>1, <2>2
<1>13. SegmentsPartitioned(w, M)
  <2>1. \A s \in Segs : s # b => UnitsIn(M, s) = UnitsIn(L, s)
    BY <1>6 DEF UnitsIn
  <2>2. w.free = m.free /\ w.buf_seg = b /\ m.buf_seg = b
    BY <1>7 DEF b
  <2>. QED
    BY ZenonT(20), <2>1, <2>2 DEF Good, SegmentsPartitioned, OnFree
<1>14. Placed(w, M)
  <2>1. \A v, x \in M : v.off = x.off => v = x
    BY <1>9 DEF Good, Placed
  <2>2. \A v \in M :
          IF segment_of(v.off) = w.buf_seg
          THEN v.off % Slots < Len(w.buf) /\ w.buf[(v.off % Slots) + 1] = v.data
          ELSE w.disk[segment_of(v.off)][v.off % Slots] = v.data
    <3> TAKE v \in M
    <3>1. CASE v = u
      BY <1>2, <1>3, <1>6, <1>7, <3>1 DEF b
    <3>2. CASE v \in L
      <4>1. v.off % Slots \in Nat
        BY <1>1, <3>2, SegmentOfOffset DEF SlotIdx
      <4>2. IF segment_of(v.off) = b
            THEN v.off % Slots < k /\ m.buf[(v.off % Slots) + 1] = v.data
            ELSE m.disk[segment_of(v.off)][v.off % Slots] = v.data
        BY <3>2 DEF Good, Placed, b, k
      <4>. QED
        BY <1>2, <1>3, <1>7, <4>1, <4>2 DEF b
    <3>. QED
      BY <3>1, <3>2
  <2>. QED
    BY <2>1, <2>2 DEF Placed
<1>15. Good(w, M)
  BY <1>11, <1>12, <1>13, <1>14 DEF Good
<1>. QED
  BY <1>15 DEF w, u, b, k

\* The holder of a unit gives it up.
LEMMA ReleaseGood ==
  ASSUME NEW m, NEW L, Good(m, L), NEW u \in L
  PROVE  Good(release(m, u.off), L \ {u})
<1> DEFINE s == segment_of(u.off)
           K == L \ {u}
           rc == [m.refcount EXCEPT ![s] = @ - 1]
           fr == IF s # m.buf_seg /\ m.refcount[s] = 1 THEN Append(m.free, s) ELSE m.free
           w == release(m, u.off)
<1>1. m \in Managers /\ IsFiniteSet(L) /\ L \subseteq [off : Offsets, data : Data]
  BY DEF Good, Shape
<1>2. s \in Segs
  BY <1>1, SegmentOfOffset
<1>3. /\ rc \in [Segs -> Int] /\ rc[s] = m.refcount[s] - 1
      /\ \A t \in Segs : t # s => rc[t] = m.refcount[t]
  BY <1>1, <1>2, ManagerFields
<1>4. fr \in Seq(Segs)
  BY <1>1, <1>2, ManagerFields
<1>5. w = [m EXCEPT !.refcount = rc, !.free = fr]
  BY <1>1 DEF release, Managers
<1>6. \A t \in Segs :
        Cardinality(UnitsIn(K, t)) = IF s = t THEN Cardinality(UnitsIn(L, t)) - 1
                                     ELSE Cardinality(UnitsIn(L, t))
  BY <1>1, CountRemove
<1>7. IsFiniteSet(K)
  <2>1. K \subseteq L
    OBVIOUS
  <2>. QED
    BY <1>1, <2>1, FS_Subset
<1>. HIDE DEF w, fr, rc, K
<1>8. w = [free |-> fr, refcount |-> rc, buf_seg |-> m.buf_seg, buf |-> m.buf,
           disk |-> m.disk]
  BY ZenonT(20), <1>1, <1>5 DEF Managers
<1>9. w \in Managers
  BY <1>1, <1>3, <1>4, <1>8, ManagerFields DEF Managers
<1>10. Shape(w, K)
  BY <1>7, <1>8, <1>9 DEF Good, Shape, BufferFits, K
<1>11. RefcountExact(w, K)
  BY <1>3, <1>6, <1>8 DEF Good, RefcountExact
<1>12. UnitsIn(K, s) = {} <=> m.refcount[s] = 1
  <2>1. m.refcount[s] = Cardinality(UnitsIn(L, s)) /\ Cardinality(UnitsIn(L, s)) \in Nat
    BY <1>1, <1>2, UnitsFinite DEF Good, RefcountExact
  <2>2. IsFiniteSet(UnitsIn(K, s))
    BY <1>7, UnitsFinite
  <2>3. Cardinality(UnitsIn(K, s)) = 0 <=> UnitsIn(K, s) = {}
    BY <2>2, FS_EmptySet
  <2>. QED
    BY <1>2, <1>6, <2>1, <2>3
<1>13. SegmentsPartitioned(w, K)
  <2>1. /\ \A i, j \in 1 .. Len(m.free) : m.free[i] = m.free[j] => i = j
        /\ \A t \in Segs : OnFree(m, t) <=> (t # m.buf_seg /\ UnitsIn(L, t) = {})
        /\ m.free \in Seq(Segs)
    BY <1>1, ManagerFields DEF Good, SegmentsPartitioned
  <2>2. ~ OnFree(m, s)
    BY <1>2, <2>1 DEF UnitsIn
  <2>3. \A t \in Segs : t # s => UnitsIn(K, t) = UnitsIn(L, t)
    BY DEF UnitsIn, K
  <2>4. CASE s # m.buf_seg /\ m.refcount[s] = 1
    <3>1. w.free = Append(m.free, s)
      BY <1>8, <2>4 DEF fr
    <3>2. \A i \in 1 .. Len(m.free) : m.free[i] # s
      BY <2>2 DEF OnFree
    <3>. HIDE DEF s
    <3>3. /\ \A i, j \in 1 .. Len(w.free) : w.free[i] = w.free[j] => i = j
          /\ \A t \in Segs : (\E i \in 1 .. Len(w.free) : w.free[i] = t)
                               <=> (t = s \/ \E i \in 1 .. Len(m.free) : m.free[i] = t)
      <4>1. /\ m.free \in Seq(Segs) /\ s \in Segs
            /\ \A i, j \in 1 .. Len(m.free) : m.free[i] = m.free[j] => i = j
        BY <1>2, <2>1
      <4>. QED
        BY ONLY <3>1, <3>2, <4>1, Push
    <3>4. \A t \in Segs : OnFree(w, t) <=> (t = s \/ OnFree(m, t))
      BY <3>3 DEF OnFree
    <3>. QED
      BY <1>8, <1>12, <2>1, <2>3, <2>4, <3>3, <3>4 DEF SegmentsPartitioned
  <2>5. CASE ~ (s # m.buf_seg /\ m.refcount[s] = 1)
    <3>1. w.free = m.free
      BY <1>8, <2>5 DEF fr
    <3>2. \A t \in Segs : OnFree(w, t) <=> OnFree(m, t)
      BY <3>1 DEF OnFree
    <3>. HIDE DEF s
    <3>. QED
      BY <1>8, <1>12, <2>1, <2>2, <2>3, <2>5, <3>1, <3>2 DEF SegmentsPartitioned
  <2>. QED
    BY <2>4, <2>5
<1>14. Placed(w, K)
  BY <1>8 DEF Good, Placed, K
<1>15. Good(w, K)
  BY <1>10, <1>11, <1>13, <1>14 DEF Good
<1>. QED
  BY <1>15 DEF w, K

LEMMA NewGood == Good(NewManager, {})
<1> DEFINE fr == [i \in 1 .. NSeg |-> NSeg - i]
<1>1. fr \in Seq(Segs) /\ Len(fr) = NSeg /\ \A i \in 1 .. NSeg : fr[i] = NSeg - i
  BY GeometryConstants DEF Segs
<1>2. << >> \in Seq(Data) /\ Len(<< >>) = 0
  OBVIOUS
<1>. HIDE DEF fr
<1>3. NewManager = [free |-> fr, refcount |-> [s \in Segs |-> 0], buf_seg |-> NoSeg,
                    buf |-> << >>, disk |-> [s \in Segs |-> [k \in SlotIdx |-> Zero]]]
  BY DEF NewManager, fr
<1>4. NewManager \in Managers
  BY <1>1, <1>2, <1>3 DEF Managers
<1>5. \A s : UnitsIn({}, s) = {}
  BY DEF UnitsIn
<1>6. Shape(NewManager, {})
  BY <1>2, <1>3, <1>4, GeometryConstants, FS_EmptySet DEF Shape, BufferFits
<1>7. RefcountExact(NewManager, {})
  BY ZenonT(20), <1>3, <1>5, FS_EmptySet DEF RefcountExact
<1>8. SegmentsPartitioned(NewManager, {})
  <2>1. \A s \in Segs : NSeg - s \in 1 .. NSeg /\ fr[NSeg - s] = s
    BY <1>1, GeometryConstants DEF Segs
  <2>2. \A s \in Segs : OnFree(NewManager, s)
    BY <1>1, <1>3, <2>1 DEF OnFree
  <2>3. \A i, j \in 1 .. NSeg : fr[i] = fr[j] => i = j
    BY <1>1, GeometryConstants
  <2>. QED
    BY <1>1, <1>3, <1>5, <2>2, <2>3, NoSegOutside DEF SegmentsPartitioned
<1>9. Placed(NewManager, {})
  BY DEF Placed
<1>. QED
  BY <1>6, <1>7, <1>8, <1>9 DEF Good

\* append() first makes room, which its holders do not notice.
LEMMA RolledGood ==
  ASSUME NEW m, NEW L, Good(m, L)
  PROVE  Good(Rolled(m), L)
<1>1. m.buf_seg \in Segs \cup {NoSeg}
  BY ManagerFields DEF Good, Shape
<1>. QED
  BY <1>1, FlushGood DEF Rolled, SegmentIsFull

LEMMA OpenedGood ==
  ASSUME NEW m, NEW L, Good(m, L), ~ Exhausted(m)
  PROVE  Good(Opened(m), L) /\ Opened(m).buf_seg \in Segs /\ Len(Opened(m).buf) < Slots
<1> DEFINE r == Rolled(m)
<1>1. Good(r, L) /\ r \in Managers
  BY RolledGood DEF Good, Shape
<1>2. m \in Managers /\ Len(m.buf) <= Slots
  BY DEF Good, Shape, BufferFits
<1>3. CASE r.buf_seg = NoSeg
  <2>1. Opened(m) = start_segment(r) /\ r.free # << >>
    BY <1>3 DEF Opened, Exhausted
  <2>2. Len(<< >>) = 0 /\ 0 < Slots
    BY GeometryConstants
  <2>. HIDE DEF r
  <2>. QED
    BY <1>1, <1>3, <2>1, <2>2, StartGood
<1>4. CASE r.buf_seg # NoSeg
  <2>1. Opened(m) = m
    BY <1>4 DEF Opened
  <2>2. ~ SegmentIsFull(m)
    <3>1. SegmentIsFull(m) => m.buf_seg \in Segs /\ r = flush_locked(m)
      BY <1>2, ManagerFields DEF SegmentIsFull, Rolled
    <3>2. m.buf_seg \in Segs => flush_locked(m).buf_seg = NoSeg
      BY ZenonT(20), <1>2, FlushFields
    <3>. QED
      BY <1>4, <3>1, <3>2
  <2>3. r = m
    BY <2>2 DEF Rolled
  <2>4. m.buf_seg \in Segs
    BY <1>2, <1>4, <2>3, ManagerFields
  <2>5. Len(m.buf) < Slots
    BY <1>2, <1>4, <2>2, <2>3, ManagerFields, GeometryConstants DEF SegmentIsFull
  <2>. QED
    BY <2>1, <2>4, <2>5
<1>. QED
  BY <1>3, <1>4

\* append() leaves the new unit to its caller.
LEMMA AppendGood ==
  ASSUME NEW m, NEW L, Good(m, L), ~ Exhausted(m), NEW d \in Data
  PROVE  Good(append(m, d), L \cup {[off |-> AppendOffset(m), data |-> d]})
<1> DEFINE o == Opened(m)
<1>1. Good(o, L) /\ o.buf_seg \in Segs /\ Len(o.buf) < Slots
  BY OpenedGood
<1>. HIDE DEF o
<1>2. Good([o EXCEPT !.buf = Append(@, d), !.refcount[o.buf_seg] = @ + 1],
           L \cup {[off |-> o.buf_seg * Slots + Len(o.buf), data |-> d]})
  BY ZenonT(20), <1>1, PutGood
<1>. QED
  BY <1>2 DEF append, AppendOffset, o

\* Every unit is found where the readers look for it.
LEMMA GoodReadable ==
  ASSUME NEW m, NEW L, Good(m, L), NEW u \in L
  PROVE  /\ u.off \in Offsets /\ u.data \in Data
         /\ u.data = IF is_buffered(m, u.off) THEN read_buffer(m, u.off)
                                              ELSE read_disk(m, u.off)
<1>1. /\ m \in Managers /\ u.off \in Offsets /\ u.data \in Data
      /\ IF segment_of(u.off) = m.buf_seg
         THEN u.off % Slots < Len(m.buf) /\ m.buf[(u.off % Slots) + 1] = u.data
         ELSE m.disk[segment_of(u.off)][u.off % Slots] = u.data
  BY DEF Good, Shape, Placed
<1>2. segment_of(u.off) \in Segs /\ u.off % Slots \in SlotIdx /\ segment_of(u.off) # NoSeg
  BY <1>1, SegmentOfOffset, NoSegOutside
<1>. QED
  BY <1>1, <1>2, PageHolds, ManagerFields DEF is_buffered, read_buffer, read_disk

-------------------------------------------------------------------------------
\* A step of a manager and its callers keeps the manager Good for the units held.
LEMMA ManagerStepGood ==
  ASSUME NEW m, NEW L, NEW m2, NEW L2, Good(m, L), ManagerNext(m, L, m2, L2)
  PROVE  Good(m2, L2)
<1>1. m \in Managers /\ m.buf_seg \in Segs \cup {NoSeg}
  BY ManagerFields DEF Good, Shape
<1>2. Flushable(m) => m.buf_seg \in Segs
  BY <1>1 DEF Flushable
<1>3. ASSUME NEW d \in Data, AppendOk(m, L, m2, L2, d) PROVE Good(m2, L2)
  BY <1>3, AppendGood DEF AppendOk
<1>4. CASE AppendFull(m, L, m2, L2)
  BY <1>4, RolledGood DEF AppendFull
<1>5. CASE Flush(m, L, m2, L2)
  BY <1>2, <1>5, FlushGood DEF Flush
<1>6. CASE WriteFails(m, L, m2, L2)
  BY <1>2, <1>6, WrittenGood DEF WriteFails
<1>7. ASSUME NEW u \in L, Release(m, L, m2, L2, u) PROVE Good(m2, L2)
  BY <1>7, ReleaseGood DEF Release
<1>8. ASSUME NEW off \in Offsets, ReleaseAgain(m, L, m2, L2, off) PROVE Good(m2, L2)
  BY <1>8 DEF ReleaseAgain, ReleaseRefused
<1>. QED
  BY <1>3, <1>4, <1>5, <1>6, <1>7, <1>8 DEF ManagerNext

\* The refcount of every segment is the number of its units that callers hold,
\* no segment is lost, freed twice or freed while it has units, and a held unit
\* reads back as it was appended, from the buffer or from the device: in every
\* history of appends, flushes, failed writes, releases and refused releases.
THEOREM SegmentsSound ==
  ASSUME NEW VARIABLE m, NEW VARIABLE L
  PROVE  ManagerInit(m, L) /\ [][ManagerNext(m, L, m', L')]_<<m, L>> =>
           [](/\ RefcountExact(m, L) /\ SegmentsPartitioned(m, L)
              /\ UnitsReadable(m, L) /\ BufferFits(m))
<1> DEFINE I == Good(m, L)
           N == ManagerNext(m, L, m', L')
           P == /\ RefcountExact(m, L) /\ SegmentsPartitioned(m, L)
                /\ UnitsReadable(m, L) /\ BufferFits(m)
<1>1. ManagerInit(m, L) => I
  BY NewGood DEF ManagerInit
<1>2. I /\ [N]_<<m, L>> => I'
  BY ManagerStepGood
<1>3. I => P
  BY GoodReadable DEF Good, Shape, UnitsReadable
<1>. HIDE DEF I, N, P
<1>4. ManagerInit(m, L) /\ [][N]_<<m, L>> => []P
  BY <1>1, <1>2, <1>3, PTL
<1>. QED
  BY <1>4 DEF N, P
===============================================================================
