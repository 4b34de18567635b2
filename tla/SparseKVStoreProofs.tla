------------------------- MODULE SparseKVStoreProofs -------------------------
(***************************************************************************)
(* What the writer, the flusher and the releasers of SparseKV share, for   *)
(* every number of devices, every segment geometry, any set of keys and    *)
(* any number of readers and releasers: every device's manager is Good for *)
(* the units the store accounts for, and a key is in one place at a time,  *)
(* on its way into the slot table, in it, or on its way out.               *)
(***************************************************************************)
EXTENDS SparseKV, VmSegmentProofs

WriterState == [pc : {"idle", "set"}, key : Keys \cup {Zero}, off : Nat]

ReleaserState ==
  [pc : {"idle", "invalidate", "pop", "release"}, key : Keys \cup {Zero}, entry : Nat]

BookTypes ==
  /\ table \in [Keys -> Nat]
  /\ written \subseteq Keys
  /\ writer \in WriterState
  /\ flusher \in 0 .. NumDevices
  /\ rel \in [Releasers -> ReleaserState]

\* A key no offload has reached is nowhere in the store.
Fresh == \A k \in Keys : k \notin written => ~Valid(table[k]) /\ \A r \in Releasers : rel[r].key # k

\* The unit the writer is about to publish is of a key that is nowhere else.
WriterSound ==
  IF writer.pc = "idle" THEN writer.key = Zero
  ELSE /\ writer.key \in written
       /\ ~Valid(table[writer.key])
       /\ \A r \in Releasers : rel[r].key # writer.key

\* A releaser works on a key of its own, with the entry the table had for it.
ReleaserSound(r) ==
  IF rel[r].pc = "idle" THEN rel[r].key = Zero
  ELSE /\ rel[r].key \in Keys
       /\ Valid(rel[r].entry)
       /\ IF rel[r].pc = "invalidate" THEN table[rel[r].key] = rel[r].entry
                                      ELSE ~Valid(table[rel[r].key])
       /\ \A q \in Releasers : rel[q].key = rel[r].key => q = r

BookInv == BookTypes /\ Fresh /\ WriterSound /\ \A r \in Releasers : ReleaserSound(r)

UnitsGood == \A d \in Devices : Good(mgr[d], UnitsOf(d))

StoreInv == mgr \in [Devices -> Managers] /\ BookInv /\ UnitsGood

\* The segment of the entry's unit is not being filled: the unit is on the device.
Flushed(k, e) == segment_of(entry_offset(e)) # mgr[locate(k)].buf_seg

-------------------------------------------------------------------------------
\* A packed entry gives back its offset and is valid; an empty slot is not.
LEMMA EntryPacked ==
  ASSUME NEW off \in Nat
  PROVE  /\ pack_entry(off, FLAG_VALID) \in Nat
         /\ entry_offset(pack_entry(off, FLAG_VALID)) = off
         /\ Valid(pack_entry(off, FLAG_VALID))
<1>1. (off * 65536 + 1) \div 65536 = off
  BY DivOfSum
<1>2. (off * 256) * 256 + 1 = off * 65536 + 1 /\ off * 256 \in Nat
  OBVIOUS
<1>3. (off * 65536 + 1) % 256 = 1
  BY <1>2, DivOfSum
<1>4. 2^16 = 65536 /\ 2^8 = 256
  OBVIOUS
<1>. QED
  BY <1>1, <1>3, <1>4 DEF pack_entry, entry_offset, entry_flags, Valid, FLAG_VALID

LEMMA EmptyEntry == ~Valid(0)
<1>1. 2^8 = 256
  OBVIOUS
<1>. QED
  BY <1>1 DEF entry_flags, Valid, FLAG_VALID

LEMMA LocateDevice ==
  ASSUME NEW k \in Keys
  PROVE  locate(k) \in Devices
<1>1. k[1] \in Nat /\ k[2] \in Nat
  BY ZenonT(20), KVConstants DEF Keys
<1>2. /\ StepIdx \in Nat /\ StepLayer \in Nat /\ Prime \in Nat \ {0}
      /\ NumDevices \in Nat \ {0}
  BY KVConstants DEF ValidSteps, is_prime
<1>3. (k[2] * StepIdx + k[1] * StepLayer) \in Nat
  BY <1>1, <1>2
<1>4. (k[2] * StepIdx + k[1] * StepLayer) % Prime \in Nat
  BY <1>2, <1>3, DivMod
<1>. QED
  BY ZenonT(20), <1>2, <1>4, DivMod DEF locate, Devices, position_hash
-------------------------------------------------------------------------------
\* A unit on the device is not covered by a new buffer while it is held.
LEMMA StaysOnDevice ==
  ASSUME NEW m, NEW L, Good(m, L), NEW u \in L, segment_of(u.off) # m.buf_seg
  PROVE  /\ segment_of(u.off) # flush_locked(m).buf_seg
         /\ segment_of(u.off) # Rolled(m).buf_seg
         /\ segment_of(u.off) # Written(m).buf_seg
         /\ \A off : segment_of(u.off) # release(m, off).buf_seg
         /\ ~Exhausted(m) => \A d : segment_of(u.off) # append(m, d).buf_seg
<1> DEFINE s == segment_of(u.off)
           r == Rolled(m)
<1>1. s \in Segs /\ s # NoSeg /\ m \in Managers /\ s # m.buf_seg
  BY SegmentOfOffset, NoSegOutside DEF Good, Shape
<1>2. flush_locked(m).buf_seg = NoSeg /\ Written(m).buf_seg = m.buf_seg
  BY <1>1 DEF flush_locked, Written, Managers
<1>3. s # r.buf_seg
  BY <1>1, <1>2 DEF Rolled
<1>4. \A off : release(m, off).buf_seg = m.buf_seg
  BY <1>1 DEF release, Managers
<1>5. Good(r, L) /\ r \in Managers
  BY RolledGood DEF Good, Shape
<1>6. ASSUME ~Exhausted(m) PROVE s # Opened(m).buf_seg
  <2>1. CASE r.buf_seg = NoSeg
    <3>1. r.free # << >> /\ r.free \in Seq(Segs)
      BY <1>5, <1>6, <2>1, ManagerFields DEF Exhausted
    <3>2. Len(r.free) \in 1 .. Len(r.free) /\ r.free[Len(r.free)] \in Segs
      BY <3>1
    <3>3. UnitsIn(L, r.free[Len(r.free)]) = {}
      BY <1>5, <3>2 DEF Good, SegmentsPartitioned, OnFree
    <3>4. s # r.free[Len(r.free)]
      BY <3>3 DEF UnitsIn
    <3>5. start_segment(r).buf_seg = r.free[Len(r.free)]
      BY <1>5 DEF start_segment, Managers
    <3>. QED
      BY <2>1, <3>4, <3>5 DEF Opened
  <2>2. CASE r.buf_seg # NoSeg
    BY <1>1, <2>2 DEF Opened
  <2>. QED
    BY <2>1, <2>2
<1>7. ASSUME ~Exhausted(m), NEW d PROVE append(m, d).buf_seg = Opened(m).buf_seg
  <2>1. Opened(m) \in Managers
    BY ZenonT(20), <1>7, OpenedGood DEF Good, Shape
  <2>. QED
    BY <2>1 DEF append, Managers
<1>. QED
  BY <1>1, <1>2, <1>3, <1>4, <1>6, <1>7

\* A held unit can be released.
LEMMA HeldReleasable ==
  ASSUME NEW m, NEW L, Good(m, L), NEW u \in L
  PROVE  ~ReleaseRefused(m, u.off)
<1>1. segment_of(u.off) \in Segs /\ IsFiniteSet(L)
  BY SegmentOfOffset DEF Good, Shape
<1>2. u \in UnitsIn(L, segment_of(u.off)) /\ IsFiniteSet(UnitsIn(L, segment_of(u.off)))
  BY <1>1, UnitsFinite DEF UnitsIn
<1>3. Cardinality(UnitsIn(L, segment_of(u.off))) \in Nat \ {0}
  BY <1>2, FS_EmptySet, FS_CardinalityType
<1>. QED
  BY <1>1, <1>3 DEF Good, RefcountExact, ReleaseRefused

\* The units of a device, one by one.
LEMMA UnitsMember ==
  ASSUME NEW d \in Devices, NEW u
  PROVE  u \in UnitsOf(d) <=>
           \/ \E k \in Keys : /\ locate(k) = d /\ Valid(table[k])
                              /\ u = [off |-> entry_offset(table[k]), data |-> k]
           \/ /\ writer.key \in Keys /\ locate(writer.key) = d
              /\ u = [off |-> writer.off, data |-> writer.key]
           \/ \E r \in Releasers : /\ rel[r].key \in Keys /\ locate(rel[r].key) = d
                                   /\ u = [off |-> entry_offset(rel[r].entry), data |-> rel[r].key]
  BY DEF UnitsOf, KeysOn
LEMMA UnitsMemberNext ==
  ASSUME NEW d \in Devices, NEW u
  PROVE  u \in UnitsOf(d)' <=>
           \/ \E k \in Keys : /\ locate(k) = d /\ Valid(table'[k])
                              /\ u = [off |-> entry_offset(table'[k]), data |-> k]
           \/ /\ writer'.key \in Keys /\ locate(writer'.key) = d
              /\ u = [off |-> writer'.off, data |-> writer'.key]
           \/ \E r \in Releasers : /\ rel'[r].key \in Keys /\ locate(rel'[r].key) = d
                                   /\ u = [off |-> entry_offset(rel'[r].entry), data |-> rel'[r].key]
  BY DEF UnitsOf, KeysOn

LEMMA ZeroIsNoKey == Zero \notin Keys
  BY KVConstants, GeometryConstants

-------------------------------------------------------------------------------
\* What a step of the store does on one device, as the segment manager sees it.
SegmentStep(d) ==
  \/ mgr'[d] = mgr[d] /\ UnitsOf(d)' = UnitsOf(d)
  \/ \E k \in Keys :
       /\ ~Exhausted(mgr[d]) /\ mgr'[d] = append(mgr[d], k)
       /\ UnitsOf(d)' = UnitsOf(d) \cup {[off |-> AppendOffset(mgr[d]), data |-> k]}
  \/ Exhausted(mgr[d]) /\ mgr'[d] = Rolled(mgr[d]) /\ UnitsOf(d)' = UnitsOf(d)
  \/ /\ mgr'[d] = IF Flushable(mgr[d]) THEN flush_locked(mgr[d]) ELSE mgr[d]
     /\ UnitsOf(d)' = UnitsOf(d)
  \/ Flushable(mgr[d]) /\ mgr'[d] \in {mgr[d], Written(mgr[d])} /\ UnitsOf(d)' = UnitsOf(d)
  \/ \E u \in UnitsOf(d) :
       /\ ~ReleaseRefused(mgr[d], u.off) /\ mgr'[d] = release(mgr[d], u.off)
       /\ UnitsOf(d)' = UnitsOf(d) \ {u}

\* A step of the store: every device makes one of these, and the valid entries
\* of the keys nobody releases stay.
StoreStep ==
  /\ mgr' = [d \in Devices |-> mgr'[d]]
  /\ \A d \in Devices : SegmentStep(d)
  /\ \A k \in Keys : Valid(table[k]) /\ (\A r \in Releasers : rel[r].key # k)
                       => table'[k] = table[k]

\* Such a step keeps every manager Good for its units, and every held unit that
\* is on its device stays there.
LEMMA SegmentStepGood ==
  ASSUME NEW d \in Devices, Good(mgr[d], UnitsOf(d)), SegmentStep(d)
  PROVE  /\ Good(mgr'[d], UnitsOf(d)')
         /\ \A u \in UnitsOf(d) : segment_of(u.off) # mgr[d].buf_seg
                                    => segment_of(u.off) # mgr'[d].buf_seg
<1>1. Keys = Data
  BY KVConstants
<1>2. mgr[d].buf_seg \in Segs \cup {NoSeg}
  BY ManagerFields DEF Good, Shape
<1>3. \A u \in UnitsOf(d) : segment_of(u.off) # mgr[d].buf_seg =>
        /\ segment_of(u.off) # flush_locked(mgr[d]).buf_seg
        /\ segment_of(u.off) # Rolled(mgr[d]).buf_seg
        /\ segment_of(u.off) # Written(mgr[d]).buf_seg
        /\ \A off : segment_of(u.off) # release(mgr[d], off).buf_seg
        /\ ~Exhausted(mgr[d]) => \A k : segment_of(u.off) # append(mgr[d], k).buf_seg
  BY StaysOnDevice
<1>4. CASE mgr'[d] = mgr[d] /\ UnitsOf(d)' = UnitsOf(d)
  BY <1>4
<1>5. ASSUME NEW k \in Keys,
             ~Exhausted(mgr[d]), mgr'[d] = append(mgr[d], k),
             UnitsOf(d)' = UnitsOf(d) \cup {[off |-> AppendOffset(mgr[d]), data |-> k]}
      PROVE  /\ Good(mgr'[d], UnitsOf(d)')
             /\ \A u \in UnitsOf(d) : segment_of(u.off) # mgr[d].buf_seg
                                        => segment_of(u.off) # mgr'[d].buf_seg
  BY <1>1, <1>3, <1>5, AppendGood
<1>6. CASE mgr'[d] = Rolled(mgr[d]) /\ UnitsOf(d)' = UnitsOf(d)
  BY <1>3, <1>6, RolledGood
<1>7. CASE /\ mgr'[d] = IF Flushable(mgr[d]) THEN flush_locked(mgr[d]) ELSE mgr[d]
           /\ UnitsOf(d)' = UnitsOf(d)
  BY <1>2, <1>3, <1>7, FlushGood DEF Flushable
<1>8. CASE Flushable(mgr[d]) /\ mgr'[d] \in {mgr[d], Written(mgr[d])} /\ UnitsOf(d)' = UnitsOf(d)
  BY <1>2, <1>3, <1>8, WrittenGood DEF Flushable
<1>9. ASSUME NEW u \in UnitsOf(d), mgr'[d] = release(mgr[d], u.off),
             UnitsOf(d)' = UnitsOf(d) \ {u}
      PROVE  /\ Good(mgr'[d], UnitsOf(d)')
             /\ \A v \in UnitsOf(d) : segment_of(v.off) # mgr[d].buf_seg
                                        => segment_of(v.off) # mgr'[d].buf_seg
  BY <1>3, <1>9, ReleaseGood
<1>. QED
  BY <1>4, <1>5, <1>6, <1>7, <1>8, <1>9 DEF SegmentStep

LEMMA StoreStepGood ==
  ASSUME StoreInv, StoreStep, BookInv'
  PROVE  StoreInv'
<1>1. \A d \in Devices : Good(mgr'[d], UnitsOf(d)')
  BY SegmentStepGood DEF StoreInv, UnitsGood, StoreStep
<1>2. \A d \in Devices : mgr'[d] \in Managers
  BY <1>1 DEF Good, Shape
<1>3. mgr' \in [Devices -> Managers]
  BY <1>2 DEF StoreStep
<1>. QED
  BY <1>1, <1>3 DEF StoreInv, UnitsGood
-------------------------------------------------------------------------------
(* The writer and the flusher.                                             *)

\* Only the manager of device d is touched, and no unit.
LEMMA OneDevice ==
  ASSUME StoreInv, NEW d \in Devices, NEW m, mgr' = [mgr EXCEPT ![d] = m]
  PROVE  /\ mgr' = [x \in Devices |-> mgr'[x]]
         /\ \A x \in Devices : mgr'[x] = IF x = d THEN m ELSE mgr[x]
  BY ZenonT(20) DEF StoreInv

LEMMA SameUnits ==
  ASSUME UNCHANGED <<table, writer, rel>>, NEW d
  PROVE  UnitsOf(d)' = UnitsOf(d)
  BY DEF UnitsOf, KeysOn

LEMMA SameBook ==
  ASSUME BookInv, UNCHANGED <<table, written, writer, rel>>, flusher' \in 0 .. NumDevices
  PROVE  BookInv'
  BY DEF BookInv, BookTypes, Fresh, WriterSound, ReleaserSound

LEMMA WriteStep ==
  ASSUME StoreInv, NEW k \in Keys, Write(k)
  PROVE  StoreStep /\ BookInv'
<1> DEFINE d0 == locate(k)
           u == [off |-> AppendOffset(mgr[d0]), data |-> k]
<1>1. d0 \in Devices
  BY LocateDevice
<1>2. /\ writer.pc = "idle" /\ k \notin written /\ ~Exhausted(mgr[d0])
      /\ mgr' = [mgr EXCEPT ![d0] = append(mgr[d0], k)]
      /\ writer' = [pc |-> "set", key |-> k, off |-> AppendOffset(mgr[d0])]
      /\ written' = written \cup {k}
      /\ UNCHANGED <<table, flusher, rel>>
  BY DEF Write
<1>3. writer'.pc = "set" /\ writer'.key = k /\ writer'.off = AppendOffset(mgr[d0])
  BY <1>2
<1>4. writer.key = Zero
  BY <1>2 DEF StoreInv, BookInv, WriterSound
<1>5. AppendOffset(mgr[d0]) \in Nat
  <2>1. Good(append(mgr[d0], k), UnitsOf(d0) \cup {u})
    BY <1>1, <1>2, AppendGood, KVConstants DEF StoreInv, UnitsGood
  <2>. QED
    BY ZenonT(20), <2>1, SegmentOfOffset DEF Good, Shape
<1>6. \A x \in Devices : UnitsOf(x)' = IF x = d0 THEN UnitsOf(x) \cup {u} ELSE UnitsOf(x)
  <2> SUFFICES ASSUME NEW x \in Devices, NEW v
               PROVE  v \in UnitsOf(x)' <=> v \in UnitsOf(x) \/ (x = d0 /\ v = u)
    OBVIOUS
  <2>. QED
    BY <1>2, <1>3, <1>4, UnitsMember, UnitsMemberNext, ZeroIsNoKey
<1>7. StoreStep
  <2>1. /\ mgr' = [x \in Devices |-> mgr'[x]]
        /\ \A x \in Devices : mgr'[x] = IF x = d0 THEN append(mgr[d0], k) ELSE mgr[x]
    BY ZenonT(20), <1>1, <1>2, OneDevice
  <2>. QED
    BY <1>2, <1>6, <2>1 DEF StoreStep, SegmentStep
<1>8. BookTypes'
  BY <1>2, <1>5 DEF StoreInv, BookInv, BookTypes, WriterState
<1>9. Fresh' /\ WriterSound' /\ \A r \in Releasers : ReleaserSound(r)'
  BY <1>2, <1>3 DEF StoreInv, BookInv, Fresh, WriterSound, ReleaserSound
<1>. QED
  BY <1>7, <1>8, <1>9 DEF BookInv

LEMMA WriteFullStep ==
  ASSUME StoreInv, NEW k \in Keys, WriteFull(k)
  PROVE  StoreStep /\ BookInv'
<1>1. locate(k) \in Devices
  BY LocateDevice
<1>2. /\ Exhausted(mgr[locate(k)]) /\ mgr' = [mgr EXCEPT ![locate(k)] = Rolled(mgr[locate(k)])]
      /\ UNCHANGED <<table, written, writer, flusher, rel>>
  BY DEF WriteFull
<1>3. /\ mgr' = [x \in Devices |-> mgr'[x]]
      /\ \A x \in Devices : mgr'[x] = IF x = locate(k) THEN Rolled(mgr[locate(k)]) ELSE mgr[x]
  BY ZenonT(20), <1>1, <1>2, OneDevice
<1>4. \A x \in Devices : UnitsOf(x)' = UnitsOf(x)
  BY <1>2, SameUnits
<1>5. StoreStep
  BY <1>2, <1>3, <1>4 DEF StoreStep, SegmentStep
<1>. QED
  BY <1>2, <1>5, SameBook DEF StoreInv, BookInv, BookTypes

LEMMA FlushStep ==
  ASSUME StoreInv, FlushBegin \/ FlushDevice
  PROVE  StoreStep /\ BookInv'
<1>1. UNCHANGED <<table, written, writer, rel>> /\ flusher \in 0 .. NumDevices
  BY DEF FlushBegin, FlushDevice, StoreInv, BookInv, BookTypes
<1>2. \A x \in Devices : UnitsOf(x)' = UnitsOf(x)
  BY <1>1, SameUnits
<1>3. CASE FlushBegin
  <2>1. UNCHANGED mgr /\ flusher' \in 0 .. NumDevices
    BY <1>3, KVConstants DEF FlushBegin
  <2>. QED
    BY <1>1, <1>2, <2>1, SameBook DEF StoreStep, SegmentStep, StoreInv
<1>4. CASE FlushDevice
  <2> DEFINE d == flusher - 1
             m == IF Flushable(mgr[d]) THEN flush_locked(mgr[d]) ELSE mgr[d]
  <2>1. d \in Devices
    BY <1>1, <1>4, KVConstants DEF FlushDevice, Devices
  <2>2. mgr' = [mgr EXCEPT ![d] = m]
    BY <1>4 DEF FlushDevice
  <2>3. flusher' \in 0 .. NumDevices
    BY <1>1, <1>4, KVConstants DEF FlushDevice
  <2>4. /\ mgr' = [x \in Devices |-> mgr'[x]]
        /\ \A x \in Devices : mgr'[x] = IF x = d THEN m ELSE mgr[x]
    BY ZenonT(20), <2>1, <2>2, OneDevice
  <2>5. StoreStep
    BY <1>1, <1>2, <2>4 DEF StoreStep, SegmentStep
  <2>. QED
    BY <1>1, <2>3, <2>5, SameBook DEF StoreInv
<1>. QED
  BY <1>3, <1>4

LEMMA WriteErrorStep ==
  ASSUME StoreInv, NEW d \in Devices, WriteError(d)
  PROVE  StoreStep /\ BookInv'
<1>1. UNCHANGED <<table, written, writer, rel>> /\ flusher' \in 0 .. NumDevices
  BY KVConstants DEF WriteError
<1>2. \A x \in Devices : UnitsOf(x)' = UnitsOf(x)
  BY <1>1, SameUnits
<1>3. Flushable(mgr[d]) /\ (mgr' = mgr \/ mgr' = [mgr EXCEPT ![d] = Written(mgr[d])])
  BY DEF WriteError
<1>4. /\ mgr' = [x \in Devices |-> mgr'[x]]
      /\ \A x \in Devices : mgr'[x] = mgr[x] \/ (x = d /\ mgr'[x] = Written(mgr[d]))
  BY <1>3, OneDevice DEF StoreInv
<1>5. StoreStep
  BY <1>1, <1>2, <1>3, <1>4 DEF StoreStep, SegmentStep
<1>. QED
  BY <1>1, <1>5, SameBook DEF StoreInv

\* The unit moves from the writer into the table.
LEMMA SetEntryStep ==
  ASSUME StoreInv, SetEntry
  PROVE  StoreStep /\ BookInv'
<1> DEFINE k0 == writer.key
           e0 == pack_entry(writer.off, FLAG_VALID)
<1>1. /\ writer.pc = "set" /\ writer' = IdleWriter
      /\ table' = [table EXCEPT ![k0] = e0]
      /\ UNCHANGED <<mgr, written, flusher, rel>>
  BY DEF SetEntry
<1>2. /\ k0 \in written /\ k0 \in Keys /\ ~Valid(table[k0])
      /\ \A r \in Releasers : rel[r].key # k0
  BY <1>1 DEF StoreInv, BookInv, BookTypes, WriterSound
<1>3. writer.off \in Nat
  BY DEF StoreInv, BookInv, BookTypes, WriterState
<1>4. e0 \in Nat /\ entry_offset(e0) = writer.off /\ Valid(e0)
  BY <1>3, EntryPacked
<1>5. \A k \in Keys : table'[k] = IF k = k0 THEN e0 ELSE table[k]
  BY <1>1 DEF StoreInv, BookInv, BookTypes
<1>6. writer'.key = Zero /\ writer'.pc = "idle"
  BY <1>1 DEF IdleWriter
<1>. HIDE DEF e0
<1>7. \A x \in Devices : UnitsOf(x)' = UnitsOf(x)
  <2> SUFFICES ASSUME NEW x \in Devices, NEW v
               PROVE  v \in UnitsOf(x)' <=> v \in UnitsOf(x)
    OBVIOUS
  <2>. QED
    BY <1>1, <1>2, <1>4, <1>5, <1>6, UnitsMember, UnitsMemberNext, ZeroIsNoKey
<1>8. StoreStep
  BY <1>1, <1>2, <1>5, <1>7 DEF StoreStep, SegmentStep, StoreInv
<1>9. BookTypes'
  BY ZenonT(20), <1>1, <1>4 DEF StoreInv, BookInv, BookTypes, WriterState, IdleWriter
<1>10. Fresh' /\ WriterSound'
  BY <1>1, <1>2, <1>5, <1>6 DEF StoreInv, BookInv, Fresh, WriterSound
<1>11. \A r \in Releasers : ReleaserSound(r)'
  BY <1>1, <1>2, <1>5 DEF StoreInv, BookInv, ReleaserSound
<1>. QED
  BY <1>8, <1>9, <1>10, <1>11 DEF BookInv

-------------------------------------------------------------------------------
(* The releasers.                                                          *)

\* A releaser takes over the unit of a valid entry; the table still has it too.
LEMMA ReleaseGetStep ==
  ASSUME StoreInv, NEW r \in Releasers, NEW k \in Keys, ReleaseGet(r, k)
  PROVE  StoreStep /\ BookInv'
<1> DEFINE s == [pc |-> "invalidate", key |-> k, entry |-> table[k]]
<1>1. /\ rel[r].pc = "idle" /\ Valid(table[k]) /\ rel' = [rel EXCEPT ![r] = s]
      /\ UNCHANGED <<mgr, table, written, writer, flusher>>
      /\ ~Releasing(k)
  BY DEF ReleaseGet
<1>2. s.pc = "invalidate" /\ s.key = k /\ s.entry = table[k] /\ table[k] \in Nat
  BY DEF StoreInv, BookInv, BookTypes
<1>3. \A q \in Releasers : rel'[q] = IF q = r THEN s ELSE rel[q]
  BY <1>1 DEF StoreInv, BookInv, BookTypes
<1>4. rel[r].key = Zero /\ \A q \in Releasers : rel[q].key # k
  BY SMTT(20), <1>1, ZeroIsNoKey DEF StoreInv, BookInv, ReleaserSound, Releasing
<1>5. k \in written /\ writer.key # k
  BY <1>1, ZeroIsNoKey DEF StoreInv, BookInv, Fresh, WriterSound
<1>6. \A x \in Devices : UnitsOf(x)' = UnitsOf(x)
  <2> SUFFICES ASSUME NEW x \in Devices, NEW v
               PROVE  v \in UnitsOf(x)' <=> v \in UnitsOf(x)
    BY SMTT(20)
  <2>1. v \in UnitsOf(x) => v \in UnitsOf(x)'
    BY SMTT(20), <1>1, <1>3, <1>4, UnitsMember, UnitsMemberNext, ZeroIsNoKey
  <2>2. v \in UnitsOf(x)' => v \in UnitsOf(x)
    BY <1>1, <1>2, <1>3, UnitsMember, UnitsMemberNext
  <2>. QED
    BY <2>1, <2>2
<1>7. StoreStep
  BY <1>1, <1>6 DEF StoreStep, SegmentStep, StoreInv
<1>8. BookTypes'
  BY SMTT(20), <1>1, <1>2 DEF StoreInv, BookInv, BookTypes, ReleaserState
<1>. HIDE DEF s
<1>9. Fresh' /\ WriterSound'
  <2>1. Fresh'
    BY <1>1, <1>2, <1>3, <1>5 DEF StoreInv, BookInv, Fresh
  <2>2. WriterSound'
    BY <1>1, <1>2, <1>3, <1>5 DEF StoreInv, BookInv, WriterSound
  <2>. QED
    BY <2>1, <2>2
<1>10. \A q \in Releasers : ReleaserSound(q)'
  <2> SUFFICES ASSUME NEW q \in Releasers PROVE ReleaserSound(q)'
    OBVIOUS
  <2>1. CASE q = r
    BY <1>1, <1>2, <1>3, <1>4, <2>1 DEF ReleaserSound
  <2>2. CASE q # r
    BY <1>1, <1>2, <1>3, <1>4, <2>2 DEF StoreInv, BookInv, ReleaserSound
  <2>. QED
    BY <2>1, <2>2
<1>. QED
  BY <1>7, <1>8, <1>9, <1>10 DEF BookInv

\* The entry leaves the table; the unit stays with the releaser.
LEMMA InvalidateStep ==
  ASSUME StoreInv, NEW r \in Releasers, Invalidate(r)
  PROVE  StoreStep /\ BookInv'
<1> DEFINE k0 == rel[r].key
<1>1. /\ rel[r].pc = "invalidate" /\ rel' = [rel EXCEPT ![r].pc = "pop"]
      /\ table' = [table EXCEPT ![k0] = 0]
      /\ UNCHANGED <<mgr, written, writer, flusher>>
  BY DEF Invalidate
<1>2. /\ k0 \in Keys /\ Valid(rel[r].entry) /\ table[k0] = rel[r].entry
      /\ \A q \in Releasers : rel[q].key = k0 => q = r
  BY <1>1 DEF StoreInv, BookInv, ReleaserSound
<1>3. /\ \A q \in Releasers : rel'[q].key = rel[q].key /\ rel'[q].entry = rel[q].entry
      /\ \A q \in Releasers : rel'[q].pc = IF q = r THEN "pop" ELSE rel[q].pc
  BY <1>1 DEF StoreInv, BookInv, BookTypes, ReleaserState
<1>4. \A k \in Keys : table'[k] = IF k = k0 THEN 0 ELSE table[k]
  BY <1>1 DEF StoreInv, BookInv, BookTypes
<1>5. \A x \in Devices : UnitsOf(x)' = UnitsOf(x)
  <2> SUFFICES ASSUME NEW x \in Devices, NEW v
               PROVE  v \in UnitsOf(x)' <=> v \in UnitsOf(x)
    OBVIOUS
  <2>. QED
    BY <1>1, <1>2, <1>3, <1>4, EmptyEntry, UnitsMember, UnitsMemberNext
<1>6. StoreStep
  BY <1>1, <1>4, <1>5 DEF StoreStep, SegmentStep, StoreInv
<1>7. BookTypes'
  BY ZenonT(20), <1>1 DEF StoreInv, BookInv, BookTypes, ReleaserState
<1>8. Fresh' /\ WriterSound'
  BY <1>1, <1>2, <1>3, <1>4, EmptyEntry DEF StoreInv, BookInv, BookTypes, Fresh, WriterSound
<1>9. \A q \in Releasers : ReleaserSound(q)'
  BY <1>1, <1>2, <1>3, <1>4, EmptyEntry DEF StoreInv, BookInv, ReleaserSound
<1>. QED
  BY <1>6, <1>7, <1>8, <1>9 DEF BookInv

LEMMA PopCacheStep ==
  ASSUME StoreInv, NEW r \in Releasers, PopCache(r)
  PROVE  StoreStep /\ BookInv'
<1>1. /\ rel[r].pc = "pop" /\ rel' = [rel EXCEPT ![r].pc = "release"]
      /\ UNCHANGED <<mgr, table, written, writer, flusher>>
  BY DEF PopCache
<1>2. /\ \A q \in Releasers : rel'[q].key = rel[q].key /\ rel'[q].entry = rel[q].entry
      /\ \A q \in Releasers : rel'[q].pc = IF q = r THEN "release" ELSE rel[q].pc
  BY <1>1 DEF StoreInv, BookInv, BookTypes, ReleaserState
<1>3. \A x \in Devices : UnitsOf(x)' = UnitsOf(x)
  <2> SUFFICES ASSUME NEW x \in Devices, NEW v
               PROVE  v \in UnitsOf(x)' <=> v \in UnitsOf(x)
    OBVIOUS
  <2>. QED
    BY <1>1, <1>2, UnitsMember, UnitsMemberNext
<1>4. StoreStep
  BY <1>1, <1>3 DEF StoreStep, SegmentStep, StoreInv
<1>5. BookTypes'
  BY <1>1 DEF StoreInv, BookInv, BookTypes, ReleaserState
<1>6. Fresh' /\ WriterSound' /\ \A q \in Releasers : ReleaserSound(q)'
  BY <1>1, <1>2 DEF StoreInv, BookInv, Fresh, WriterSound, ReleaserSound
<1>. QED
  BY <1>4, <1>5, <1>6 DEF BookInv

\* The releaser gives its unit back, once.
LEMMA VmReleaseStep ==
  ASSUME StoreInv, NEW r \in Releasers, VmRelease(r)
  PROVE  StoreStep /\ BookInv'
<1> DEFINE k0 == rel[r].key
           d0 == locate(k0)
           off0 == entry_offset(rel[r].entry)
           u0 == [off |-> off0, data |-> k0]
<1>1. /\ rel[r].pc = "release" /\ rel' = [rel EXCEPT ![r] = IdleReleaser]
      /\ mgr' = [mgr EXCEPT ![d0] = IF ReleaseRefused(mgr[d0], off0) THEN mgr[d0]
                                    ELSE release(mgr[d0], off0)]
      /\ UNCHANGED <<table, written, writer, flusher>>
  BY DEF VmRelease
<1>2. /\ k0 \in Keys /\ ~Valid(table[k0]) /\ d0 \in Devices
      /\ \A q \in Releasers : rel[q].key = k0 => q = r
  BY <1>1, LocateDevice DEF StoreInv, BookInv, ReleaserSound
<1>3. /\ \A q \in Releasers : rel'[q] = IF q = r THEN IdleReleaser ELSE rel[q]
      /\ IdleReleaser.key = Zero /\ IdleReleaser.pc = "idle"
  BY <1>1 DEF StoreInv, BookInv, BookTypes, IdleReleaser
<1>4. writer.key # k0
  BY SMTT(20), <1>1, <1>2, ZeroIsNoKey DEF StoreInv, BookInv, WriterSound
<1>5. u0 \in UnitsOf(d0)
  BY <1>2, UnitsMember
<1>6. ~ReleaseRefused(mgr[d0], off0)
  <2>1. Good(mgr[d0], UnitsOf(d0)) /\ u0.off = off0
    BY <1>2 DEF StoreInv, UnitsGood
  <2>. QED
    BY <1>5, <2>1, HeldReleasable
<1>7. \A x \in Devices : UnitsOf(x)' = IF x = d0 THEN UnitsOf(x) \ {u0} ELSE UnitsOf(x)
  <2> SUFFICES ASSUME NEW x \in Devices, NEW v
               PROVE  v \in UnitsOf(x)' <=> v \in UnitsOf(x) /\ ~(x = d0 /\ v = u0)
    BY ZenonT(20)
  <2>1. v \in UnitsOf(x)' => v \in UnitsOf(x)
    BY <1>1, <1>3, UnitsMember, UnitsMemberNext, ZeroIsNoKey
  <2>2. v \in UnitsOf(x)' => v.data # k0
    BY <1>1, <1>2, <1>3, <1>4, UnitsMemberNext, ZeroIsNoKey
  <2>3. v \in UnitsOf(x) => v \in UnitsOf(x)' \/ (x = d0 /\ v = u0)
    BY <1>1, <1>3, UnitsMember, UnitsMemberNext
  <2>. QED
    BY <2>1, <2>2, <2>3
<1>8. /\ mgr' = [x \in Devices |-> mgr'[x]]
      /\ \A x \in Devices : mgr'[x] = IF x = d0 THEN release(mgr[d0], u0.off) ELSE mgr[x]
  BY ZenonT(20), <1>1, <1>2, <1>6, OneDevice
<1>9. u0.off = off0
  OBVIOUS
<1>. HIDE DEF u0, d0, off0
<1>10. StoreStep
  <2> SUFFICES ASSUME NEW x \in Devices PROVE SegmentStep(x)
    BY <1>1, <1>8 DEF StoreStep
  <2>1. CASE x = d0
    BY <1>5, <1>6, <1>7, <1>8, <1>9, <2>1 DEF SegmentStep
  <2>2. CASE x # d0
    BY <1>7, <1>8, <2>2 DEF SegmentStep
  <2>. QED
    BY <2>1, <2>2
<1>11. BookTypes'
  BY <1>1 DEF StoreInv, BookInv, BookTypes, ReleaserState, IdleReleaser
<1>12. Fresh' /\ WriterSound'
  BY <1>1, <1>3, ZeroIsNoKey DEF StoreInv, BookInv, BookTypes, Fresh, WriterSound
<1>13. \A q \in Releasers : ReleaserSound(q)'
  BY <1>1, <1>3, ZeroIsNoKey DEF StoreInv, BookInv, ReleaserSound
<1>. QED
  BY <1>10, <1>11, <1>12, <1>13 DEF BookInv

-------------------------------------------------------------------------------
\* A valid entry leads to the unit of its key, in the buffer or on the device.
LEMMA EntryServed ==
  ASSUME StoreInv, NEW k \in Keys, Valid(table[k])
  PROVE  /\ [off |-> entry_offset(table[k]), data |-> k] \in UnitsOf(locate(k))
         /\ is_buffered(mgr[locate(k)], entry_offset(table[k]))
              => read_buffer(mgr[locate(k)], entry_offset(table[k])) = k
         /\ ~is_buffered(mgr[locate(k)], entry_offset(table[k]))
              => /\ read_disk(mgr[locate(k)], entry_offset(table[k])) = k
                 /\ Flushed(k, table[k])
         /\ Flushed(k, table[k]) => ~is_buffered(mgr[locate(k)], entry_offset(table[k]))
<1> DEFINE u == [off |-> entry_offset(table[k]), data |-> k]
<1>1. locate(k) \in Devices
  BY LocateDevice
<1>2. u \in UnitsOf(locate(k)) /\ u.off = entry_offset(table[k]) /\ u.data = k
  BY <1>1, UnitsMember
<1>3. Good(mgr[locate(k)], UnitsOf(locate(k)))
  BY <1>1 DEF StoreInv, UnitsGood
<1>. HIDE DEF u
<1>4. /\ u.off \in Offsets
      /\ u.data = IF is_buffered(mgr[locate(k)], u.off) THEN read_buffer(mgr[locate(k)], u.off)
                                                        ELSE read_disk(mgr[locate(k)], u.off)
  BY <1>2, <1>3, GoodReadable
<1>5. segment_of(u.off) # NoSeg
  BY <1>4, SegmentOfOffset, NoSegOutside
<1>6. is_buffered(mgr[locate(k)], u.off) <=> ~Flushed(k, table[k])
  BY <1>2, <1>5 DEF is_buffered, Flushed
<1>. QED
  BY <1>2, <1>4, <1>6 DEF u

-------------------------------------------------------------------------------
(* The invariant.                                                          *)

LEMMA SameStore ==
  ASSUME StoreInv, UNCHANGED <<mgr, table, written, writer, flusher, rel>>
  PROVE  StoreInv'
<1>1. BookInv'
  BY SameBook DEF StoreInv, BookInv, BookTypes
<1>2. \A d \in Devices : UnitsOf(d)' = UnitsOf(d)
  BY SameUnits
<1>. QED
  BY <1>1, <1>2 DEF StoreInv, UnitsGood

\* Every step either leaves what the store shares alone, or is a StoreStep that
\* leaves the readers alone.
ReaderMove ==
  \/ \E r \in Readers, kind \in {"plan", "fetch", "prefetch"}, ts \in Batches : Call(r, kind, ts)
  \/ \E r \in Readers :
       \/ gather(r) \/ NotOffloaded(r)
       \/ PlanCheck(r) \/ PlanRead(r) \/ GpuDone(r)
       \/ FetchScan(r) \/ FetchDone(r) \/ PrefetchStore(r)
       \/ \E i \in DOMAIN rd[r].out : FetchDisk(r, i)

StoreMove ==
  \/ \E k \in Keys : Write(k) \/ WriteFull(k)
  \/ SetEntry
  \/ FlushBegin
  \/ FlushDevice
  \/ \E d \in Devices : WriteError(d)
  \/ \E r \in Releasers, k \in Keys : ReleaseGet(r, k)
  \/ \E r \in Releasers : Invalidate(r) \/ PopCache(r) \/ VmRelease(r)

LEMMA Moves == Next <=> ReaderMove \/ StoreMove
  BY DEF Next, ReaderMove, StoreMove

LEMMA StoreMoves ==
  ASSUME StoreInv, StoreMove
  PROVE  StoreStep /\ BookInv'
  BY SMTT(20), WriteStep, WriteFullStep, SetEntryStep, FlushStep, WriteErrorStep,
     ReleaseGetStep, InvalidateStep, PopCacheStep, VmReleaseStep DEF StoreMove

\* A step of a reader leaves what the store shares alone.
LEMMA ReaderMoves ==
  ASSUME ReaderMove
  PROVE  UNCHANGED <<mgr, table, written, writer, flusher, rel>>
<1>1. ASSUME NEW r \in Readers, NEW kind, NEW ts, Call(r, kind, ts)
      PROVE  UNCHANGED <<mgr, table, written, writer, flusher, rel>>
  BY <1>1 DEF Call
<1>2. ASSUME NEW r \in Readers, gather(r) \/ NotOffloaded(r) \/ PlanCheck(r) \/ PlanRead(r)
      PROVE  UNCHANGED <<mgr, table, written, writer, flusher, rel>>
  BY ZenonT(20), <1>2 DEF gather, NotOffloaded, PlanCheck, PlanRead
<1>3. ASSUME NEW r \in Readers,
             GpuDone(r) \/ FetchScan(r) \/ FetchDone(r) \/ PrefetchStore(r)
      PROVE  UNCHANGED <<mgr, table, written, writer, flusher, rel>>
  BY ZenonT(20), <1>3 DEF GpuDone, FetchScan, FetchDone, PrefetchStore
<1>4. ASSUME NEW r \in Readers, NEW i \in DOMAIN rd[r].out, FetchDisk(r, i)
      PROVE  UNCHANGED <<mgr, table, written, writer, flusher, rel>>
  BY <1>4 DEF FetchDisk
<1>. QED
  BY <1>1, <1>2, <1>3, <1>4 DEF ReaderMove

LEMMA NextKeepsStore ==
  ASSUME StoreInv, [Next]_vars
  PROVE  StoreInv'
<1>1. CASE StoreMove
  BY <1>1, StoreMoves, StoreStepGood
<1>2. CASE ReaderMove
  BY <1>2, ReaderMoves, SameStore
<1>3. CASE UNCHANGED vars
  <2>1. UNCHANGED <<mgr, table, written, writer, flusher, rel>>
    BY <1>3 DEF vars
  <2>. QED
    BY <2>1, SameStore
<1>. QED
  BY <1>1, <1>2, <1>3, Moves

LEMMA InitStore ==
  ASSUME Init
  PROVE  StoreInv /\ \A d \in Devices : mgr[d] = NewManager /\ UnitsOf(d) = {}
<1>1. /\ \A k \in Keys : table[k] = 0
      /\ \A r \in Releasers : rel[r].key = Zero /\ rel[r].pc = "idle"
      /\ writer.key = Zero /\ writer.pc = "idle"
      /\ \A d \in Devices : mgr[d] = NewManager
  BY DEF Init, IdleWriter, IdleReleaser
<1>2. ASSUME NEW d \in Devices PROVE UnitsOf(d) = {}
  <2> SUFFICES ASSUME NEW u \in UnitsOf(d) PROVE FALSE
    OBVIOUS
  <2>. QED
    BY <1>1, UnitsMember, EmptyEntry, ZeroIsNoKey
<1>3. UnitsGood
  BY <1>1, <1>2, NewGood DEF UnitsGood
<1>4. mgr \in [Devices -> Managers]
  BY NewGood DEF Init, Good, Shape
<1>5. BookTypes
  BY KVConstants
     DEF Init, BookTypes, WriterState, IdleWriter, ReleaserState, IdleReleaser
<1>6. Fresh /\ WriterSound /\ \A r \in Releasers : ReleaserSound(r)
  BY <1>1, EmptyEntry, ZeroIsNoKey DEF Fresh, WriterSound, ReleaserSound
<1>. QED
  BY <1>1, <1>2, <1>3, <1>4, <1>5, <1>6 DEF StoreInv, BookInv

\* The managers hold exactly the units the store accounts for, and a key is in
\* one place at a time, whatever the threads of the store are doing.
THEOREM StoreInvariant == Spec => []StoreInv
<1>1. Init => StoreInv
  BY InitStore
<1>2. StoreInv /\ [Next]_vars => StoreInv'
  BY NextKeepsStore
<1>. QED
  BY <1>1, <1>2, PTL DEF Spec

\* On every device the refcounts are the numbers of keys whose units are there,
\* and every segment is free, being filled or in use by some of these keys, also
\* between an append and its slot table entry and in the middle of a release.
THEOREM StoreSegmentsSound ==
  Spec => [](\A d \in Devices : /\ RefcountExact(mgr[d], UnitsOf(d))
                                /\ SegmentsPartitioned(mgr[d], UnitsOf(d))
                                /\ UnitsReadable(mgr[d], UnitsOf(d)))
<1> DEFINE P == \A d \in Devices : /\ RefcountExact(mgr[d], UnitsOf(d))
                                   /\ SegmentsPartitioned(mgr[d], UnitsOf(d))
                                   /\ UnitsReadable(mgr[d], UnitsOf(d))
<1>1. StoreInv => P
  <2> SUFFICES ASSUME StoreInv, NEW d \in Devices
               PROVE  /\ RefcountExact(mgr[d], UnitsOf(d))
                      /\ SegmentsPartitioned(mgr[d], UnitsOf(d))
                      /\ UnitsReadable(mgr[d], UnitsOf(d))
    OBVIOUS
  <2>1. Good(mgr[d], UnitsOf(d))
    BY DEF StoreInv, UnitsGood
  <2>2. UnitsReadable(mgr[d], UnitsOf(d))
    BY <2>1, GoodReadable DEF UnitsReadable
  <2>. QED
    BY <2>1, <2>2 DEF Good
<1>. HIDE DEF P
<1>2. Spec => []P
  BY <1>1, StoreInvariant, PTL
<1>. QED
  BY <1>2 DEF P

\* A valid entry of the slot table leads to the unit of its key, for any number
\* of devices, keys, readers and releasers.
THEOREM StoreEntriesReadable == Spec => []EntriesReadable
<1>1. StoreInv => EntriesReadable
  <2> SUFFICES ASSUME StoreInv, NEW k \in Keys, Valid(table[k])
               PROVE  Contents(locate(k), entry_offset(table[k])) = k
    BY DEF EntriesReadable
  <2>. QED
    BY ZenonT(20), EntryServed DEF Contents
<1>. QED
  BY <1>1, StoreInvariant, PTL
===============================================================================
