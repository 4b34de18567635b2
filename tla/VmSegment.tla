------------------------------- MODULE VmSegment -------------------------------
(***************************************************************************)
(* What one DeviceSegmentManager (bmpclient/_vm_segment.py) and its        *)
(* callers do together.  Threads append, flush, read and release units in  *)
(* any order; every operation is atomic because it holds self._lock        *)
(* throughout.                                                             *)
(*                                                                         *)
(* A state is a manager m and the units L that its callers hold, as        *)
(* [off, data]: appended and not yet released.  A step relates it to the   *)
(* next manager m2 and the next units L2, so that a program with several   *)
(* managers can say of each that it makes such steps.  A caller releases a *)
(* unit it holds; the second release of a unit whose segment has no unit   *)
(* left is tried as well, because the code promises to refuse it.          *)
(***************************************************************************)
EXTENDS SegmentOps, FiniteSets

ManagerInit(m, L) ==
  /\ m = NewManager
  /\ L = {}

\* append() that finds or makes room
AppendOk(m, L, m2, L2, d) ==
  /\ ~Exhausted(m)
  /\ m2 = append(m, d)
  /\ L2 = L \cup {[off |-> AppendOffset(m), data |-> d]}

\* append() that raises SegmentFullError, after writing a full segment
AppendFull(m, L, m2, L2) ==
  /\ Exhausted(m)
  /\ m2 = Rolled(m)
  /\ L2 = L

Flush(m, L, m2, L2) ==
  /\ m2 = IF Flushable(m) THEN flush_locked(m) ELSE m
  /\ L2 = L

\* write_from raises in _flush_locked, called by append() or by flush()
WriteFails(m, L, m2, L2) ==
  /\ Flushable(m)
  /\ m2 \in {m, Written(m)}
  /\ L2 = L

Release(m, L, m2, L2, u) ==
  /\ ~ReleaseRefused(m, u.off)
  /\ m2 = release(m, u.off)
  /\ L2 = L \ {u}

\* A release of a unit the caller no longer holds, in a segment without units.
ReleaseAgain(m, L, m2, L2, off) ==
  /\ m.refcount[segment_of(off)] = 0 /\ segment_of(off) # m.buf_seg
  /\ m2 = IF ReleaseRefused(m, off) THEN m ELSE release(m, off)
  /\ L2 = L

ManagerNext(m, L, m2, L2) ==
  \/ \E d \in Data : AppendOk(m, L, m2, L2, d)
  \/ AppendFull(m, L, m2, L2)
  \/ Flush(m, L, m2, L2)
  \/ WriteFails(m, L, m2, L2)
  \/ \E u \in L : Release(m, L, m2, L2, u)
  \/ \E off \in Offsets : ReleaseAgain(m, L, m2, L2, off)

--------------------------------------------------------------------------------
UnitsIn(L, s) == {u \in L : segment_of(u.off) = s}

OnFree(m, s) == \E i \in 1 .. Len(m.free) : m.free[i] = s

\* refcount of a segment is the number of its units that callers hold, so a
\* segment goes back to the free stack exactly when its last unit is released.
RefcountExact(m, L) == \A s \in Segs : m.refcount[s] = Cardinality(UnitsIn(L, s))

\* A segment is on the free stack once, or is being filled, or has held units:
\* flushing, releasing and recycling lose no segment and free none twice.
SegmentsPartitioned(m, L) ==
  /\ \A i, j \in 1 .. Len(m.free) : m.free[i] = m.free[j] => i = j
  /\ \A s \in Segs : OnFree(m, s) <=> (s # m.buf_seg /\ UnitsIn(L, s) = {})

\* Every held unit is readable with its own data: from the buffer while its
\* segment is being filled, from the extent afterwards.  This is what plan()
\* and read_batch() rely on when is_buffered/read_buffer choose the source.
UnitsReadable(m, L) ==
  \A u \in L :
    u.data = IF is_buffered(m, u.off) THEN read_buffer(m, u.off)
                                      ELSE read_disk(m, u.off)

\* No segment is filled past its end.
BufferFits(m) == Len(m.buf) <= Slots
================================================================================
