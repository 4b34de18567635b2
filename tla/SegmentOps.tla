------------------------------ MODULE SegmentOps ------------------------------
(***************************************************************************)
(* The operations of bmpclient/_vm_segment.py:DeviceSegmentManager as      *)
(* operators on the state of one manager.  Each runs under self._lock, so  *)
(* a module that uses them makes one step of each.                         *)
(*                                                                         *)
(* Offsets and lengths count placement units (unit_size bytes): the        *)
(* geometry check makes a segment a whole number of units and the extent a *)
(* whole number of segments.  A manager m has                              *)
(*   m.free     the stack of free segments (popped at its end)             *)
(*   m.refcount the number of valid units of every segment                 *)
(*   m.buf_seg  the segment being filled, NoSeg when _buf is None          *)
(*   m.buf      the units of _buf filled so far (_buf_fill of them)        *)
(*   m.disk     what the extent holds, per segment                         *)
(***************************************************************************)
EXTENDS Integers, Sequences

CONSTANTS
  NSeg,     \* _n_seg, segments of the extent
  Slots,    \* _slots_per_seg, units of a segment
  Data,     \* contents of a unit
  Zero      \* the contents of a unit nobody wrote

ASSUME GeometryConstants ==
  /\ NSeg \in Nat \ {0}
  /\ Slots \in Nat \ {0}
  /\ Zero \notin Data

Segs == 0 .. NSeg - 1

SlotIdx == 0 .. Slots - 1

Offsets == 0 .. NSeg * Slots - 1

NoSeg == -1

Managers ==
  [free : Seq(Segs), refcount : [Segs -> Int], buf_seg : Segs \cup {NoSeg},
   buf : Seq(Data), disk : [Segs -> [SlotIdx -> Data \cup {Zero}]]]

\* DeviceSegmentManager.__init__
NewManager ==
  [free |-> [i \in 1 .. NSeg |-> NSeg - i], refcount |-> [s \in Segs |-> 0],
   buf_seg |-> NoSeg, buf |-> << >>,
   disk |-> [s \in Segs |-> [k \in SlotIdx |-> Zero]]]

segment_of(offset) == offset \div Slots

\* The bytes of _buf: a bytearray of zeros, filled from its start.
Page(buf) == [k \in SlotIdx |-> IF k < Len(buf) THEN buf[k + 1] ELSE Zero]

\* write_from either stores the whole segment or raises; a write that raises
\* may have reached the medium or not.
Written(m) == [m EXCEPT !.disk[m.buf_seg] = Page(m.buf)]

\* _flush_locked after a successful write_from
flush_locked(m) ==
  [Written(m) EXCEPT
     !.buf_seg = NoSeg, !.buf = << >>,
     !.free = IF m.refcount[m.buf_seg] = 0 THEN Append(@, m.buf_seg) ELSE @]

\* flush() has something to write
Flushable(m) == m.buf_seg # NoSeg /\ Len(m.buf) > 0

start_segment(m) ==
  [m EXCEPT !.free = SubSeq(@, 1, Len(@) - 1),
            !.buf_seg = m.free[Len(m.free)],
            !.buf = << >>]

\* append() has to write the current segment before it can take a unit.
SegmentIsFull(m) == m.buf_seg # NoSeg /\ Len(m.buf) = Slots

\* The manager append() tries to open a segment on, when it opens one.
Rolled(m) == IF SegmentIsFull(m) THEN flush_locked(m) ELSE m

\* append() raises SegmentFullError.
Exhausted(m) == Rolled(m).buf_seg = NoSeg /\ Rolled(m).free = << >>

\* The manager with a segment that has room.
Opened(m) == IF Rolled(m).buf_seg = NoSeg THEN start_segment(Rolled(m)) ELSE m

\* The offset append() returns, and the manager it leaves.
AppendOffset(m) == Opened(m).buf_seg * Slots + Len(Opened(m).buf)

append(m, data) ==
  [Opened(m) EXCEPT !.buf = Append(@, data),
                    !.refcount[Opened(m).buf_seg] = @ + 1]

is_buffered(m, offset) == m.buf_seg # NoSeg /\ segment_of(offset) = m.buf_seg

\* The units read_buffer and a read of the extent find at an offset.
read_buffer(m, offset) == Page(m.buf)[offset % Slots]

read_disk(m, offset) == m.disk[segment_of(offset)][offset % Slots]

\* release() raises: the segment has no unit to release.
ReleaseRefused(m, offset) ==
  segment_of(offset) # m.buf_seg /\ m.refcount[segment_of(offset)] <= 0

release(m, offset) ==
  LET s == segment_of(offset)
  IN [m EXCEPT !.refcount[s] = @ - 1,
               !.free = IF s # m.buf_seg /\ m.refcount[s] = 1
                        THEN Append(@, s) ELSE @]
===============================================================================
