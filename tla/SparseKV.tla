------------------------------- MODULE SparseKV -------------------------------
(***************************************************************************)
(* The sparse KV stack of bmpclient: SparseKVStore (sparse_kv/store.py)    *)
(* over SlotTable (sparse_kv/slot_table.py) and VirtualMedia               *)
(* (virtual_media.py), with one DeviceSegmentManager per SSD.              *)
(*                                                                         *)
(* Four kinds of thread run against one store: a writer (offload), a       *)
(* flusher, readers (which plan and then let the GPU load, or fetch and    *)
(* prefetch for the CPU) and releasers.                                    *)
(* A step is what one lock, or one unlocked access, makes atomic: a call   *)
(* of a segment manager, one slot of the table, one entry of the cache.    *)
(*                                                                         *)
(* The callers keep the rules the code states: a key is offloaded once     *)
(* (slot_table.py:17), a key a reader uses is not released before that     *)
(* reader is done (store.py:23), and there is one plan at a time, until    *)
(* the GPU is done with it, as the descriptor and staging buffers are at   *)
(* fixed addresses and written again by every step (store.py:18).  They    *)
(* also keep one the code needs, although DESIGN.md:15 says that every     *)
(* change of state is locked: two threads do not release the same key at a *)
(* time, as release() tests an entry and invalidates it without a lock.    *)
(* The unit written for a key is named by the key.                         *)
(***************************************************************************)
EXTENDS SegmentOps, PositionHash, FiniteSets

CONSTANTS
  Layers, Tokens,                \* layer ids and token indices in use
  NumDevices,                    \* online SSDs
  StepIdx, StepLayer, Prime,     \* options of PositionHashStrategy
  MaxTopk,                       \* max_topk: entries of the descriptor buffer
  Batches,                       \* the top-k lists of keys readers ask for
  Readers,                       \* threads that plan, fetch and prefetch
  Releasers                      \* threads that call release()

Keys == Layers \X Tokens

ASSUME KVConstants ==
  /\ Data = Keys
  /\ Layers \subseteq Nat /\ Tokens \subseteq Nat
  /\ NumDevices \in Nat \ {0}
  /\ MaxTopk \in Nat \ {0}
  /\ StepIdx \in Nat /\ StepLayer \in Nat /\ Prime \in Nat
  /\ Batches \subseteq Seq(Keys) \ {<< >>}
  /\ \A ts \in Batches : \A i, j \in DOMAIN ts : ts[i][1] = ts[j][1] /\ (ts[i] = ts[j] => i = j)
  /\ ValidSteps(NumDevices, StepIdx, StepLayer, Prime)

Devices == 0 .. NumDevices - 1

\* PositionHashStrategy.locate
locate(k) == position_hash(NumDevices, StepIdx, StepLayer, Prime, k[1], k[2])

\* The packed entry of the slot table: offset in the upper 48 bits, flags below.
FLAG_VALID == 1

pack_entry(offset, flags) == offset * 2^16 + flags

entry_offset(e) == e \div 2^16

entry_flags(e) == e % 2^8

Valid(e) == entry_flags(e) % 2 = FLAG_VALID

VARIABLES
  mgr,       \* _mgrs[d]
  table,     \* the slot table, one packed entry per key
  cache,     \* keys of the prefetch cache, with their contents
  written,   \* keys whose offload has reached a segment buffer
  writer,    \* the thread in offload()
  flusher,   \* 0, or the device vm.flush() flushes next plus one
  rd,        \* the readers
  rel,       \* the releasers
  desc,      \* _desc_buf: one descriptor buffer for all plans
  staging    \* _staging: one buffer for the units plan() copies

buffers == <<desc, staging>>

vars == <<mgr, table, cache, written, writer, flusher, rd, rel, desc, staging>>

NoCache == [x \in {} |-> Zero]

IdleReader == [pc |-> "idle", kind |-> "none", ts |-> << >>, entries |-> << >>, out |-> << >>]

IdleWriter == [pc |-> "idle", key |-> Zero, off |-> 0]

IdleReleaser == [pc |-> "idle", key |-> Zero, entry |-> 0]

Init ==
  /\ mgr = [d \in Devices |-> NewManager]
  /\ table = [k \in Keys |-> 0]
  /\ cache = NoCache
  /\ written = {}
  /\ writer = IdleWriter
  /\ flusher = 0
  /\ rd = [r \in Readers |-> IdleReader]
  /\ rel = [r \in Releasers |-> IdleReleaser]
  /\ desc = [i \in 1 .. MaxTopk |-> [ssd |-> 0, host |-> FALSE, off |-> 0]]
  /\ staging = [i \in 1 .. MaxTopk |-> Zero]
-------------------------------------------------------------------------------
(* offload(): vm.write, then slot_table.set, for one token after another.  *)

\* VirtualMedia.write: the unit goes into the segment buffer of its device.
Write(k) ==
  /\ writer.pc = "idle" /\ flusher = 0 /\ k \notin written
  /\ ~Exhausted(mgr[locate(k)])
  /\ mgr' = [mgr EXCEPT ![locate(k)] = append(@, k)]
  /\ writer' = [pc |-> "set", key |-> k, off |-> AppendOffset(mgr[locate(k)])]
  /\ written' = written \cup {k}
  /\ UNCHANGED <<table, cache, flusher, rd, rel, buffers>>

\* SegmentFullError ends the offload; a full segment was written before it.
WriteFull(k) ==
  /\ writer.pc = "idle" /\ flusher = 0 /\ k \notin written
  /\ Exhausted(mgr[locate(k)])
  /\ mgr' = [mgr EXCEPT ![locate(k)] = Rolled(@)]
  /\ UNCHANGED <<table, cache, written, writer, flusher, rd, rel, buffers>>

\* SlotTable.set publishes the entry in one assignment.
SetEntry ==
  /\ writer.pc = "set"
  /\ table' = [table EXCEPT ![writer.key] = pack_entry(writer.off, FLAG_VALID)]
  /\ writer' = IdleWriter
  /\ UNCHANGED <<mgr, cache, written, flusher, rd, rel, buffers>>

\* VirtualMedia.flush: all managers in turn, under the write lock.
FlushBegin ==
  /\ flusher = 0
  /\ flusher' = 1
  /\ UNCHANGED <<mgr, table, cache, written, writer, rd, rel, buffers>>

FlushDevice ==
  /\ flusher > 0
  /\ mgr' = [mgr EXCEPT ![flusher - 1] = IF Flushable(@) THEN flush_locked(@) ELSE @]
  /\ flusher' = (flusher + 1) % (NumDevices + 1)
  /\ UNCHANGED <<table, cache, written, writer, rd, rel, buffers>>
\* write_from raises below flush(), or below the write of a unit that finds
\* its segment full; the segment may have reached the device.
WriteError(d) ==
  /\ flusher = d + 1 \/ (flusher = 0 /\ writer.pc = "idle" /\ SegmentIsFull(mgr[d]))
  /\ Flushable(mgr[d])
  /\ mgr' \in {mgr, [mgr EXCEPT ![d] = Written(@)]}
  /\ flusher' = 0
  /\ UNCHANGED <<table, cache, written, writer, rd, rel, buffers>>
-------------------------------------------------------------------------------
(* Readers: plan(), fetch() and prefetch().                                *)

Releasing(k) == \E r \in Releasers : rel[r].pc # "idle" /\ rel[r].key = k

\* prefetch() drops what is cached already.
Pending(kind, ts) == kind = "prefetch" => \A i \in DOMAIN ts : ts[i] \notin DOMAIN cache

\* plan() refuses more tokens than the buffers hold; one plan at a time.
MayPlan(ts) == Len(ts) <= MaxTopk /\ \A q \in Readers : rd[q].kind # "plan"

Call(r, kind, ts) ==
  /\ rd[r].pc = "idle"
  /\ kind = "plan" => MayPlan(ts)
  /\ \A i \in DOMAIN ts : ~Releasing(ts[i])
  /\ Pending(kind, ts)
  /\ rd' = [rd EXCEPT ![r] = [pc |-> "gather", kind |-> kind, ts |-> ts,
                              entries |-> << >>, out |-> << >>]]
  /\ UNCHANGED <<mgr, table, cache, written, writer, flusher, rel, buffers>>

\* SlotTable.gather, entry by entry, without a lock.
gather(r) ==
  /\ rd[r].pc = "gather"
  /\ LET es == Append(rd[r].entries, table[rd[r].ts[Len(rd[r].entries) + 1]])
     IN rd' = [rd EXCEPT ![r].entries = es,
                         ![r].pc = IF Len(es) = Len(rd[r].ts) THEN "scan" ELSE "gather"]
  /\ UNCHANGED <<mgr, table, cache, written, writer, flusher, rel, buffers>>

\* The entry the reader handles next.
At(r) == Len(rd[r].out) + 1

Key(r) == rd[r].ts[At(r)]

Off(r) == entry_offset(rd[r].entries[At(r)])

\* An entry is settled: from host memory, or to be read from its device.
Settle(r, host, data) ==
  LET more == At(r) < Len(rd[r].ts)
  IN [rd EXCEPT ![r].out = Append(@, [host |-> host, data |-> data]),
                ![r].pc = IF more THEN "scan" ELSE "settled"]

\* The entry is not VALID: plan() and fetch() raise.
NotOffloaded(r) ==
  /\ rd[r].pc = "scan" /\ ~Valid(rd[r].entries[At(r)])
  /\ rd' = [rd EXCEPT ![r] = IdleReader]
  /\ UNCHANGED <<mgr, table, cache, written, writer, flusher, rel, buffers>>

\* An entry of the plan, in the one descriptor buffer of the store; a unit from
\* host memory goes to its place in the one staging buffer.
Describe(r, host, data) ==
  /\ desc' = [desc EXCEPT ![At(r)] = [ssd |-> locate(Key(r)), host |-> host, off |-> Off(r)]]
  /\ staging' = IF host THEN [staging EXCEPT ![At(r)] = data] ELSE staging
  /\ rd' = Settle(r, host, data)

\* plan(): vm.is_buffered
PlanCheck(r) ==
  /\ rd[r].pc = "scan" /\ rd[r].kind = "plan"
  /\ Valid(rd[r].entries[At(r)])
  /\ IF is_buffered(mgr[locate(Key(r))], Off(r))
     THEN rd' = [rd EXCEPT ![r].pc = "read"] /\ UNCHANGED buffers
     ELSE Describe(r, FALSE, Zero)
  /\ UNCHANGED <<mgr, table, cache, written, writer, flusher, rel>>

\* Mutant: plan() trusts is_buffered and copies whatever the buffer holds.
PlanRead_trusting(r) ==
  /\ rd[r].pc = "read"
  /\ Describe(r, TRUE, read_buffer(mgr[locate(Key(r))], Off(r)))
  /\ UNCHANGED <<mgr, table, cache, written, writer, flusher, rel>>

\* plan(): vm.read_buffered, which finds nothing when a flush came in between
PlanRead(r) ==
  /\ rd[r].pc = "read"
  /\ LET m == mgr[locate(Key(r))]
     IN IF is_buffered(m, Off(r))
        THEN Describe(r, TRUE, read_buffer(m, Off(r)))
        ELSE Describe(r, FALSE, Zero)
  /\ UNCHANGED <<mgr, table, cache, written, writer, flusher, rel>>

\* The GPU has loaded what the descriptors name.
GpuDone(r) ==
  /\ rd[r].pc = "settled" /\ rd[r].kind = "plan"
  /\ rd' = [rd EXCEPT ![r] = IdleReader]
  /\ UNCHANGED <<mgr, table, cache, written, writer, flusher, rel, buffers>>

\* fetch(): a cached unit, or the first half of vm.read_batch
FetchScan(r) ==
  /\ rd[r].pc = "scan" /\ rd[r].kind # "plan"
  /\ Valid(rd[r].entries[At(r)])
  /\ LET k == Key(r)
         m == mgr[locate(k)]
     IN rd' = IF k \in DOMAIN cache THEN Settle(r, TRUE, cache[k])
              ELSE IF is_buffered(m, Off(r))
              THEN Settle(r, TRUE, read_buffer(m, Off(r)))
              ELSE Settle(r, FALSE, Zero)
  /\ UNCHANGED <<mgr, table, cache, written, writer, flusher, rel, buffers>>

\* The merged reads of vm.read_batch complete in any order.
FetchDisk(r, i) ==
  /\ rd[r].pc = "settled" /\ rd[r].kind # "plan" /\ ~rd[r].out[i].host
  /\ LET data == read_disk(mgr[locate(rd[r].ts[i])], entry_offset(rd[r].entries[i]))
     IN rd' = [rd EXCEPT ![r].out[i] = [host |-> TRUE, data |-> data]]
  /\ UNCHANGED <<mgr, table, cache, written, writer, flusher, rel, buffers>>

Loaded(r) ==
  /\ rd[r].pc = "settled" /\ rd[r].kind # "plan"
  /\ \A i \in DOMAIN rd[r].out : rd[r].out[i].host

\* fetch() returns.
FetchDone(r) ==
  /\ Loaded(r) /\ rd[r].kind = "fetch"
  /\ rd' = [rd EXCEPT ![r] = IdleReader]
  /\ UNCHANGED <<mgr, table, cache, written, writer, flusher, rel, buffers>>

\* prefetch() stores the units in the cache one by one and returns.
PrefetchStore(r) ==
  /\ Loaded(r) /\ rd[r].kind = "prefetch"
  /\ cache' = [k \in DOMAIN cache \cup {Head(rd[r].ts)} |->
                 IF k = Head(rd[r].ts) THEN Head(rd[r].out).data ELSE cache[k]]
  /\ rd' = IF Len(rd[r].ts) = 1 THEN [rd EXCEPT ![r] = IdleReader]
           ELSE [rd EXCEPT ![r].ts = Tail(@), ![r].entries = Tail(@), ![r].out = Tail(@)]
  /\ UNCHANGED <<mgr, table, written, writer, flusher, rel, buffers>>
-------------------------------------------------------------------------------
(* release(), token by token, without a lock of the store.                 *)

InUse(k) == \E r \in Readers : rd[r].pc # "idle" /\ \E i \in DOMAIN rd[r].ts : rd[r].ts[i] = k

\* self._table.get and the VALID test
ReleaseGet(r, k) ==
  /\ rel[r].pc = "idle" /\ ~InUse(k) /\ ~Releasing(k)
  /\ Valid(table[k])
  /\ rel' = [rel EXCEPT ![r] = [pc |-> "invalidate", key |-> k, entry |-> table[k]]]
  /\ UNCHANGED <<mgr, table, cache, written, writer, flusher, rd, buffers>>

\* Mutant: the entry stays valid.
Invalidate_skipped(r) ==
  /\ rel[r].pc = "invalidate"
  /\ rel' = [rel EXCEPT ![r].pc = "pop"]
  /\ UNCHANGED <<mgr, table, cache, written, writer, flusher, rd, buffers>>

Invalidate(r) ==
  /\ rel[r].pc = "invalidate"
  /\ table' = [table EXCEPT ![rel[r].key] = 0]
  /\ rel' = [rel EXCEPT ![r].pc = "pop"]
  /\ UNCHANGED <<mgr, cache, written, writer, flusher, rd, buffers>>

PopCache(r) ==
  /\ rel[r].pc = "pop"
  /\ cache' = [k \in DOMAIN cache \ {rel[r].key} |-> cache[k]]
  /\ rel' = [rel EXCEPT ![r].pc = "release"]
  /\ UNCHANGED <<mgr, table, written, writer, flusher, rd, buffers>>

\* Mutant: the unit is released on the device of the next key.
VmRelease_wrong_device(r) ==
  /\ rel[r].pc = "release"
  /\ LET d == (locate(rel[r].key) + 1) % NumDevices
         off == entry_offset(rel[r].entry)
     IN mgr' = [mgr EXCEPT ![d] = IF ReleaseRefused(@, off) THEN @ ELSE release(@, off)]
  /\ rel' = [rel EXCEPT ![r] = IdleReleaser]
  /\ UNCHANGED <<table, cache, written, writer, flusher, rd, buffers>>

\* vm.release, which may raise
VmRelease(r) ==
  /\ rel[r].pc = "release"
  /\ LET d == locate(rel[r].key)
         off == entry_offset(rel[r].entry)
     IN mgr' = [mgr EXCEPT ![d] = IF ReleaseRefused(@, off) THEN @ ELSE release(@, off)]
  /\ rel' = [rel EXCEPT ![r] = IdleReleaser]
  /\ UNCHANGED <<table, cache, written, writer, flusher, rd, buffers>>

Next ==
  \/ \E k \in Keys : Write(k) \/ WriteFull(k)
  \/ SetEntry
  \/ FlushBegin
  \/ FlushDevice
  \/ \E d \in Devices : WriteError(d)
  \/ \E r \in Readers, kind \in {"plan", "fetch", "prefetch"}, ts \in Batches : Call(r, kind, ts)
  \/ \E r \in Readers :
       \/ gather(r) \/ NotOffloaded(r)
       \/ PlanCheck(r) \/ PlanRead(r) \/ GpuDone(r)
       \/ FetchScan(r) \/ FetchDone(r) \/ PrefetchStore(r)
       \/ \E i \in DOMAIN rd[r].out : FetchDisk(r, i)
  \/ \E r \in Releasers, k \in Keys : ReleaseGet(r, k)
  \/ \E r \in Releasers : Invalidate(r) \/ PopCache(r) \/ VmRelease(r)

Spec == Init /\ [][Next]_vars
-------------------------------------------------------------------------------
\* What a read of a device offset finds, in the buffer or on the device.
Contents(d, off) ==
  IF is_buffered(mgr[d], off) THEN read_buffer(mgr[d], off) ELSE read_disk(mgr[d], off)

\* The units of a device that are accounted for: published by an entry, on
\* their way into the table, or on their way out of it.
KeysOn == [d \in Devices |-> {k \in Keys : locate(k) = d}]

UnitsOf(d) ==
  {[off |-> entry_offset(table[k]), data |-> k] : k \in {k \in KeysOn[d] : Valid(table[k])}}
  \cup {[off |-> w.off, data |-> w.key] : w \in {w \in {writer} : w.key \in KeysOn[d]}}
  \cup {[off |-> entry_offset(x.entry), data |-> x.key] :
          x \in {x \in {rel[r] : r \in Releasers} : x.key \in KeysOn[d]}}

\* A valid entry of the slot table leads to the unit of its key, however the
\* writer, flushes and releases of other keys interleave: offload() publishes
\* the entry after the unit is in the buffer, and no segment is reused early.
EntriesReadable ==
  \A k \in Keys : Valid(table[k]) => Contents(locate(k), entry_offset(table[k])) = k

\* plan(): until the GPU is done, every descriptor of the last plan() leads to the
\* unit of its token: the staging copy holds it, or it is on the device.
PlanLoads ==
  \A r \in Readers : rd[r].pc = "settled" /\ rd[r].kind = "plan" =>
    \A i \in DOMAIN rd[r].ts :
      rd[r].ts[i] = IF desc[i].host THEN staging[i] ELSE read_disk(mgr[desc[i].ssd], desc[i].off)

\* fetch() and prefetch() deliver the unit of every token they were asked for:
\* from the cache, the segment buffer or the device.
FetchExact ==
  \A r \in Readers : Loaded(r) => \A i \in DOMAIN rd[r].ts : rd[r].out[i].data = rd[r].ts[i]

\* Readers get their own units: the descriptors of plan() and the results of
\* fetch() and prefetch(), although the source was chosen before a flush, an
\* append or a release of other keys moved the data.
ReadersServed == PlanLoads /\ FetchExact
===============================================================================
