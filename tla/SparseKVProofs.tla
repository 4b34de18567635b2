---------------------------- MODULE SparseKVProofs ----------------------------
(***************************************************************************)
(* The readers of SparseKV and its refinement of the segment manager, for  *)
(* every number of devices, every segment geometry, any set of keys and    *)
(* any number of readers and releasers.  What a reader has gathered stays  *)
(* true because its keys are not released while it reads.                  *)
(***************************************************************************)
EXTENDS SparseKVStoreProofs

ReaderState ==
  [pc : {"idle", "gather", "scan", "read", "settled"},
   kind : {"none", "plan", "fetch", "prefetch"},
   ts : Seq(Keys), entries : Seq(Nat),
   out : Seq([host : BOOLEAN, data : Keys \cup {Zero}])]

\* How far a reader has got: it gathers an entry for every token, then settles
\* one after the other.
Progress(R) ==
  /\ R.pc = "idle" => R = IdleReader
  /\ R.pc = "gather" => Len(R.entries) < Len(R.ts) /\ R.out = << >>
  /\ R.pc \in {"scan", "read"} => Len(R.entries) = Len(R.ts) /\ Len(R.out) < Len(R.ts)
  /\ R.pc = "settled" => Len(R.entries) = Len(R.ts) /\ Len(R.out) = Len(R.ts) /\ Len(R.ts) > 0
  /\ R.pc = "read" => Valid(R.entries[Len(R.out) + 1])

\* The valid entries a reader has gathered are still those of the table.
EntriesCurrent(R) ==
  \A i \in 1 .. Len(R.entries) : Valid(R.entries[i]) => table[R.ts[i]] = R.entries[i]

\* What a reader has settled: the unit itself, or a unit that is on its device.
OutSound(R) ==
  \A i \in 1 .. Len(R.out) :
    /\ Valid(R.entries[i])
    /\ IF R.out[i].host THEN R.out[i].data = R.ts[i] ELSE Flushed(R.ts[i], R.entries[i])

Apart ==
  \A r \in Readers : \A i \in 1 .. Len(rd[r].ts) : \A q \in Releasers : rel[q].key # rd[r].ts[i]

CacheSound == DOMAIN cache \subseteq Keys /\ \A k \in DOMAIN cache : cache[k] = k

ReadInv ==
  /\ rd \in [Readers -> ReaderState]
  /\ \A r \in Readers : Progress(rd[r]) /\ EntriesCurrent(rd[r]) /\ OutSound(rd[r])
  /\ Apart /\ CacheSound


-------------------------------------------------------------------------------
LEMMA ReaderShape ==
  ASSUME ReadInv, NEW r \in Readers
  PROVE  /\ rd[r] \in ReaderState
         /\ Len(rd[r].entries) \in Nat /\ Len(rd[r].out) \in Nat /\ Len(rd[r].ts) \in Nat
         /\ Len(rd[r].entries) <= Len(rd[r].ts) /\ Len(rd[r].out) <= Len(rd[r].entries)
         /\ \A i \in 1 .. Len(rd[r].ts) : rd[r].ts[i] \in Keys
<1>1. rd[r] \in ReaderState /\ Progress(rd[r])
  BY DEF ReadInv
<1>2. /\ rd[r].ts \in Seq(Keys) /\ rd[r].entries \in Seq(Nat)
      /\ rd[r].out \in Seq([host : BOOLEAN, data : Keys \cup {Zero}])
      /\ rd[r].pc \in {"idle", "gather", "scan", "read", "settled"}
  BY <1>1 DEF ReaderState
<1>3. Len(rd[r].entries) \in Nat /\ Len(rd[r].out) \in Nat /\ Len(rd[r].ts) \in Nat
  BY <1>2
<1>4. CASE rd[r].pc = "idle"
  <2>1. rd[r].ts = << >> /\ rd[r].entries = << >> /\ rd[r].out = << >>
    BY <1>1, <1>4 DEF Progress, IdleReader
  <2>. QED
    BY <1>1, <1>2, <1>3, <2>1
<1>5. CASE rd[r].pc # "idle"
  BY <1>1, <1>2, <1>3, <1>5 DEF Progress
<1>. QED
  BY <1>4, <1>5

\* A step of the store leaves the readers what they have.
LEMMA ReadersKept ==
  ASSUME StoreInv, ReadInv, StoreStep, UNCHANGED rd, Apart', CacheSound'
  PROVE  ReadInv'
<1> SUFFICES ASSUME NEW r \in Readers PROVE EntriesCurrent(rd[r])' /\ OutSound(rd[r])'
  BY DEF ReadInv, Progress
<1>1. /\ rd[r] \in ReaderState /\ rd'[r] = rd[r]
      /\ Len(rd[r].entries) \in Nat /\ Len(rd[r].out) \in Nat /\ Len(rd[r].ts) \in Nat
      /\ Len(rd[r].entries) <= Len(rd[r].ts)
      /\ Len(rd[r].out) <= Len(rd[r].entries)
  BY ReaderShape
<1>2. \A i \in 1 .. Len(rd[r].ts) : rd[r].ts[i] \in Keys
  BY ReaderShape
<1>3. ASSUME NEW i \in 1 .. Len(rd[r].entries), Valid(rd[r].entries[i])
      PROVE  /\ table'[rd[r].ts[i]] = rd[r].entries[i]
             /\ Flushed(rd[r].ts[i], rd[r].entries[i])
                  => segment_of(entry_offset(rd[r].entries[i])) # mgr'[locate(rd[r].ts[i])].buf_seg
  <2> DEFINE k == rd[r].ts[i]
             u == [off |-> entry_offset(table[k]), data |-> k]
  <2>1. k \in Keys /\ table[k] = rd[r].entries[i] /\ \A q \in Releasers : rel[q].key # k
    BY <1>1, <1>2, <1>3 DEF ReadInv, EntriesCurrent, Apart
  <2>2. u \in UnitsOf(locate(k)) /\ locate(k) \in Devices /\ u.off = entry_offset(table[k])
    BY <1>3, <2>1, EntryServed, LocateDevice
  <2>3. Good(mgr[locate(k)], UnitsOf(locate(k))) /\ SegmentStep(locate(k))
    BY <2>2 DEF StoreInv, UnitsGood, StoreStep
  <2>4. segment_of(u.off) # mgr[locate(k)].buf_seg => segment_of(u.off) # mgr'[locate(k)].buf_seg
    BY <2>2, <2>3, SegmentStepGood
  <2>. QED
    BY <1>3, <2>1, <2>2, <2>4 DEF StoreStep, Flushed
<1>4. EntriesCurrent(rd[r])'
  BY <1>1, <1>3 DEF EntriesCurrent
<1>5. OutSound(rd[r])'
  <2> SUFFICES ASSUME NEW i \in 1 .. Len(rd[r].out)
               PROVE  /\ Valid(rd[r].entries[i])
                      /\ IF rd[r].out[i].host THEN rd[r].out[i].data = rd[r].ts[i]
                         ELSE Flushed(rd[r].ts[i], rd[r].entries[i])'
    BY ZenonT(20), <1>1 DEF OutSound, Flushed
  <2>1. i \in 1 .. Len(rd[r].entries)
    BY <1>1
  <2>2. /\ Valid(rd[r].entries[i])
        /\ IF rd[r].out[i].host THEN rd[r].out[i].data = rd[r].ts[i]
           ELSE Flushed(rd[r].ts[i], rd[r].entries[i])
    BY DEF ReadInv, OutSound
  <2>3. CASE rd[r].out[i].host
    BY <2>2, <2>3
  <2>4. CASE ~rd[r].out[i].host
    BY <1>1, <1>3, <2>1, <2>2, <2>4 DEF Flushed
  <2>. QED
    BY <2>3, <2>4
<1>. QED
  BY <1>4, <1>5

\* A reader's own step, given what it leaves of its call.
LEMMA ReaderUpdate ==
  ASSUME ReadInv, NEW r \in Readers, NEW s \in ReaderState,
         rd' = [rd EXCEPT ![r] = s], UNCHANGED <<mgr, table, rel>>, CacheSound',
         Progress(s), EntriesCurrent(s), OutSound(s),
         \A i \in 1 .. Len(s.ts) : \A q \in Releasers : rel[q].key # s.ts[i]
  PROVE  ReadInv'
<1>1. /\ rd' \in [Readers -> ReaderState]
      /\ \A x \in Readers : rd'[x] = IF x = r THEN s ELSE rd[x]
  BY DEF ReadInv
<1>2. ASSUME NEW x \in Readers
      PROVE  Progress(rd'[x]) /\ EntriesCurrent(rd'[x]) /\ OutSound(rd'[x])
  BY <1>1 DEF ReadInv
<1>3. ASSUME NEW x \in Readers
      PROVE  Progress(rd[x])' /\ EntriesCurrent(rd[x])' /\ OutSound(rd[x])'
  BY <1>2 DEF Progress, EntriesCurrent, OutSound, Flushed
<1>4. Apart'
  BY <1>1 DEF ReadInv, Apart
<1>. QED
  BY <1>1, <1>3, <1>4 DEF ReadInv

LEMMA ReaderIdle ==
  ASSUME ReadInv, NEW r \in Readers, rd' = [rd EXCEPT ![r] = IdleReader],
         UNCHANGED <<mgr, table, rel>>, CacheSound'
  PROVE  ReadInv'
<1>1. /\ IdleReader \in ReaderState /\ IdleReader.pc = "idle" /\ Len(IdleReader.ts) = 0
      /\ Len(IdleReader.entries) = 0 /\ Len(IdleReader.out) = 0
  BY DEF IdleReader, ReaderState
<1>2. Progress(IdleReader) /\ EntriesCurrent(IdleReader) /\ OutSound(IdleReader)
  BY <1>1 DEF Progress, EntriesCurrent, OutSound
<1>3. \A i \in 1 .. Len(IdleReader.ts) : \A q \in Releasers : rel[q].key # IdleReader.ts[i]
  BY <1>1
<1>. QED
  BY ZenonT(20), <1>1, <1>2, <1>3, ReaderUpdate

LEMMA SameCache ==
  ASSUME ReadInv, UNCHANGED cache
  PROVE  CacheSound'
  BY DEF ReadInv, CacheSound

LEMMA CallStep ==
  ASSUME StoreInv, ReadInv, NEW r \in Readers, NEW kind \in {"plan", "fetch", "prefetch"},
         NEW ts \in Batches, Call(r, kind, ts)
  PROVE  ReadInv'
<1> DEFINE s == [pc |-> "gather", kind |-> kind, ts |-> ts, entries |-> << >>, out |-> << >>]
<1>1. ts \in Seq(Keys) /\ ts # << >>
  BY KVConstants
<1>2. /\ s \in ReaderState /\ s.pc = "gather" /\ s.ts = ts
      /\ s.entries = << >> /\ s.out = << >>
  <2>1. << >> \in Seq(Nat) /\ << >> \in Seq([host : BOOLEAN, data : Keys \cup {Zero}])
    OBVIOUS
  <2>. QED
    BY <1>1, <2>1 DEF ReaderState
<1>3. /\ \A i \in DOMAIN ts : ~Releasing(ts[i])
      /\ rd' = [rd EXCEPT ![r] = s] /\ UNCHANGED <<mgr, table, rel, cache>>
  BY DEF Call
<1>4. \A i \in 1 .. Len(ts) : \A q \in Releasers : rel[q].key # ts[i]
  <2>1. \A i \in 1 .. Len(ts) : ts[i] \in Keys /\ ~Releasing(ts[i])
    BY <1>1, <1>3
  <2>. QED
    BY <2>1, ZeroIsNoKey DEF StoreInv, BookInv, ReleaserSound, Releasing
<1>. HIDE DEF s
<1>5. Progress(s) /\ EntriesCurrent(s) /\ OutSound(s)
  BY <1>1, <1>2 DEF Progress, EntriesCurrent, OutSound
<1>. QED
  BY ZenonT(20), <1>2, <1>3, <1>4, <1>5, SameCache, ReaderUpdate

\* gather() takes the entry the table has now.
LEMMA GatherStep ==
  ASSUME StoreInv, ReadInv, NEW r \in Readers, gather(r)
  PROVE  ReadInv'
<1> DEFINE n == Len(rd[r].entries) + 1
           e == table[rd[r].ts[n]]
           es == Append(rd[r].entries, e)
           p == IF Len(es) = Len(rd[r].ts) THEN "scan" ELSE "gather"
           s == [rd[r] EXCEPT !.entries = es, !.pc = p]
<1>1. /\ rd[r].pc = "gather" /\ UNCHANGED <<mgr, table, rel, cache>>
      /\ rd' = [rd EXCEPT ![r].entries = es, ![r].pc = p]
  BY DEF gather
<1>2. /\ rd[r] \in ReaderState /\ Progress(rd[r]) /\ EntriesCurrent(rd[r])
      /\ rd \in [Readers -> ReaderState]
      /\ \A i \in 1 .. Len(rd[r].ts) : rd[r].ts[i] \in Keys
  BY ReaderShape DEF ReadInv
<1>3. /\ Len(rd[r].entries) < Len(rd[r].ts) /\ rd[r].out = << >>
      /\ Len(rd[r].ts) \in Nat /\ n \in 1 .. Len(rd[r].ts)
      /\ rd[r].entries \in Seq(Nat)
  BY <1>1, <1>2 DEF Progress, ReaderState
<1>4. e \in Nat
  BY <1>2, <1>3 DEF StoreInv, BookInv, BookTypes
<1>5. /\ es \in Seq(Nat) /\ Len(es) = n
      /\ \A i \in 1 .. n : es[i] = IF i = n THEN e ELSE rd[r].entries[i]
  BY <1>3, <1>4
<1>. HIDE DEF es
<1>6. p \in {"scan", "gather"}
  OBVIOUS
<1>7. /\ s \in ReaderState /\ s.entries = es /\ s.pc = p /\ s.ts = rd[r].ts /\ s.out = << >>
  BY ZenonT(20), <1>2, <1>3, <1>5 DEF ReaderState
<1>8. rd' = [rd EXCEPT ![r] = s]
  BY ZenonT(20), <1>1, <1>2 DEF ReaderState
<1>. HIDE DEF s
<1>9. Progress(s)
  BY SMTT(20), <1>3, <1>5, <1>7 DEF Progress
<1>10. EntriesCurrent(s)
  <2> SUFFICES ASSUME NEW i \in 1 .. n, Valid(es[i]) PROVE table[rd[r].ts[i]] = es[i]
    BY <1>5, <1>7 DEF EntriesCurrent
  <2>1. CASE i = n
    BY <1>5, <2>1
  <2>2. CASE i # n
    <3>1. i \in 1 .. Len(rd[r].entries)
      BY <1>3, <2>2
    <3>. QED
      BY <1>2, <1>5, <2>2, <3>1 DEF EntriesCurrent
  <2>. QED
    BY <2>1, <2>2
<1>11. OutSound(s)
  BY <1>7 DEF OutSound
<1>12. \A i \in 1 .. Len(s.ts) : \A q \in Releasers : rel[q].key # s.ts[i]
  BY <1>7 DEF ReadInv, Apart
<1>. QED
  BY ZenonT(20), <1>1, <1>7, <1>8, <1>9, <1>10, <1>11, <1>12, SameCache, ReaderUpdate

\* An entry is settled, from host memory or for a read of its device.
LEMMA SettleStep ==
  ASSUME StoreInv, ReadInv, NEW r \in Readers, NEW host \in BOOLEAN,
         NEW data \in Keys \cup {Zero},
         rd[r].pc \in {"scan", "read"}, Valid(rd[r].entries[At(r)]),
         IF host THEN data = Key(r) ELSE Flushed(Key(r), rd[r].entries[At(r)]),
         rd' = Settle(r, host, data), UNCHANGED <<mgr, table, rel, cache>>
  PROVE  ReadInv'
<1> DEFINE n == Len(rd[r].out) + 1
           o == [host |-> host, data |-> data]
           os == Append(rd[r].out, o)
           p == IF n < Len(rd[r].ts) THEN "scan" ELSE "settled"
           s == [rd[r] EXCEPT !.out = os, !.pc = p]
<1>1. rd' = [rd EXCEPT ![r].out = os, ![r].pc = p]
  BY DEF Settle, At
<1>2. /\ rd[r] \in ReaderState /\ Progress(rd[r]) /\ EntriesCurrent(rd[r]) /\ OutSound(rd[r])
      /\ rd \in [Readers -> ReaderState]
  BY DEF ReadInv
<1>3. /\ Len(rd[r].entries) = Len(rd[r].ts) /\ Len(rd[r].out) < Len(rd[r].ts)
      /\ Len(rd[r].ts) \in Nat /\ n \in 1 .. Len(rd[r].ts)
      /\ rd[r].out \in Seq([host : BOOLEAN, data : Keys \cup {Zero}])
  BY <1>2 DEF Progress, ReaderState
<1>4. o \in [host : BOOLEAN, data : Keys \cup {Zero}] /\ (o.host <=> host) /\ o.data = data
  OBVIOUS
<1>. HIDE DEF o
<1>5. /\ os \in Seq([host : BOOLEAN, data : Keys \cup {Zero}]) /\ Len(os) = n
      /\ \A i \in 1 .. n : os[i] = IF i = n THEN o ELSE rd[r].out[i]
  BY <1>3, <1>4
<1>. HIDE DEF os
<1>6. /\ s \in ReaderState /\ s.out = os /\ s.pc = p /\ s.ts = rd[r].ts
      /\ s.entries = rd[r].entries
  BY ZenonT(20), <1>2, <1>5 DEF ReaderState
<1>7. rd' = [rd EXCEPT ![r] = s]
  BY ZenonT(20), <1>1, <1>2 DEF ReaderState
<1>. HIDE DEF s
<1>8. Progress(s)
  BY SMTT(20), <1>3, <1>5, <1>6 DEF Progress
<1>9. EntriesCurrent(s)
  BY <1>2, <1>6 DEF EntriesCurrent
<1>10. OutSound(s)
  <2> SUFFICES ASSUME NEW i \in 1 .. n
               PROVE  /\ Valid(rd[r].entries[i])
                      /\ IF os[i].host THEN os[i].data = rd[r].ts[i]
                         ELSE Flushed(rd[r].ts[i], rd[r].entries[i])
    BY SMTT(20), <1>5, <1>6 DEF OutSound
  <2>1. CASE i = n
    BY SMTT(20), <1>4, <1>5, <2>1 DEF At, Key
  <2>2. CASE i # n
    <3>1. i \in 1 .. Len(rd[r].out) /\ os[i] = rd[r].out[i]
      BY <1>3, <1>5, <2>2
    <3>. QED
      BY <1>2, <3>1 DEF OutSound
  <2>. QED
    BY <2>1, <2>2
<1>11. \A i \in 1 .. Len(s.ts) : \A q \in Releasers : rel[q].key # s.ts[i]
  BY <1>6 DEF ReadInv, Apart
<1>. QED
  BY ZenonT(20), <1>6, <1>7, <1>8, <1>9, <1>10, <1>11, SameCache, ReaderUpdate

\* The entry a reader is at, when it is valid, is the table's.
LEMMA EntryAt ==
  ASSUME StoreInv, ReadInv, NEW r \in Readers, rd[r].pc \in {"scan", "read"},
         Valid(rd[r].entries[At(r)])
  PROVE  /\ Key(r) \in Keys /\ table[Key(r)] = rd[r].entries[At(r)]
         /\ IF is_buffered(mgr[locate(Key(r))], Off(r))
            THEN read_buffer(mgr[locate(Key(r))], Off(r)) = Key(r)
            ELSE Flushed(Key(r), rd[r].entries[At(r)])
<1>1. /\ Len(rd[r].entries) = Len(rd[r].ts) /\ At(r) \in 1 .. Len(rd[r].ts)
      /\ Progress(rd[r]) /\ EntriesCurrent(rd[r])
  BY ReaderShape DEF ReadInv, Progress, At
<1>2. Key(r) \in Keys /\ table[Key(r)] = rd[r].entries[At(r)]
  BY <1>1, ReaderShape DEF EntriesCurrent, Key
<1>. QED
  BY ZenonT(20), <1>2, EntryServed DEF Off

LEMMA PlanStep ==
  ASSUME StoreInv, ReadInv, NEW r \in Readers, PlanCheck(r) \/ PlanRead(r)
  PROVE  ReadInv'
<1>1. rd[r] \in ReaderState /\ Progress(rd[r]) /\ rd \in [Readers -> ReaderState]
  BY DEF ReadInv
<1>2. /\ rd[r].pc \in {"scan", "read"} /\ Valid(rd[r].entries[At(r)])
      /\ UNCHANGED <<mgr, table, rel, cache>>
  BY ZenonT(20), <1>1 DEF PlanCheck, PlanRead, Progress, At
<1>3. /\ Key(r) \in Keys /\ Zero \in Keys \cup {Zero}
      /\ IF is_buffered(mgr[locate(Key(r))], Off(r))
         THEN read_buffer(mgr[locate(Key(r))], Off(r)) = Key(r)
         ELSE Flushed(Key(r), rd[r].entries[At(r)])
  BY <1>2, EntryAt
<1>4. CASE rd' = Settle(r, FALSE, Zero) /\ ~is_buffered(mgr[locate(Key(r))], Off(r))
  BY ZenonT(20), <1>2, <1>3, <1>4, SettleStep
<1>5. CASE /\ rd' = Settle(r, TRUE, read_buffer(mgr[locate(Key(r))], Off(r)))
           /\ is_buffered(mgr[locate(Key(r))], Off(r))
  BY ZenonT(20), <1>2, <1>3, <1>5, SettleStep
<1>6. CASE rd' = [rd EXCEPT ![r].pc = "read"] /\ rd[r].pc = "scan"
  <2> DEFINE s == [rd[r] EXCEPT !.pc = "read"]
  <2>1. /\ s \in ReaderState /\ s.pc = "read" /\ s.ts = rd[r].ts
        /\ s.entries = rd[r].entries /\ s.out = rd[r].out
    BY ZenonT(20), <1>1 DEF ReaderState
  <2>2. rd' = [rd EXCEPT ![r] = s]
    BY <1>1, <1>6
  <2>. HIDE DEF s
  <2>3. Progress(s)
    BY <1>1, <1>2, <1>6, <2>1 DEF Progress, At
  <2>4. EntriesCurrent(s) /\ OutSound(s)
    BY <2>1 DEF ReadInv, EntriesCurrent, OutSound
  <2>5. \A i \in 1 .. Len(s.ts) : \A q \in Releasers : rel[q].key # s.ts[i]
    BY <2>1 DEF ReadInv, Apart
  <2>. QED
    BY ZenonT(20), <1>2, <2>1, <2>2, <2>3, <2>4, <2>5, SameCache, ReaderUpdate
<1>. QED
  BY ZenonT(20), <1>4, <1>5, <1>6 DEF PlanCheck, PlanRead, Describe

LEMMA FetchScanStep ==
  ASSUME StoreInv, ReadInv, NEW r \in Readers, FetchScan(r)
  PROVE  ReadInv'
<1>1. /\ rd[r].pc \in {"scan", "read"} /\ Valid(rd[r].entries[At(r)])
      /\ UNCHANGED <<mgr, table, rel, cache>>
  BY DEF FetchScan
<1>2. /\ Key(r) \in Keys /\ Zero \in Keys \cup {Zero}
      /\ IF is_buffered(mgr[locate(Key(r))], Off(r))
         THEN read_buffer(mgr[locate(Key(r))], Off(r)) = Key(r)
         ELSE Flushed(Key(r), rd[r].entries[At(r)])
  BY <1>1, EntryAt
<1>3. CASE rd' = Settle(r, TRUE, cache[Key(r)]) /\ Key(r) \in DOMAIN cache
  <2>1. cache[Key(r)] = Key(r)
    BY <1>3 DEF ReadInv, CacheSound
  <2>. QED
    BY ZenonT(20), <1>1, <1>2, <1>3, <2>1, SettleStep
<1>4. CASE rd' = Settle(r, FALSE, Zero) /\ ~is_buffered(mgr[locate(Key(r))], Off(r))
  BY ZenonT(20), <1>1, <1>2, <1>4, SettleStep
<1>5. CASE /\ rd' = Settle(r, TRUE, read_buffer(mgr[locate(Key(r))], Off(r)))
           /\ is_buffered(mgr[locate(Key(r))], Off(r))
  BY ZenonT(20), <1>1, <1>2, <1>5, SettleStep
<1>. QED
  BY ZenonT(20), <1>3, <1>4, <1>5 DEF FetchScan

\* What a settled reader has to read from a device is there.
LEMMA OnDevice ==
  ASSUME StoreInv, ReadInv, NEW r \in Readers, NEW i \in 1 .. Len(rd[r].out),
         ~rd[r].out[i].host
  PROVE  read_disk(mgr[locate(rd[r].ts[i])], entry_offset(rd[r].entries[i])) = rd[r].ts[i]
<1>1. i \in 1 .. Len(rd[r].entries) /\ i \in 1 .. Len(rd[r].ts) /\ rd[r].ts[i] \in Keys
  BY ReaderShape
<1>2. Valid(rd[r].entries[i]) /\ Flushed(rd[r].ts[i], rd[r].entries[i])
  BY DEF ReadInv, OutSound
<1>3. table[rd[r].ts[i]] = rd[r].entries[i]
  BY <1>1, <1>2 DEF ReadInv, EntriesCurrent
<1>. QED
  BY ZenonT(20), <1>1, <1>2, <1>3, EntryServed

LEMMA FetchDiskStep ==
  ASSUME StoreInv, ReadInv, NEW r \in Readers, NEW i \in DOMAIN rd[r].out, FetchDisk(r, i)
  PROVE  ReadInv'
<1> DEFINE x == read_disk(mgr[locate(rd[r].ts[i])], entry_offset(rd[r].entries[i]))
           o == [host |-> TRUE, data |-> x]
           os == [rd[r].out EXCEPT ![i] = o]
           s == [rd[r] EXCEPT !.out = os]
<1>1. /\ rd[r].pc = "settled" /\ ~rd[r].out[i].host
      /\ rd' = [rd EXCEPT ![r].out[i] = o] /\ UNCHANGED <<mgr, table, rel, cache>>
  BY DEF FetchDisk
<1>2. /\ rd[r] \in ReaderState /\ Progress(rd[r]) /\ EntriesCurrent(rd[r]) /\ OutSound(rd[r])
      /\ rd \in [Readers -> ReaderState]
  BY DEF ReadInv
<1>3. /\ rd[r].out \in Seq([host : BOOLEAN, data : Keys \cup {Zero}])
      /\ i \in 1 .. Len(rd[r].out) /\ Len(rd[r].out) \in Nat
  BY <1>2 DEF ReaderState
<1>4. x = rd[r].ts[i] /\ x \in Keys
  <2>1. x = rd[r].ts[i]
    BY <1>1, <1>3, OnDevice
  <2>2. i \in 1 .. Len(rd[r].ts)
    BY <1>3, ReaderShape
  <2>. QED
    BY <2>1, <2>2, ReaderShape
<1>. HIDE DEF x
<1>5. o \in [host : BOOLEAN, data : Keys \cup {Zero}] /\ o.host /\ o.data = x
  BY <1>4
<1>. HIDE DEF o
<1>6. /\ os \in Seq([host : BOOLEAN, data : Keys \cup {Zero}]) /\ Len(os) = Len(rd[r].out)
      /\ \A j \in 1 .. Len(rd[r].out) : os[j] = IF j = i THEN o ELSE rd[r].out[j]
  BY <1>3, <1>5
<1>7. rd' = [rd EXCEPT ![r] = s]
  BY <1>1, <1>2 DEF ReaderState
<1>. HIDE DEF os
<1>8. /\ s \in ReaderState /\ s.out = os /\ s.pc = rd[r].pc /\ s.ts = rd[r].ts
      /\ s.entries = rd[r].entries
  BY ZenonT(20), <1>2, <1>6 DEF ReaderState
<1>. HIDE DEF s
<1>9. Progress(s)
  BY <1>1, <1>2, <1>6, <1>8 DEF Progress
<1>10. EntriesCurrent(s)
  BY <1>2, <1>8 DEF EntriesCurrent
<1>11. OutSound(s)
  <2> SUFFICES ASSUME NEW j \in 1 .. Len(rd[r].out)
               PROVE  /\ Valid(rd[r].entries[j])
                      /\ IF os[j].host THEN os[j].data = rd[r].ts[j]
                         ELSE Flushed(rd[r].ts[j], rd[r].entries[j])
    BY <1>6, <1>8 DEF OutSound
  <2>1. Valid(rd[r].entries[j])
    BY <1>2 DEF OutSound
  <2>2. CASE j = i
    BY SMTT(20), <1>4, <1>5, <1>6, <2>1, <2>2
  <2>3. CASE j # i
    <3>1. os[j] = rd[r].out[j]
      BY <1>6, <2>3
    <3>. QED
      BY <1>2, <3>1 DEF OutSound
  <2>. QED
    BY <2>2, <2>3
<1>12. \A j \in 1 .. Len(s.ts) : \A q \in Releasers : rel[q].key # s.ts[j]
  BY <1>8 DEF ReadInv, Apart
<1>. QED
  BY ZenonT(20), <1>1, <1>7, <1>8, <1>9, <1>10, <1>11, <1>12, SameCache, ReaderUpdate

\* prefetch() caches the unit of its first token and goes on with the others.
LEMMA PrefetchStoreStep ==
  ASSUME StoreInv, ReadInv, NEW r \in Readers, PrefetchStore(r)
  PROVE  ReadInv'
<1> DEFINE R == rd[r]
           s == [R EXCEPT !.ts = Tail(R.ts), !.entries = Tail(R.entries), !.out = Tail(R.out)]
<1>1. /\ Loaded(r) /\ UNCHANGED <<mgr, table, rel>>
      /\ cache' = [k \in DOMAIN cache \cup {Head(R.ts)} |->
                     IF k = Head(R.ts) THEN Head(R.out).data ELSE cache[k]]
      /\ rd' = IF Len(R.ts) = 1 THEN [rd EXCEPT ![r] = IdleReader]
               ELSE [rd EXCEPT ![r].ts = Tail(R.ts), ![r].entries = Tail(R.entries),
                               ![r].out = Tail(R.out)]
  BY DEF PrefetchStore
<1>2. /\ R \in ReaderState /\ Progress(R) /\ EntriesCurrent(R) /\ OutSound(R)
      /\ rd \in [Readers -> ReaderState] /\ \A i \in 1 .. Len(R.ts) : R.ts[i] \in Keys
  BY ReaderShape DEF ReadInv
<1>3. /\ R.pc = "settled" /\ Len(R.entries) = Len(R.ts) /\ Len(R.out) = Len(R.ts)
      /\ Len(R.ts) \in Nat /\ Len(R.ts) > 0 /\ R.ts \in Seq(Keys) /\ R.entries \in Seq(Nat)
      /\ R.out \in Seq([host : BOOLEAN, data : Keys \cup {Zero}])
      /\ \A i \in DOMAIN R.out : R.out[i].host
  BY <1>1, <1>2 DEF Loaded, Progress, ReaderState
<1>4. Head(R.out).data = Head(R.ts) /\ Head(R.ts) \in Keys
  <2>1. R.out[1].host /\ R.out[1].data = R.ts[1] /\ R.ts[1] \in Keys
    BY <1>2, <1>3 DEF OutSound
  <2>. QED
    BY <1>3, <2>1
<1>5. CacheSound'
  BY <1>1, <1>4 DEF ReadInv, CacheSound
<1>6. CASE Len(R.ts) = 1
  BY ZenonT(20), <1>1, <1>5, <1>6, ReaderIdle
<1>7. CASE Len(R.ts) # 1
  <2> DEFINE n == Len(R.ts) - 1
  <2>0. n \in Nat /\ n > 0
    <3>1. Len(R.ts) \in Nat /\ Len(R.ts) > 0 /\ Len(R.ts) # 1
      BY <1>3, <1>7
    <3>2. \A a \in Nat : a > 0 /\ a # 1 => a - 1 \in Nat /\ a - 1 > 0
      OBVIOUS
    <3>. QED
      BY ZenonT(20), <3>1, <3>2
  <2>1. /\ Tail(R.ts) \in Seq(Keys) /\ Len(Tail(R.ts)) = n
        /\ \A i \in 1 .. n : Tail(R.ts)[i] = R.ts[i + 1]
    BY <1>3, <1>7
  <2>2. /\ Tail(R.entries) \in Seq(Nat) /\ Len(Tail(R.entries)) = n
        /\ \A i \in 1 .. n : Tail(R.entries)[i] = R.entries[i + 1]
    BY <1>3, <1>7
  <2>3. /\ Tail(R.out) \in Seq([host : BOOLEAN, data : Keys \cup {Zero}]) /\ Len(Tail(R.out)) = n
        /\ \A i \in 1 .. n : Tail(R.out)[i] = R.out[i + 1]
    BY <1>3, <1>7
  <2>4. /\ s \in ReaderState /\ s.pc = "settled" /\ s.ts = Tail(R.ts)
        /\ s.entries = Tail(R.entries) /\ s.out = Tail(R.out)
    BY ZenonT(20), <1>2, <1>3, <2>1, <2>2, <2>3 DEF ReaderState
  <2>5. rd' = [rd EXCEPT ![r] = s]
    BY ZenonT(20), <1>1, <1>2, <1>7 DEF ReaderState
  <2>. HIDE DEF s
  <2>6. Progress(s)
    BY ZenonT(20), <2>0, <2>1, <2>2, <2>3, <2>4 DEF Progress
  <2>7. \A i \in 1 .. n : i + 1 \in 1 .. Len(R.ts)
    BY <1>3
  <2>8. EntriesCurrent(s)
    <3> SUFFICES ASSUME NEW i \in 1 .. n, Valid(R.entries[i + 1])
                 PROVE  table[R.ts[i + 1]] = R.entries[i + 1]
      BY SMTT(20), <2>1, <2>2, <2>4 DEF EntriesCurrent
    <3>. QED
      BY <1>2, <1>3, <2>7 DEF EntriesCurrent
  <2>9. OutSound(s)
    <3> SUFFICES ASSUME NEW i \in 1 .. n
                 PROVE  /\ Valid(R.entries[i + 1])
                        /\ IF R.out[i + 1].host THEN R.out[i + 1].data = R.ts[i + 1]
                           ELSE Flushed(R.ts[i + 1], R.entries[i + 1])
      BY <2>1, <2>2, <2>3, <2>4 DEF OutSound
    <3>1. i + 1 \in 1 .. Len(R.out)
      BY <1>3, <2>7
    <3>. QED
      BY SMTT(20), <1>2, <3>1 DEF OutSound
  <2>10. \A i \in 1 .. Len(s.ts) : \A q \in Releasers : rel[q].key # s.ts[i]
    BY <2>1, <2>4, <2>7 DEF ReadInv, Apart
  <2>. QED
    BY ZenonT(20), <1>1, <1>5, <2>4, <2>5, <2>6, <2>8, <2>9, <2>10, ReaderUpdate
<1>. QED
  BY <1>6, <1>7

LEMMA ReaderSteps ==
  ASSUME StoreInv, ReadInv, NEW r \in Readers,
         \/ gather(r) \/ NotOffloaded(r)
         \/ PlanCheck(r) \/ PlanRead(r) \/ GpuDone(r)
         \/ FetchScan(r) \/ FetchDone(r) \/ PrefetchStore(r)
         \/ \E i \in DOMAIN rd[r].out : FetchDisk(r, i)
  PROVE  ReadInv'
<1>1. CASE NotOffloaded(r) \/ GpuDone(r) \/ FetchDone(r)
  <2>1. rd' = [rd EXCEPT ![r] = IdleReader] /\ UNCHANGED <<mgr, table, rel, cache>>
    BY <1>1 DEF NotOffloaded, GpuDone, FetchDone
  <2>. QED
    BY ZenonT(20), <2>1, SameCache, ReaderIdle
<1>. QED
  BY SMTT(20), <1>1, GatherStep, PlanStep, FetchScanStep, PrefetchStoreStep, FetchDiskStep

-------------------------------------------------------------------------------
LEMMA StoreMoveReaders ==
  ASSUME StoreInv, ReadInv, StoreMove
  PROVE  UNCHANGED rd /\ Apart' /\ CacheSound'
<1>1. UNCHANGED rd
  BY ZenonT(20) DEF StoreMove, Write, WriteFull, SetEntry, FlushBegin, FlushDevice, WriteError,
         ReleaseGet, Invalidate, PopCache, VmRelease
<1>2. CacheSound'
  <2>1. CASE \E r \in Releasers : PopCache(r)
    BY <2>1 DEF PopCache, ReadInv, CacheSound
  <2>2. CASE UNCHANGED cache
    BY <2>2, SameCache
  <2>. QED
    BY <2>1, <2>2
       DEF StoreMove, Write, WriteFull, SetEntry, FlushBegin, FlushDevice, WriteError,
           ReleaseGet, Invalidate, VmRelease
<1>3. Apart'
  <2>1. ASSUME NEW r \in Releasers, NEW k \in Keys, ReleaseGet(r, k)
        PROVE  Apart'
    <3>1. \A q \in Releasers : rel'[q].key = IF q = r THEN k ELSE rel[q].key
      BY SMTT(20), <2>1 DEF ReleaseGet, StoreInv, BookInv, BookTypes
    <3>2. \A x \in Readers : \A i \in 1 .. Len(rd[x].ts) : rd[x].ts[i] # k
      <4> SUFFICES ASSUME NEW x \in Readers, NEW i \in 1 .. Len(rd[x].ts) PROVE rd[x].ts[i] # k
        OBVIOUS
      <4>1. rd[x].ts \in Seq(Keys) /\ Progress(rd[x])
        BY DEF ReadInv, ReaderState
      <4>2. i \in DOMAIN rd[x].ts /\ Len(rd[x].ts) # 0
        BY <4>1
      <4>3. rd[x].pc # "idle"
        BY <4>1, <4>2 DEF Progress, IdleReader
      <4>. QED
        BY <2>1, <4>2, <4>3 DEF ReleaseGet, InUse
    <3>. QED
      BY <1>1, <3>1, <3>2 DEF ReadInv, Apart
  <2>2. ASSUME NEW r \in Releasers, Invalidate(r) \/ PopCache(r)
        PROVE  Apart'
    <3>1. \A q \in Releasers : rel'[q].key = rel[q].key
      BY <2>2 DEF Invalidate, PopCache, StoreInv, BookInv, BookTypes, ReleaserState
    <3>. QED
      BY <1>1, <3>1 DEF ReadInv, Apart
  <2>3. ASSUME NEW r \in Releasers, VmRelease(r)
        PROVE  Apart'
    <3>1. \A q \in Releasers : rel'[q].key = IF q = r THEN Zero ELSE rel[q].key
      BY <2>3 DEF VmRelease, IdleReleaser, StoreInv, BookInv, BookTypes
    <3>2. \A x \in Readers : \A i \in 1 .. Len(rd[x].ts) : rd[x].ts[i] # Zero
      BY ReaderShape, ZeroIsNoKey
    <3>. QED
      BY <1>1, <3>1, <3>2 DEF ReadInv, Apart
  <2>4. CASE UNCHANGED rel
    BY <1>1, <2>4 DEF ReadInv, Apart
  <2>. QED
    BY <2>1, <2>2, <2>3, <2>4
       DEF StoreMove, Write, WriteFull, SetEntry, FlushBegin, FlushDevice, WriteError
<1>. QED
  BY <1>1, <1>2, <1>3

LEMMA NextKeepsReaders ==
  ASSUME StoreInv, ReadInv, [Next]_vars
  PROVE  ReadInv'
<1>1. CASE StoreMove
  <2>1. StoreStep /\ BookInv' /\ UNCHANGED rd /\ Apart' /\ CacheSound'
    BY <1>1, StoreMoves, StoreMoveReaders
  <2>. QED
    BY <2>1, ReadersKept
<1>2. CASE ReaderMove
  BY <1>2, CallStep, ReaderSteps DEF ReaderMove
<1>3. CASE UNCHANGED vars
  <2>1. UNCHANGED <<mgr, table, rel, rd, cache>>
    BY <1>3 DEF vars
  <2>2. ASSUME NEW r \in Readers
        PROVE  Progress(rd[r])' /\ EntriesCurrent(rd[r])' /\ OutSound(rd[r])'
    <3>1. Progress(rd[r])'
      BY <2>1 DEF ReadInv, Progress
    <3>2. EntriesCurrent(rd[r])'
      BY SMTT(20), <2>1 DEF ReadInv, EntriesCurrent
    <3>3. OutSound(rd[r])'
      BY <2>1 DEF ReadInv, OutSound, Flushed
    <3>. QED
      BY <3>1, <3>2, <3>3
  <2>3. Apart' /\ CacheSound'
    BY <2>1 DEF ReadInv, Apart, CacheSound
  <2>. QED
    BY <2>1, <2>2, <2>3 DEF ReadInv
<1>. QED
  BY <1>1, <1>2, <1>3, Moves

LEMMA InitReaders == Init => ReadInv
<1> SUFFICES ASSUME Init PROVE ReadInv
  OBVIOUS
<1>1. /\ \A r \in Readers : rd[r] = IdleReader
      /\ \A r \in Releasers : rel[r].key = Zero
  BY DEF Init, IdleReleaser
<1>2. /\ IdleReader \in ReaderState /\ Len(IdleReader.ts) = 0
      /\ Len(IdleReader.entries) = 0 /\ Len(IdleReader.out) = 0 /\ IdleReader.pc = "idle"
  BY DEF IdleReader, ReaderState
<1>3. rd \in [Readers -> ReaderState]
  BY <1>2 DEF Init
<1>4. Progress(IdleReader) /\ EntriesCurrent(IdleReader) /\ OutSound(IdleReader)
  BY <1>2 DEF Progress, EntriesCurrent, OutSound
<1>5. Apart /\ CacheSound
  BY <1>1, <1>2 DEF Init, Apart, CacheSound, NoCache
<1>. QED
  BY <1>1, <1>3, <1>4, <1>5 DEF ReadInv

\* What a reader has taken from the slot table, a buffer or the cache is still
\* right, whatever is written, flushed or released meanwhile.
THEOREM ReaderInvariant == Spec => []ReadInv
<1>1. Init => ReadInv
  BY InitReaders
<1>2. StoreInv /\ ReadInv /\ [Next]_vars => ReadInv'
  BY NextKeepsReaders
<1>. QED
  BY <1>1, <1>2, StoreInvariant, PTL DEF Spec

-------------------------------------------------------------------------------
\* What a plan has written so far is in the buffers of the store, in order.
InBuffers(R) ==
  \A i \in 1 .. Len(R.out) :
    /\ desc[i] = [ssd |-> locate(R.ts[i]), host |-> R.out[i].host, off |-> entry_offset(R.entries[i])]
    /\ R.out[i].host => staging[i] = R.out[i].data

\* There is one plan at a time, and the buffers are its own.
BufferInv ==
  /\ \E T, U : desc \in [1 .. MaxTopk -> T] /\ staging \in [1 .. MaxTopk -> U]
  /\ \A r, q \in Readers : rd[r].kind = "plan" /\ rd[q].kind = "plan" => r = q
  /\ \A r \in Readers : rd[r].kind = "plan" => Len(rd[r].ts) <= MaxTopk /\ InBuffers(rd[r])
  /\ \A r \in Readers : rd[r].pc = "read" => rd[r].kind = "plan"

\* A step that leaves the buffers alone, and at most makes one reader s.
LEMMA BuffersKept ==
  ASSUME ReadInv, BufferInv, NEW r \in Readers, NEW s, rd' = [rd EXCEPT ![r] = s],
         UNCHANGED <<desc, staging>>,
         s.kind = "plan" =>
           /\ \A q \in Readers : q # r => rd[q].kind # "plan"
           /\ Len(s.ts) <= MaxTopk /\ InBuffers(s),
         s.pc = "read" => s.kind = "plan"
  PROVE  BufferInv'
<1>1. \A x \in Readers : rd'[x] = IF x = r THEN s ELSE rd[x]
  BY DEF ReadInv
<1>2. \E T, U : desc' \in [1 .. MaxTopk -> T] /\ staging' \in [1 .. MaxTopk -> U]
  BY DEF BufferInv
<1>3. \A x, q \in Readers : rd'[x].kind = "plan" /\ rd'[q].kind = "plan" => x = q
  BY <1>1 DEF BufferInv
<1>4. ASSUME NEW x \in Readers, rd'[x].kind = "plan"
      PROVE  Len(rd'[x].ts) <= MaxTopk /\ InBuffers(rd[x])'
  <2>1. Len(rd'[x].ts) <= MaxTopk /\ InBuffers(rd'[x])
    BY <1>1, <1>4 DEF BufferInv
  <2>. QED
    BY <2>1 DEF InBuffers
<1>5. \A x \in Readers : rd'[x].pc = "read" => rd'[x].kind = "plan"
  BY <1>1 DEF BufferInv
<1>. QED
  BY <1>2, <1>3, <1>4, <1>5 DEF BufferInv

LEMMA DescribeBuffers ==
  ASSUME ReadInv, BufferInv, NEW r \in Readers, NEW host \in BOOLEAN, NEW data,
         rd[r].pc \in {"scan", "read"}, rd[r].kind = "plan", Describe(r, host, data)
  PROVE  BufferInv'
<1> DEFINE n == Len(rd[r].out) + 1
           o == [host |-> host, data |-> data]
           p == IF n < Len(rd[r].ts) THEN "scan" ELSE "settled"
           d == [ssd |-> locate(rd[r].ts[n]), host |-> host, off |-> entry_offset(rd[r].entries[n])]
           os == Append(rd[r].out, o)
<1>1. /\ rd' = [rd EXCEPT ![r].out = os, ![r].pc = p]
      /\ desc' = [desc EXCEPT ![n] = d]
      /\ staging' = IF host THEN [staging EXCEPT ![n] = data] ELSE staging
  BY DEF Describe, Settle, At, Key, Off
<1>2. /\ rd \in [Readers -> ReaderState] /\ rd[r] \in ReaderState /\ Progress(rd[r])
  BY DEF ReadInv
<1>3. /\ Len(rd[r].out) \in Nat /\ Len(rd[r].ts) \in Nat /\ n \in 1 .. Len(rd[r].ts)
      /\ rd[r].out \in Seq([host : BOOLEAN, data : Keys \cup {Zero}])
  BY <1>2 DEF Progress, ReaderState
<1>4. n \in 1 .. MaxTopk /\ Len(rd[r].ts) <= MaxTopk /\ InBuffers(rd[r])
  BY <1>3, KVConstants DEF BufferInv
<1>5. PICK T, U : desc \in [1 .. MaxTopk -> T] /\ staging \in [1 .. MaxTopk -> U]
  BY DEF BufferInv
<1>. HIDE DEF d
<1>6. /\ \A i \in 1 .. MaxTopk : desc'[i] = IF i = n THEN d ELSE desc[i]
      /\ \A i \in 1 .. MaxTopk : i # n => staging'[i] = staging[i]
      /\ host => staging'[n] = data
  BY <1>1, <1>4, <1>5
<1>7. /\ desc' \in [1 .. MaxTopk -> T \cup {d}]
      /\ staging' \in [1 .. MaxTopk -> U \cup {data}]
  BY <1>1, <1>4, <1>5
<1>8. o.host = host /\ o.data = data
  OBVIOUS
<1>. HIDE DEF o
<1>9. Len(os) = n /\ \A i \in 1 .. n : os[i] = IF i = n THEN o ELSE rd[r].out[i]
  BY <1>3
<1>. HIDE DEF os, p
<1>10. /\ rd'[r].kind = "plan" /\ rd'[r].ts = rd[r].ts /\ rd'[r].entries = rd[r].entries
       /\ rd'[r].out = os
       /\ \A q \in Readers : q # r => rd'[q] = rd[q]
  BY ZenonT(20), <1>1, <1>2 DEF ReaderState
<1>11. \A q \in Readers : q # r => rd[q].kind # "plan"
  BY DEF BufferInv
<1>12. InBuffers(rd[r])'
  <2> SUFFICES ASSUME NEW i \in 1 .. n
               PROVE  /\ desc'[i] = [ssd |-> locate(rd[r].ts[i]), host |-> os[i].host,
                                     off |-> entry_offset(rd[r].entries[i])]
                      /\ os[i].host => staging'[i] = os[i].data
    BY ZenonT(20), <1>9, <1>10 DEF InBuffers
  <2>1. i \in 1 .. MaxTopk
    BY <1>3, <1>4, KVConstants
  <2>2. CASE i = n
    <3>1. os[i] = o /\ desc'[i] = d
      BY <1>6, <1>9, <2>1, <2>2
    <3>. QED
      BY <1>6, <1>8, <2>2, <3>1 DEF d
  <2>3. CASE i # n
    <3>1. os[i] = rd[r].out[i] /\ desc'[i] = desc[i] /\ staging'[i] = staging[i]
      BY <1>6, <1>9, <2>1, <2>3
    <3>2. i \in 1 .. Len(rd[r].out)
      BY <1>3, <2>3
    <3>. QED
      BY ZenonT(20), <1>4, <3>1, <3>2 DEF InBuffers
  <2>. QED
    BY <2>2, <2>3
<1>13. \A x, q \in Readers : rd'[x].kind = "plan" /\ rd'[q].kind = "plan" => x = q
  BY <1>10, <1>11
<1>14. \E V, W : desc' \in [1 .. MaxTopk -> V] /\ staging' \in [1 .. MaxTopk -> W]
  BY <1>7
<1>15. \A q \in Readers : rd'[q].pc = "read" => rd'[q].kind = "plan"
  BY <1>10 DEF BufferInv
<1>. QED
  BY <1>4, <1>10, <1>11, <1>12, <1>13, <1>14, <1>15 DEF BufferInv

LEMMA NextKeepsBuffers ==
  ASSUME StoreInv, ReadInv, BufferInv, [Next]_vars
  PROVE  BufferInv'
<1>1. CASE UNCHANGED <<rd, desc, staging>>
  BY SMTT(20), <1>1 DEF BufferInv, InBuffers
<1>2. StoreMove => UNCHANGED <<rd, desc, staging>>
  BY ZenonT(20) DEF StoreMove, Write, WriteFull, SetEntry, FlushBegin, FlushDevice, WriteError,
         ReleaseGet, Invalidate, PopCache, VmRelease, buffers
<1>3. UNCHANGED vars => UNCHANGED <<rd, desc, staging>>
  BY DEF vars
<1>4. ASSUME NEW r \in Readers, NEW kind \in {"plan", "fetch", "prefetch"}, NEW ts \in Batches,
             Call(r, kind, ts)
      PROVE  BufferInv'
  <2> DEFINE s == [pc |-> "gather", kind |-> kind, ts |-> ts, entries |-> << >>, out |-> << >>]
  <2>1. /\ rd' = [rd EXCEPT ![r] = s] /\ UNCHANGED <<desc, staging>>
        /\ kind = "plan" => MayPlan(ts)
    BY <1>4 DEF Call, buffers
  <2>2. s.kind = kind /\ s.ts = ts /\ Len(s.out) = 0 /\ s.pc # "read"
    OBVIOUS
  <2>. HIDE DEF s
  <2>3. InBuffers(s)
    BY <2>2 DEF InBuffers
  <2>. QED
    BY ZenonT(20), <2>1, <2>2, <2>3, BuffersKept DEF MayPlan
<1>5. ASSUME NEW r \in Readers, gather(r)
      PROVE  BufferInv'
  <2> DEFINE es == Append(rd[r].entries, table[rd[r].ts[Len(rd[r].entries) + 1]])
             p == IF Len(es) = Len(rd[r].ts) THEN "scan" ELSE "gather"
             s == [rd[r] EXCEPT !.entries = es, !.pc = p]
  <2>1. /\ rd' = [rd EXCEPT ![r].entries = es, ![r].pc = p] /\ UNCHANGED <<desc, staging>>
        /\ rd[r].pc = "gather"
    BY <1>5 DEF gather, buffers
  <2>2. rd \in [Readers -> ReaderState] /\ rd[r] \in ReaderState /\ rd[r].out = << >>
    BY <2>1 DEF ReadInv, Progress
  <2>a. p # "read"
    OBVIOUS
  <2>. HIDE DEF es, p
  <2>3. /\ s.kind = rd[r].kind /\ s.ts = rd[r].ts /\ s.out = << >> /\ s.pc # "read"
        /\ rd' = [rd EXCEPT ![r] = s]
    BY ZenonT(20), <2>1, <2>2, <2>a DEF ReaderState
  <2>. HIDE DEF s
  <2>4. InBuffers(s)
    BY <2>3 DEF InBuffers
  <2>5. s.kind = "plan" => Len(s.ts) <= MaxTopk /\ \A q \in Readers : q # r => rd[q].kind # "plan"
    BY <2>3 DEF BufferInv
  <2>. QED
    BY ZenonT(20), <2>1, <2>3, <2>4, <2>5, BuffersKept
<1>6. ASSUME NEW r \in Readers, NotOffloaded(r) \/ GpuDone(r) \/ FetchDone(r)
      PROVE  BufferInv'
  <2>1. rd' = [rd EXCEPT ![r] = IdleReader] /\ UNCHANGED <<desc, staging>>
    BY <1>6 DEF NotOffloaded, GpuDone, FetchDone, buffers
  <2>2. IdleReader.kind # "plan" /\ IdleReader.pc # "read"
    BY DEF IdleReader
  <2>. QED
    BY ZenonT(20), <2>1, <2>2, BuffersKept
<1>7. ASSUME NEW r \in Readers, PlanCheck(r) \/ PlanRead(r)
      PROVE  BufferInv'
  <2>1. rd[r].pc \in {"scan", "read"} /\ rd[r].kind = "plan"
    BY <1>7 DEF PlanCheck, PlanRead, BufferInv
  <2>2. ASSUME NEW host \in BOOLEAN, NEW data, Describe(r, host, data) PROVE BufferInv'
    BY <2>1, <2>2, DescribeBuffers
  <2>3. CASE rd' = [rd EXCEPT ![r].pc = "read"] /\ UNCHANGED buffers
    <3> DEFINE s == [rd[r] EXCEPT !.pc = "read"]
    <3>1. rd \in [Readers -> ReaderState] /\ rd[r] \in ReaderState
      BY DEF ReadInv
    <3>2. /\ s.kind = rd[r].kind /\ s.ts = rd[r].ts /\ s.out = rd[r].out
          /\ s.entries = rd[r].entries /\ rd' = [rd EXCEPT ![r] = s]
      BY ZenonT(20), <2>3, <3>1 DEF ReaderState
    <3>. HIDE DEF s
    <3>3. /\ Len(s.ts) <= MaxTopk /\ InBuffers(s)
          /\ \A q \in Readers : q # r => rd[q].kind # "plan"
      BY <2>1, <3>2 DEF BufferInv, InBuffers
    <3>4. UNCHANGED <<desc, staging>>
      BY <2>3 DEF buffers
    <3>. QED
      BY ZenonT(20), <2>1, <3>2, <3>3, <3>4, BuffersKept
  <2>4. CASE PlanCheck(r)
    <3>1. \/ rd' = [rd EXCEPT ![r].pc = "read"] /\ UNCHANGED buffers
          \/ Describe(r, FALSE, Zero)
      BY ZenonT(20), <2>4 DEF PlanCheck
    <3>. QED
      BY ZenonT(20), <2>2, <2>3, <3>1
  <2>5. CASE PlanRead(r)
    <3>1. PICK y : Describe(r, TRUE, y) \/ Describe(r, FALSE, y)
      BY ZenonT(20), <2>5 DEF PlanRead
    <3>. QED
      BY ZenonT(20), <2>2, <3>1
  <2>. QED
    BY <1>7, <2>4, <2>5
<1>8. ASSUME NEW r \in Readers,
             FetchScan(r) \/ PrefetchStore(r) \/ \E i \in DOMAIN rd[r].out : FetchDisk(r, i)
      PROVE  BufferInv'
  <2>1. UNCHANGED <<desc, staging>> /\ rd[r].kind # "plan"
    BY <1>8 DEF FetchScan, PrefetchStore, FetchDisk, Loaded, buffers
  <2>2. PICK s : rd' = [rd EXCEPT ![r] = s] /\ s.kind # "plan" /\ s.pc # "read"
    <3>1. rd \in [Readers -> ReaderState] /\ rd[r] \in ReaderState
      BY DEF ReadInv
    <3>2. ASSUME NEW a, NEW p, p # "read", rd' = [rd EXCEPT ![r].out = a, ![r].pc = p]
          PROVE  \E s : rd' = [rd EXCEPT ![r] = s] /\ s.kind # "plan" /\ s.pc # "read"
      <4> DEFINE s == [rd[r] EXCEPT !.out = a, !.pc = p]
      <4>1. rd' = [rd EXCEPT ![r] = s] /\ s.kind = rd[r].kind /\ s.pc = p
        BY ZenonT(20), <3>1, <3>2 DEF ReaderState
      <4>. QED
        BY <2>1, <3>2, <4>1
    <3>3. CASE FetchScan(r)
      <4>1. PICK h, y : rd' = Settle(r, h, y)
        BY ZenonT(20), <3>3 DEF FetchScan
      <4> DEFINE a == Append(rd[r].out, [host |-> h, data |-> y])
                 p == IF At(r) < Len(rd[r].ts) THEN "scan" ELSE "settled"
      <4>2. p # "read"
        OBVIOUS
      <4>3. rd' = [rd EXCEPT ![r].out = a, ![r].pc = p]
        BY <4>1 DEF Settle
      <4>. HIDE DEF a, p
      <4>. QED
        BY ZenonT(20), <3>2, <4>2, <4>3
    <3>4. CASE PrefetchStore(r)
      <4>1. CASE rd' = [rd EXCEPT ![r] = IdleReader]
        <5>1. IdleReader.kind # "plan" /\ IdleReader.pc # "read"
          BY DEF IdleReader
        <5>. QED
          BY ZenonT(20), <4>1, <5>1
      <4>a. rd[r].pc # "read"
        BY <3>4 DEF PrefetchStore, Loaded
      <4>2. CASE rd' = [rd EXCEPT ![r].ts = Tail(@), ![r].entries = Tail(@), ![r].out = Tail(@)]
        <5> DEFINE s == [rd[r] EXCEPT !.ts = Tail(@), !.entries = Tail(@), !.out = Tail(@)]
        <5>1. rd' = [rd EXCEPT ![r] = s] /\ s.kind = rd[r].kind /\ s.pc = rd[r].pc
          BY ZenonT(20), <3>1, <4>2 DEF ReaderState
        <5>. QED
          BY <2>1, <4>a, <5>1
      <4>. QED
        BY <3>4, <4>1, <4>2 DEF PrefetchStore
    <3>5. CASE \E i \in DOMAIN rd[r].out : FetchDisk(r, i)
      <4>1. PICK i \in DOMAIN rd[r].out : FetchDisk(r, i)
        BY <3>5
      <4> DEFINE o == [host |-> TRUE, data |-> read_disk(mgr[locate(rd[r].ts[i])],
                                                         entry_offset(rd[r].entries[i]))]
                 s == [rd[r] EXCEPT !.out[i] = o]
      <4>2. rd' = [rd EXCEPT ![r].out[i] = o] /\ rd[r].pc # "read"
        BY <4>1 DEF FetchDisk
      <4>. HIDE DEF o
      <4>3. rd' = [rd EXCEPT ![r] = s] /\ s.kind = rd[r].kind /\ s.pc = rd[r].pc
        BY <3>1, <4>2 DEF ReaderState
      <4>. QED
        BY <2>1, <4>2, <4>3
    <3>. QED
      BY <1>8, <3>3, <3>4, <3>5
  <2>. QED
    BY ZenonT(20), <2>1, <2>2, BuffersKept
<1>. QED
  BY <1>1, <1>2, <1>3, <1>4, <1>5, <1>6, <1>7, <1>8, Moves DEF ReaderMove

\* One plan at a time has the buffers of the store to itself, whatever other
\* readers fetch and prefetch.
THEOREM BufferInvariant == Spec => []BufferInv
<1>1. Init => BufferInv
  <2> SUFFICES ASSUME Init PROVE BufferInv
    OBVIOUS
  <2>1. \A r \in Readers : rd[r].kind = "none" /\ rd[r].pc = "idle"
    BY DEF Init, IdleReader
  <2>2. \E T, U : desc \in [1 .. MaxTopk -> T] /\ staging \in [1 .. MaxTopk -> U]
    <3>1. /\ desc \in [1 .. MaxTopk -> {[ssd |-> 0, host |-> FALSE, off |-> 0]}]
          /\ staging \in [1 .. MaxTopk -> {Zero}]
      BY DEF Init
    <3>. QED
      BY <3>1
  <2>. QED
    BY <2>1, <2>2 DEF BufferInv
<1>2. StoreInv /\ ReadInv /\ BufferInv /\ [Next]_vars => BufferInv'
  BY NextKeepsBuffers
<1>. QED
  BY <1>1, <1>2, StoreInvariant, ReaderInvariant, PTL DEF Spec

\* plan(), fetch() and prefetch() give every reader the units of its own tokens,
\* whatever flushes, appends and releases of other keys do in between, and
\* although all plans share the descriptor and the staging buffer.
THEOREM StoreReadersServed == Spec => []ReadersServed
<1>1. StoreInv /\ ReadInv /\ BufferInv => PlanLoads
  <2> SUFFICES ASSUME StoreInv, ReadInv, BufferInv, NEW r \in Readers, rd[r].pc = "settled",
                      rd[r].kind = "plan", NEW i \in DOMAIN rd[r].ts
               PROVE  rd[r].ts[i] = IF desc[i].host THEN staging[i]
                                    ELSE read_disk(mgr[desc[i].ssd], desc[i].off)
    BY SMTT(20) DEF PlanLoads
  <2>1. i \in 1 .. Len(rd[r].out)
    <3>1. Len(rd[r].out) = Len(rd[r].ts)
      BY DEF ReadInv, Progress
    <3>2. rd[r].ts \in Seq(Keys)
      BY ReaderShape DEF ReaderState
    <3>. QED
      BY <3>1, <3>2
  <2>2. /\ desc[i].ssd = locate(rd[r].ts[i]) /\ desc[i].host = rd[r].out[i].host
        /\ desc[i].off = entry_offset(rd[r].entries[i])
        /\ rd[r].out[i].host => staging[i] = rd[r].out[i].data
    <3>1. InBuffers(rd[r])
      BY DEF BufferInv
    <3>2. /\ desc[i] = [ssd |-> locate(rd[r].ts[i]), host |-> rd[r].out[i].host,
                        off |-> entry_offset(rd[r].entries[i])]
          /\ rd[r].out[i].host => staging[i] = rd[r].out[i].data
      BY ZenonT(20), <2>1, <3>1 DEF InBuffers
    <3>. QED
      BY <3>2
  <2>3. CASE rd[r].out[i].host
    BY <2>1, <2>2, <2>3 DEF ReadInv, OutSound
  <2>4. CASE ~rd[r].out[i].host
    BY <2>1, <2>2, <2>4, OnDevice
  <2>. QED
    BY <2>3, <2>4
<1>2. ReadInv => FetchExact
  <2> SUFFICES ASSUME ReadInv, NEW r \in Readers, Loaded(r), NEW i \in DOMAIN rd[r].ts
               PROVE  rd[r].out[i].data = rd[r].ts[i]
    BY DEF FetchExact
  <2>1. i \in 1 .. Len(rd[r].out)
    <3>1. Len(rd[r].out) = Len(rd[r].ts)
      BY DEF Loaded, ReadInv, Progress
    <3>2. rd[r].ts \in Seq(Keys)
      BY ReaderShape DEF ReaderState
    <3>. QED
      BY <3>1, <3>2
  <2>2. rd[r].out[i].host
    BY <2>1, ReaderShape DEF Loaded, ReaderState
  <2>. QED
    BY <2>1, <2>2 DEF ReadInv, OutSound
<1>. QED
  BY <1>1, <1>2, StoreInvariant, ReaderInvariant, BufferInvariant, PTL DEF ReadersServed

-------------------------------------------------------------------------------
\* The store uses every segment manager as its contract asks: the callers of a
\* device's manager hold the units that the store accounts for on that device,
\* each from its append to its one release, whatever the slot table, the cache
\* and the other threads are doing in between.
RefinesSegments ==
  /\ \A d \in Devices : ManagerInit(mgr[d], UnitsOf(d))
  /\ [][\/ UNCHANGED <<mgr, table, writer, rel>>
        \/ \A d \in Devices :
             \/ mgr'[d] = mgr[d] /\ UnitsOf(d)' = UnitsOf(d)
             \/ ManagerNext(mgr[d], UnitsOf(d), mgr'[d], UnitsOf(d)')]_vars

\* A step of the store is, on every device, a step of its segment manager.
LEMMA SegmentStepRefines ==
  ASSUME NEW d \in Devices, SegmentStep(d)
  PROVE  \/ mgr'[d] = mgr[d] /\ UnitsOf(d)' = UnitsOf(d)
         \/ ManagerNext(mgr[d], UnitsOf(d), mgr'[d], UnitsOf(d)')
<1>1. Keys = Data
  BY KVConstants
<1>. QED
  BY ZenonT(20), <1>1
     DEF SegmentStep, ManagerNext, AppendOk, AppendFull, Flush, WriteFails, Release

\* The store uses the segment manager of every device as VmSegment's callers do:
\* a unit is held from its append to its one release, whatever the slot table,
\* the cache and the other threads are doing in between.
THEOREM StoreRefinesSegments == Spec => RefinesSegments
<1> DEFINE A == \/ UNCHANGED <<mgr, table, writer, rel>>
                \/ \A d \in Devices :
                     \/ mgr'[d] = mgr[d] /\ UnitsOf(d)' = UnitsOf(d)
                     \/ ManagerNext(mgr[d], UnitsOf(d), mgr'[d], UnitsOf(d)')
<1>1. Init => \A d \in Devices : ManagerInit(mgr[d], UnitsOf(d))
  BY InitStore DEF ManagerInit
<1>2. StoreInv /\ [Next]_vars => [A]_vars
  <2> SUFFICES ASSUME StoreInv, Next PROVE A
    OBVIOUS
  <2>1. CASE ReaderMove
    BY <2>1, ReaderMoves
  <2>2. CASE StoreMove
    BY <2>2, StoreMoves, SegmentStepRefines DEF StoreStep
  <2>. QED
    BY <2>1, <2>2, Moves
<1>. HIDE DEF A
<1>3. Spec => (\A d \in Devices : ManagerInit(mgr[d], UnitsOf(d))) /\ [][A]_vars
  BY <1>1, <1>2, StoreInvariant, PTL DEF Spec
<1>. QED
  BY <1>3 DEF RefinesSegments, A
===============================================================================

