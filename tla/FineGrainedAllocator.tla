------------------------- MODULE FineGrainedAllocator -------------------------
(***************************************************************************)
(* bmpclient/allocator.py: blocks carved out of chunks.  A process asks    *)
(* UMM for large chunks (client.py, umm_client.py, umm_api.c) and hands    *)
(* out pieces of them, first fit, from a sorted free list per chunk; a     *)
(* chunk whose last block comes back is returned to UMM.                   *)
(*                                                                         *)
(* alloc, free, preallocate_chunks and close hold self.lock throughout and *)
(* are one step each.  read and write hold no lock and move the data unit  *)
(* by unit; they look nothing up, but address the memory of the chunk by   *)
(* the base address the block carries.  Memory is therefore modelled by    *)
(* address: what umms has allocated, what ummd has registered, and what is *)
(* stored, apart from each other.                                          *)
(*                                                                         *)
(* umm_free unregisters and then frees, either of which may fail, and      *)
(* delete_chunk raises if one did.  A create_chunk that raises changes     *)
(* nothing here: what lost calls leave behind at the servers is the        *)
(* subject of ChunkLifecycle.                                              *)
(*                                                                         *)
(* Callers keep two rules: a block is freed once, and neither a block is   *)
(* freed nor the allocator closed while a thread reads or writes there.    *)
(***************************************************************************)
EXTENDS Integers, FiniteSets, SequencesExt, FiniteSetsExt, Functions

CONSTANTS
  Threads,
  Requests,        \* alloc() calls: [size, media, device]
  Prealloc,        \* preallocate_chunks() calls: [count, size, media, device]
  DefaultChunk,    \* default_chunk_size
  PageSize,        \* UMM_PAGE_SIZE
  DramSize,        \* units of the memory tier
  SsdSize,         \* units of one SSD device
  NumSsd,          \* configured SSD devices
  None,            \* device_idx not given
  MaxIds,          \* bound on chunks ever created
  MaxBlocks,       \* bound on blocks held at a time
  MaxFaults,       \* bound on failing delete_chunk calls
  MaxExtras        \* bound on reads, writes and allocations of size zero

Media == {"dram", "ssd"}

ASSUME AllocatorConstants ==
  /\ DefaultChunk \in Nat \ {0} /\ PageSize \in Nat \ {0}
  /\ DramSize \in Nat /\ SsdSize \in Nat /\ NumSsd \in Nat
  /\ MaxIds \in Nat /\ MaxBlocks \in Nat
  /\ MaxFaults \in Nat /\ MaxExtras \in Nat
  /\ \A r \in Requests \cup Prealloc :
       r.size \in Nat /\ r.media \in Media /\ (r.device # None => r.device \in Nat)

VARIABLES
  chunks,    \* chunks_by_type: chunk id -> [media, device, base, total, free_list]
  reg,       \* ummd: registered chunk id -> address in its name
  pool,      \* umms: allocated addresses
  data,      \* contents of the memory
  nextId,
  held,      \* blocks in the hands of callers: block -> what its holder expects
             \* in it, the old contents until it writes
  io,        \* the read or write a thread is in
  suspect,   \* history: addresses given back by a call that raised, of chunks the
             \* allocator has kept
  closed,
  faults, extras

vars == <<chunks, reg, pool, data, nextId, held, io, suspect, closed, faults, extras>>

Unset == "unset"

NoIO == [op |-> "none", block |-> None, pos |-> 0, got |-> << >>]

\* The offsets of a tier, or of one SSD device in it.
Tier(media) == IF media = "dram" THEN 0 .. DramSize - 1 ELSE 0 .. NumSsd * SsdSize - 1

Window(media, device) ==
  IF device = None THEN Tier(media)
  ELSE Tier(media) \cap (device * SsdSize .. (device + 1) * SsdSize - 1)

Addresses == UNION {{m} \X Tier(m) : m \in Media}

Stretch(media, from, size) == {media} \X (from .. from + size - 1)

\* FineGrainedAllocator.__init__ over a client that umm_init accepted
Init ==
  /\ chunks = << >> /\ reg = << >> /\ pool = {} /\ nextId = 1
  /\ data = [a \in Addresses |-> Unset]
  /\ held = << >>
  /\ io = [t \in Threads |-> NoIO]
  /\ suspect = {} /\ closed = FALSE /\ faults = 0 /\ extras = 0
-------------------------------------------------------------------------------
(* ChunkBuffer: a free list of <<offset, size>> pairs sorted by offset.    *)

Without(f, x) == Restrict(f, DOMAIN f \ {x})

Put(f, x, v) == [y \in DOMAIN f \cup {x} |-> IF y = x THEN v ELSE f[y]]

\* The first gap that is large enough, 0 when there is none.
FitIn(gaps, size) == SelectInSeq(gaps, LAMBDA g : g[2] >= size)

\* Mutant: a gap is used from its start although part of it was handed out.
carve_keeps_offset(gaps, i, size) ==
  IF gaps[i][2] = size THEN RemoveAt(gaps, i)
  ELSE [gaps EXCEPT ![i] = <<@[1], @[2] - size>>]

\* ChunkBuffer.alloc
carve(gaps, i, size) ==
  IF gaps[i][2] = size THEN RemoveAt(gaps, i)
  ELSE [gaps EXCEPT ![i] = <<@[1] + size, @[2] - size>>]

\* One round of the merging loop of ChunkBuffer.free
MergeNext(merged, gap) ==
  IF merged # << >> /\ Last(merged)[1] + Last(merged)[2] = gap[1]
  THEN [merged EXCEPT ![Len(merged)] = <<@[1], @[2] + gap[2]>>]
  ELSE Append(merged, gap)

\* Mutant: neighbouring gaps are not merged.
give_back_unmerged(gaps, off, size) ==
  LET at == 1 + Cardinality({i \in DOMAIN gaps : gaps[i][1] <= off})
  IN InsertAt(gaps, at, <<off, size>>)

\* ChunkBuffer.free; the sort is stable, so the gap goes behind its equals.
give_back(gaps, off, size) ==
  LET at == 1 + Cardinality({i \in DOMAIN gaps : gaps[i][1] <= off})
  IN FoldLeft(MergeNext, << >>, InsertAt(gaps, at, <<off, size>>))

is_fully_free(cb) == cb.free_list = << <<0, cb.total>> >>

NewChunk(r, base, total) ==
  [media |-> r.media, device |-> r.device, base |-> base, total |-> total,
   free_list |-> << <<0, total>> >>]

-------------------------------------------------------------------------------
(* The chunks of UMM: UMMServiceClient.create_chunk and delete_chunk.      *)

ChunkMemory(cb) == Stretch(cb.media, cb.base, cb.total)

RoundUp(size) == ((size + PageSize - 1) \div PageSize) * PageSize

\* Where umms can place a chunk: free pages, of the device if one is named.
Places(s, r, total) ==
  {o \in Window(r.media, r.device) :
     /\ o % PageSize = 0 /\ o .. o + total - 1 \subseteq Window(r.media, r.device)
     /\ Stretch(r.media, o, total) \cap s.pool = {}}

Now == [ok |-> TRUE, chunks |-> chunks, reg |-> reg, pool |-> pool, nextId |-> nextId]

\* umm_alloc, umm_alloc_tiered or umm_alloc_on_device, then the ChunkBuffer: the
\* first place, under a name made of its offset.  A name still registered is
\* refused by ummd, and the memory goes back.
create_chunk(s, r, size) ==
  LET total == RoundUp(size)
      places == Places(s, r, total)
      base == Min(places)
  IN IF size = 0 \/ s.nextId > MaxIds \/ places = {} \/ <<r.media, base>> \in Range(s.reg)
     THEN [s EXCEPT !.ok = FALSE]
     ELSE [s EXCEPT !.chunks = Put(@, s.nextId, NewChunk(r, base, total)),
                    !.reg = Put(@, s.nextId, <<r.media, base>>),
                    !.pool = @ \cup Stretch(r.media, base, total),
                    !.nextId = @ + 1]

\* umm_free by a descriptor: the possible outcomes.  The id is unregistered, and
\* the memory freed by its address whether or not that went well; umms frees
\* the whole range, or refuses when a page of it is not allocated.
delete_chunk(c, rg, pl) ==
  LET mem == ChunkMemory(chunks[c])
      whole == mem \subseteq pl
      freed == IF whole THEN pl \ mem ELSE pl
  IN {[raised |-> ~(c \in DOMAIN rg /\ whole), fault |-> FALSE,
       reg |-> Without(rg, c), pool |-> freed]}
     \cup IF faults >= MaxFaults THEN {}
          ELSE {[raised |-> TRUE, fault |-> TRUE, reg |-> g, pool |-> l] :
                  g \in {rg, Without(rg, c)}, l \in {pl, freed}}

\* The call has raised or not; what it freed of chunks still kept is suspect.
Deleted(out, kept) ==
  /\ reg' = out.reg /\ pool' = out.pool
  /\ chunks' = kept
  /\ suspect' = suspect \cup
       ((pool \ out.pool) \cap UNION {ChunkMemory(kept[c]) : c \in DOMAIN kept})
  /\ faults' = IF out.fault THEN faults + 1 ELSE faults
-------------------------------------------------------------------------------
Idle(t) == io[t] = NoIO /\ ~closed

\* An allocation of size zero uses the bound on extras up.
Bounded(r) ==
  /\ Cardinality(DOMAIN held) < MaxBlocks
  /\ r.size = 0 => extras = 0
  /\ extras' = IF r.size = 0 THEN MaxExtras ELSE extras

Block(r, c, base, off) ==
  [cid |-> c, off |-> off, size |-> r.size, gpa |-> <<r.media, base>>, device |-> r.device]

\* desc.base_gpa + block.offset + u
AddressOf(b, u) == <<b.gpa[1], b.gpa[2] + b.off + u>>

Contents(b) == [u \in 0 .. b.size - 1 |-> data[AddressOf(b, u)]]

\* The thread is free to use the block, and no other thread does.
MayUse(t, b) == Idle(t) /\ \A q \in Threads : io[q].block # b

\* The chunks alloc() may carve from, in the order of the dict.
Fitting(r) ==
  {c \in DOMAIN chunks : /\ chunks[c].media = r.media
                         /\ chunks[c].device = r.device
                         /\ FitIn(chunks[c].free_list, r.size) # 0}

\* alloc() from a chunk the process has
AllocHere(t, r) ==
  /\ Idle(t) /\ Bounded(r) /\ Fitting(r) # {}
  /\ LET c == Min(Fitting(r))
         gaps == chunks[c].free_list
         i == FitIn(gaps, r.size)
         b == Block(r, c, chunks[c].base, gaps[i][1])
     IN /\ chunks' = [chunks EXCEPT ![c].free_list = carve(gaps, i, r.size)]
        /\ held' = Put(held, b, Contents(b))
  /\ UNCHANGED <<reg, pool, data, nextId, io, suspect, closed, faults>>

\* alloc() from a new chunk
AllocNew(t, r) ==
  LET s == create_chunk(Now, r, Max({r.size, DefaultChunk}))
      b == Block(r, nextId, s.chunks[nextId].base, 0)
  IN /\ Idle(t) /\ Bounded(r) /\ Fitting(r) = {} /\ s.ok
     /\ chunks' = [s.chunks EXCEPT ![nextId].free_list = carve(@, 1, r.size)]
     /\ reg' = s.reg /\ pool' = s.pool /\ nextId' = s.nextId
     /\ held' = Put(held, b, Contents(b))
     /\ UNCHANGED <<data, io, suspect, closed, faults>>

\* alloc() that raises MemoryExhaustedError, whatever create_chunk raised
AllocExhausted(t, r) ==
  /\ Idle(t) /\ Fitting(r) = {}
  /\ UNCHANGED vars

\* preallocate_chunks(): the n chunks created before a create_chunk raised stay.
Preallocate(t, p, n) ==
  LET s == FoldLeft(LAMBDA a, i : create_chunk(a, p, p.size), Now, [i \in 1 .. n |-> i])
  IN /\ Idle(t) /\ s.ok
     /\ chunks' = s.chunks /\ reg' = s.reg /\ pool' = s.pool /\ nextId' = s.nextId
     /\ UNCHANGED <<data, held, io, suspect, closed, faults, extras>>

\* free() of a block that leaves others in its chunk
FreeKeeps(t, b) ==
  LET c == b.cid
      gaps == give_back(chunks[c].free_list, b.off, b.size)
  IN /\ MayUse(t, b) /\ c \in DOMAIN chunks
     /\ ~is_fully_free([chunks[c] EXCEPT !.free_list = gaps])
     /\ chunks' = [chunks EXCEPT ![c].free_list = gaps]
     /\ held' = Without(held, b)
     /\ UNCHANGED <<reg, pool, data, nextId, io, suspect, closed, faults, extras>>

\* free() of the last block of a chunk.  delete_chunk returns, or raises and
\* leaves the fully free chunk where alloc() finds it again.
FreeReturns(t, b) ==
  LET c == b.cid
      gaps == give_back(chunks[c].free_list, b.off, b.size)
  IN /\ MayUse(t, b) /\ c \in DOMAIN chunks
     /\ is_fully_free([chunks[c] EXCEPT !.free_list = gaps])
     /\ held' = Without(held, b)
     /\ \E out \in delete_chunk(c, reg, pool) :
          Deleted(out, IF out.raised THEN [chunks EXCEPT ![c].free_list = gaps]
                       ELSE Without(chunks, c))
     /\ UNCHANGED <<data, nextId, io, closed, extras>>

\* free() of an empty block whose chunk went back to UMM before it
FreeUnknown(t, b) ==
  /\ MayUse(t, b) /\ b.cid \notin DOMAIN chunks
  /\ held' = Without(held, b)
  /\ UNCHANGED <<chunks, reg, pool, data, nextId, io, suspect, closed, faults, extras>>

\* The order in which close() deletes: the dram chunks, then the ssd chunks.
CloseOrder ==
  LET ids(m) == SetToSortSeq({c \in DOMAIN chunks : chunks[c].media = m}, <)
  IN ids("dram") \o ids("ssd")

\* The first n chunks of close() can be deleted without an error: ummd knows
\* them, and no page is freed twice.
DeletesCleanly(order, n) ==
  /\ \A i \in 1 .. n : /\ order[i] \in DOMAIN reg
                       /\ ChunkMemory(chunks[order[i]]) \subseteq pool
  /\ \A i, j \in 1 .. n : i # j =>
       ChunkMemory(chunks[order[i]]) \cap ChunkMemory(chunks[order[j]]) = {}

\* close(): n chunks are deleted; the next delete_chunk, if any, raises and
\* keeps the entries of its media type, the deleted ones included.
Close(n) ==
  LET order == CloseOrder
      gone == {order[i] : i \in 1 .. n}
      done == n = Len(order)
      rg == Restrict(reg, DOMAIN reg \ gone)
      pl == pool \ UNION {ChunkMemory(chunks[c]) : c \in gone}
      last == IF done THEN {[raised |-> FALSE, fault |-> FALSE, reg |-> rg, pool |-> pl]}
              ELSE {out \in delete_chunk(order[n + 1], rg, pl) : out.raised}
      cleared == {c \in gone : done \/ chunks[c].media # chunks[order[n + 1]].media}
  IN /\ n <= Len(order) /\ ~closed /\ \A q \in Threads : io[q] = NoIO
     /\ DeletesCleanly(order, n)
     /\ \E out \in last : Deleted(out, Restrict(chunks, DOMAIN chunks \ cleared))
     /\ held' = Restrict(held, {b \in DOMAIN held : b.cid \in DOMAIN chunks'})
     /\ closed' = done
     /\ UNCHANGED <<data, nextId, io, extras>>
-------------------------------------------------------------------------------
(* Data: FineGrainedAllocator.read and write, umm_read and umm_write.      *)

\* write(block, off, data) up to the transport
WriteBegin(t, b, from) ==
  /\ MayUse(t, b)
  /\ extras < MaxExtras /\ extras' = extras + 1
  /\ io' = [io EXCEPT ![t] = [op |-> "write", block |-> b, pos |-> from, got |-> << >>]]
  /\ UNCHANGED <<chunks, reg, pool, data, nextId, held, suspect, closed, faults>>

\* The I/O after one more unit.
Advance(i) == IF i.pos + 1 = i.block.size /\ i.op = "write" THEN NoIO ELSE [i EXCEPT !.pos = @ + 1]

\* Mutant: the offset of the block in its chunk is not added.
umm_write_chunk_start(t) ==
  LET i == io[t] IN
  /\ i.op = "write"
  /\ data' = [data EXCEPT ![<<i.block.gpa[1], i.block.gpa[2] + i.pos>>] = t]
  /\ held' = [held EXCEPT ![i.block][i.pos] = t]
  /\ io' = [io EXCEPT ![t] = Advance(i)]
  /\ UNCHANGED <<chunks, reg, pool, nextId, suspect, closed, faults, extras>>

\* One unit of umm_write
umm_write(t) ==
  LET i == io[t] IN
  /\ i.op = "write"
  /\ data' = [data EXCEPT ![AddressOf(i.block, i.pos)] = t]
  /\ held' = [held EXCEPT ![i.block][i.pos] = t]
  /\ io' = [io EXCEPT ![t] = Advance(i)]
  /\ UNCHANGED <<chunks, reg, pool, nextId, suspect, closed, faults, extras>>

\* read(block) up to the transport; umm_read refuses a length of zero.
ReadBegin(t, b) ==
  /\ MayUse(t, b) /\ b.size > 0
  /\ extras < MaxExtras /\ extras' = extras + 1
  /\ io' = [io EXCEPT ![t] = [op |-> "read", block |-> b, pos |-> 0, got |-> << >>]]
  /\ UNCHANGED <<chunks, reg, pool, data, nextId, held, suspect, closed, faults>>

\* One unit of umm_read
umm_read(t) ==
  LET i == io[t] IN
  /\ i.op = "read" /\ i.pos < i.block.size
  /\ io' = [io EXCEPT ![t] = Advance([i EXCEPT !.got = Append(@, data[AddressOf(i.block, i.pos)])])]
  /\ UNCHANGED <<chunks, reg, pool, data, nextId, held, suspect, closed, faults, extras>>

ReadEnd(t) ==
  /\ io[t].op = "read" /\ io[t].pos = io[t].block.size
  /\ io' = [io EXCEPT ![t] = NoIO]
  /\ UNCHANGED <<chunks, reg, pool, data, nextId, held, suspect, closed, faults, extras>>

Next ==
  \/ \E n \in 0 .. MaxIds : Close(n)
  \/ \E t \in Threads :
       \/ \E r \in Requests : AllocHere(t, r) \/ AllocNew(t, r) \/ AllocExhausted(t, r)
       \/ \E p \in Prealloc : \E n \in 1 .. p.count : Preallocate(t, p, n)
       \/ \E b \in DOMAIN held : \/ FreeKeeps(t, b) \/ FreeReturns(t, b) \/ FreeUnknown(t, b)
                                 \/ ReadBegin(t, b)
                                 \/ \E from \in 0 .. b.size - 1 : WriteBegin(t, b, from)
       \/ umm_write(t) \/ umm_read(t) \/ ReadEnd(t)

Spec == Init /\ [][Next]_vars
-------------------------------------------------------------------------------
Units(off, size) == off .. off + size - 1

BlocksOf(c) == {b \in DOMAIN held : b.cid = c}

\* The blocks handed out from a chunk and the gaps of its free list share no
\* unit and together are the chunk: alloc, the merging in free and the reuse
\* of gaps never hand a unit out twice and never lose one.
BlocksAndGapsPartition ==
  \A c \in DOMAIN chunks :
    LET gaps == chunks[c].free_list
        gap(i) == Units(gaps[i][1], gaps[i][2])
        blk(b) == Units(b.off, b.size)
    IN /\ \A b, d \in BlocksOf(c) : b # d => blk(b) \cap blk(d) = {}
       /\ \A i, j \in DOMAIN gaps : i # j => gap(i) \cap gap(j) = {}
       /\ \A b \in BlocksOf(c), i \in DOMAIN gaps : blk(b) \cap gap(i) = {}
       /\ UNION {blk(b) : b \in BlocksOf(c)} \cup UNION {gap(i) : i \in DOMAIN gaps}
            = 0 .. chunks[c].total - 1

\* The allocator and UMM agree on the chunks: umms keeps no memory the allocator
\* has forgotten, a block lies on the device it was asked for, and what a chunk
\* covers is allocated and in no other chunk, except at addresses that a call
\* which raised had given back.
ChunksAgree ==
  LET mem(c) == ChunkMemory(chunks[c]) IN
  /\ pool \subseteq UNION {mem(c) : c \in DOMAIN chunks}
  /\ \A c \in DOMAIN chunks : mem(c) \ suspect \subseteq pool
  /\ \A c, d \in DOMAIN chunks : c # d => mem(c) \cap mem(d) \subseteq suspect
  /\ \A b \in DOMAIN held, u \in 0 .. SsdSize :
       u < b.size => AddressOf(b, u)[2] \in Window(b.gpa[1], b.device)

\* Free lists, blocks and the memory of UMM agree after any calls of any
\* threads, also those that raised half way.
PoolConsistent == BlocksAndGapsPartition /\ ChunksAgree

\* A free() that leaves no block of at least one unit in a chunk returns the
\* chunk to UMM, unless delete_chunk fails or UMM no longer has the chunk, or a
\* gap of size zero, the trace of an empty block, is left in the free list.
ReturnsIdleChunks ==
  [][\A b \in DOMAIN held :
       (b \notin DOMAIN held' /\ b.cid \in DOMAIN chunks' /\ ~closed' /\ faults' = faults
          /\ b.cid \in DOMAIN reg /\ ChunkMemory(chunks[b.cid]) \subseteq pool
          /\ \A d \in DOMAIN held' : d.cid # b.cid)
       => \E i \in DOMAIN chunks'[b.cid].free_list : chunks'[b.cid].free_list[i][2] = 0]_vars

\* What a read delivers is what the holder of the block found or wrote there,
\* whatever other threads allocate, free, write or close between its units: no
\* write reaches the block of another caller.  Addresses that a call which
\* raised had given back are excepted.
ReadsOwnData ==
  \A t \in Threads : io[t].op = "read" =>
    \A u \in DOMAIN io[t].got :
      AddressOf(io[t].block, u - 1) \notin suspect => io[t].got[u] = held[io[t].block][u - 1]

\* ReadsOwnData without the exception: a caller always reads its own data.
AlwaysOwnData ==
  \A t \in Threads : io[t].op = "read" =>
    \A u \in DOMAIN io[t].got : io[t].got[u] = held[io[t].block][u - 1]
===============================================================================
