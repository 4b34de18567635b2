# UMM: TLA+ models, checks and proofs

UMM is a unified memory pool. Memory servers (`umms`) manage DRAM, CXL and SSD
tiers, a metadata server (`ummd`) names the chunks, and clients allocate, read,
write and free chunks through a C library (`umm/src/client_lib`) or the Python
package `bmpclient` on top of it. Around it the repository keeps experiments on
shared disks, replay benchmarks and a study of attention traces. This directory
holds TLA+ models of the parts whose correctness depends on state kept over many
calls, on the interleaving of threads and processes, or on lost calls and crashes.
TLC checks small instances of all of them; TLAPS proves, for every size, the page
allocator with its search loops, the SSD pool, the chunks of the clients with
remote I/O on them, the segment manager, the sparse KV store and the order in which
the I/O engine executes requests.

Paths below are relative to `src/`.

## 1. The parts of the system

| Part | Source | State and concurrency | Module |
|---|---|---|---|
| Bitmap page allocator | `umm/src/common/bitmap_allocator.c` | bitmap + counter under one mutex | `BitmapAllocator`, `AllocSearch` |
| Free-run searches | the same file, `umm/src/transport/ssd_pool.c` | loops over a bitmap | `FreeRunSearch` |
| SSD pool (space, placement) | `umm/src/transport/ssd_pool.c` | devices, windows, bitmap under one lock | `SsdPool` |
| Name table | `umm/src/metadata_service/meta_hash_table.c` | Robin Hood table with tombstones | `RobinHood` |
| Chunk directory of `ummd` | `umm/src/metadata_service/meta_service_direct.c` | chunk array + name table under one lock | `MetaService` |
| Allocation and release by clients | `umm/src/client_lib/umm_api.c`, both RPC clients and servers | several processes, two servers, calls that get lost | `ChunkLifecycle` |
| Remote transport | `umm/src/transport/transport_remote.c`, data requests of `mem_service_rpc_server.c` | connections, pieces, one retry, late execution | `RemoteTransport` |
| Server framework | `umm/src/server/mem_server.c`, `meta_server.c` | accept thread, handler threads, stop | `RpcServer` |
| Concurrent I/O engine | `bmpclient/concurrent_io.py` | submitters, executors, semaphore, callbacks, close | `ConcurrentIO` |
| Segment manager | `bmpclient/_vm_segment.py` | write buffer, reference counts under one lock | `SegmentOps`, `VmSegment` |
| Virtual media, sparse KV store | `bmpclient/virtual_media*.py`, `bmpclient/sparse_kv/` | slot table read without locks, cache, segment managers | `SparseKV`, `PositionHash` |
| Sub-allocator of chunks | `bmpclient/allocator.py` | free lists, threads that read without the lock | `FineGrainedAllocator` |
| Shared-disk experiments | `bmpclient/scripts/demo_shared_pool.py`, `simulate_*.py` | processes on several nodes, page caches, marker files | `SharedPool` |
| Replay benchmarks | `bmpclient/bench/`, `scripts/export_hbm_miss_traces.py`, `bench_hbm_misses.py` | stores, extents, reading threads, I/O errors | `ReplayTrace`, `LayoutReplay`, `SingleSsd`, `ReplayBench` |
| Quality study | `scripts/quality/` | result files appended over several runs | `QualityStudy`, `TraceCollection` |
| Trace collection | `scripts/quality/run_quality_collection.py`, `scripts/dsa_hook/dsa_dump_hook.py` | runner, model server, ranks, marker file | `TraceCollection` |
| Export and PPA oracle | `scripts/export_ppa_candidates.py`, `mqsim_ppa_oracle.py`, `ppa_selection.py` | report on disk, kill and resume | `PpaSelection`, `PpaOracle` |

How they interact: `umm_alloc` asks `umms` for memory (`BitmapAllocator` for
DRAM and CXL, `SsdPool` for SSDs), then registers a chunk with `ummd`
(`MetaService` over `RobinHood`); `umm_free` does the reverse. Both are remote
calls that the servers of `RpcServer` execute; data on another node's SSD goes
through `RemoteTransport`. In a Python client the I/O engine (`ConcurrentIO`) runs
reads and writes on chunks, `FineGrainedAllocator` cuts chunks into blocks, and
`SparseKV` keeps one large chunk per SSD, packs units into it with a segment
manager and remembers where they are in a slot table. The benchmarks replay
traces on such stores; the traces come from the collection, through the exporters.

`PROJECT.json` lists for every definition the lines it models, and for every
hazard of the code the line where it bites and the properties that cover it.

## 2. Modules

**`FirstFit`** – `RunAt` and `FirstFitFrom`: what "the first run of n free pages
in a window" means. The reference for both search loops.

**`PageAllocator`** – abstract specification of every page allocator: an extent
is a non-empty run of existing pages that no other extent shares, it is given
back whole, and the set of pages only grows.

**`BitmapAllocator`** – `bitmap` is the set of 1 bits (free pages),
`free_pages` the counter kept beside it, `live` the extents callers hold (a
history variable), `ret` the last result. Actions: `ba_alloc_ok`,
`ba_alloc_fail`, `ba_alloc_zero` (the outcomes of `ba_alloc`), `FreeHeld` (a
holder frees) and `FreeStray` (a free repeated, empty, out of range, or reaching
a page nobody holds). A free of pages that are all held, but by somebody else or
as part of a larger extent, breaks the contract of the header; the code cannot
tell and carries it out, and neither allocator model tries it. Rounding to pages
is done modulo `WordSize`, which stands for 2^64.

**`FreeRunSearch`** – `find_free_run` and `bm_find_free`, one step per iteration
of the outer loop, side by side on the same bitmap, start and request.
**`AllocSearch`** – `ba_alloc` with that loop under its lock: take the lock, leave
early or search, mark the run, unlock. It implements `BitmapAllocator`.

**`SsdPool`** – `devices` with their windows, `total_capacity`, `total_pages`,
`free_pages`, `bitmap` (here 1 = allocated, as in that file), `live`, `ret`.
Actions: `ssd_pool_add_device` (succeeding, refused because the table is full or
the backend does not open, or rolled back after the entry was filled in because
there is no memory for the larger bitmap), `ssd_pool_alloc`, `ssd_pool_alloc_on_device`, `ssd_pool_free` by holders and
strays. `ssd_pool_translate` and `ssd_pool_span_in_one_device` are operators.

**`RobinHood`** – the hash table as operators on a record: insertion with
displacement, tombstones, early exit of the searches, growth, out of memory.
Hash values are a constant. **`NameMap`** is the map the directory promises;
**`MetaService`** has `chunk_table`, `chunks`, `chunk_capacity` and one action per
`impl_*` function, with the out-of-memory paths as actions of their own.

**`ChunkLifecycle`** – `mem` (pages allocated at `umms`), `reg` (chunks
registered at `ummd`), `held` (descriptors of the clients), `cl` (where a client
is in a call), `late` (requests whose client has stopped waiting). A connection
may break at every call: the client sees an error and its request is executed at
any later time, or never. Clients crash.

**`RemoteTransport`** – extends `ChunkLifecycle` with reads and writes of held SSD
pages: `io` (where a client is in `remote_io`), `sock` (its connection, `stale`
when the server has closed it), `data` (contents) and the history `stored` (what
successful writes have put there). Pieces of a write whose connection broke join
`late`. The server answers a failing device with `UMM_E_IO` (`PieceFails`), which is
the same number as the transport error (`umm.h:78`) and is retried like one; without
memory for a piece it answers with another status (`PieceRefused`), which ends the I/O.

**`RpcServer`** – accept thread, slot table (`active`, `thread_count`), handlers
(`check`, `recv`, `serve`), stop, and connections that are made, used, left and
abandoned in the backlog. `MemServer` selects the two steps in which the servers
differ.

**`ConcurrentIO`** – each action is a stretch of Python between two operations
on a lock, semaphore, queue or event. Submitters go through `Begin`, `Acquire`
(one permit per request), `CountIn`, `Schedule` (one group to one executor),
`FailRelease`, `FailUncount`, `FailOne` and `FailedGroup` (the executor was shut
down: permit, counters and result of each item in turn) and `Return`; workers
through `Take`, `Execute`, `CountOut`, `Release`, `SetResults`, `Fire`; one
thread calls `wait_any` (`AddCallback` … `ClearEvent`), one may call `close`
(`Close`, `Shutdown`, `Join`). `ThreadPoolExecutor` (`Take`, `Join`) is outside
the repository and modelled from its use.

**`SegmentOps`** – one `DeviceSegmentManager` as operators on a record;
**`VmSegment`** says what a manager and its callers do together: append, flush,
release, and writes that fail, as a relation between a manager with the units its
callers hold and the next ones. It has no variables of its own, so that a store with
several managers can say of each that it makes such steps. Offsets count units.

**`SparseKV`** – store, slot table, cache, one segment manager per device; a
writer, a flusher, readers (`plan`, `fetch`, `prefetch`) and releasers. A step is
what one lock, or one unlocked access, makes atomic: `plan` gathers entries one
by one, tests `is_buffered` and reads the buffer in separate steps, and after each
token writes its entry of the one descriptor buffer (`desc`) and, for a buffered unit,
of the one staging buffer (`staging`); the GPU loads what these say when the plan is
settled. Callers keep the three rules the code states (a key is offloaded once,
`slot_table.py:17`; a key in use is not released, `store.py:23`; the buffers are at
fixed addresses and written again by every decode step, `store.py:18`, so there is one
plan at a time until the GPU is done) and one it needs: two threads do not release the
same key at a time (section 6).
`RefinesSegments` says that each device behaves as `VmSegment`. **`PositionHash`**
is the strategy that maps a key to its device.

**`FineGrainedAllocator`** – chunks with their sorted free lists; `alloc`, `free`,
`preallocate_chunks` and `close` are one step each, as they hold the lock; `read`
and `write` hold none and move the data unit by unit. A block carries the address of
its chunk, and reads and writes go there without a look-up, so memory is modelled by
address: what `umms` has allocated (`pool`), what `ummd` has registered (`reg`) and
what is stored (`data`) are apart from each other and from `chunks`. `delete_chunk`
may raise with the chunk still registered, or unregistered, or freed as well; the
allocator keeps it in any case.

**`SharedPool`** – the client programs of the experiments are sequences of steps
(`scenario_s5_writer` …), the orchestrators start, wait, time out and kill; nodes
have page caches over shared SSDs, written back by `flush` or at any time by the
kernel, dropped by `invalidate`. Any call may fail.

**`PpaSelection`** – the batch LRU, the load objective and the greedy exchange as
operators. **`TraceCollection`** – the runner (retry, rerun, interrupt, marker
file) against a model server whose ranks run the hook at every layer of every
step. **`PpaOracle`** extends it: export of the dumps, planning, simulation, the
report written after each case, kill and resume.

**`ReplayTrace`** – records, conversion, capacities. **`LayoutReplay`** and
**`SingleSsd`** – the two benchmarks, with the stores, extents, threads and
buffers they use and every path an I/O error takes. **`QualityStudy`** – convert,
sample, collect twice, analyse, reconcile. **`ReplayBench`** composes them: each
behaviour is one job, and the HBM job runs `LayoutReplay` on exported traces.

## 3. Runs

`tlc -workers 2 -config <run>.cfg <module>`; each takes between a few seconds and
two minutes.

| Run (module) | Instance | What it shows |
|---|---|---|
| `bitmap_allocator` (`MCBitmapAllocator`) | 6 pages of 2 bytes, bitmap bytes of 4 bits, requests of 0, 1, 4, 5, 20 bytes | Both loops return the first fit of every bitmap that calls can produce (`SearchesFirstFit`); bitmap, counter and extents agree also after refused frees, and a grant covers its request (`GrantsSound`); `NO_MEMORY` only when nothing fits (`AllocComplete`); the loop under its lock implements the atomic allocator (`RefinesBitmapAllocator`) |
| `ssd_pool` (`MCSsdPool`) | up to 3 devices of 1 or 2 pages, 4 pages in all | Adding devices moves nothing (`TranslationStable`); extents lie on the device asked for, the fast-path test is sound, the counter exact (`ExtentsSound`); `AllocComplete`; implements `PageAllocator` |
| `meta_service` (`MCMetaService`) | 4 names with overlapping probe paths that wrap, 4 to 8 slots, 6 ids | Probe paths stay whole and no entry is lost (`SearchesSound`); array and name table agree after every call, failing ones included (`NamesAgree`); the directory implements `NameMap` until a reused tombstone has cut a search short (`IsNameMap`) |
| `concurrent_io` (`MCConcurrentIO`) | 2 submitters, 2 queues, limit 3, `wait_any` on both handles, `close` at any time | No permit is lost and a done handle has every result (`BooksBalance`); requests on a chunk keep their order; every batch, `close` and `wait_any` end |
| `sparse_kv` (`MCSparseKV`) | 2 devices of one segment of 2 units, 4 keys; writer, flusher, reader, releaser; buffers of 2 entries | Published entries lead to their units; `plan`, `fetch` and `prefetch` deliver the right units, through the shared descriptor and staging buffers, whatever flush or release comes between; each device implements `VmSegment` |
| `chunk_lifecycle` (`MCChunkLifecycle`) | 2 clients, 2 tiers of one page, pages of 2 pieces, 3 ids, 2 faults | No page held twice, held chunks allocated and registered, under lost and late calls and crashes (`HoldingsSound`); acknowledged writes stay and are read, and an I/O fails only if something broke during it (`RemoteIOSound`); without faults no name clash and no leak (`NothingLeaks`) |
| `rpc_server` (`RpcServer`) | 3 connections, 2 handler threads, `umms` | No thread survives `stop`; `stop` returns once the clients have closed |
| `fine_grained_allocator` (`MCFineGrainedAllocator`) | 2 threads, 2 units of DRAM, 2 SSDs of 2 units, chunks of 1 or 2 units and pre-allocated ones of 3 across both SSDs, 3 blocks at a time, one failing `delete_chunk`, 2 reads, writes or empty blocks | Blocks and gaps partition every chunk, and chunks and servers agree (`PoolConsistent`); reads return the holder's data except in memory a raising call gave back (`ReadsOwnData`); a chunk goes back with its last block (`ReturnsIdleChunks`) |
| `shared_pool` (`SharedPool`) | 2 SSDs of 2 pieces, chunks of one piece in S1, shares of two in S5 and S6, experiments S1/S3/S4, S5, S6, one failing call | Readers see flushed writes; what two nodes write never meets; nothing is released under a reader; everybody ends (`AllEnd`) |
| `layout_replay` (`MCReplayBench`) | the jobs of `MCReplayBench`: 2 requests, 2 layers, 2 devices, segments of 2 and 3 rows, one I/O error at any call | Capacities computed in advance suffice and no self-check fires without an error (`OnlyFaultsFail`); extents come back on every path; no thread outlives its buffers; larger caches contain smaller ones (`CachesNested`); the quality tools agree on which answers they compare; the sample is fair |
| `ppa_oracle` (`MCPpaOracle`) | 2 examples, 2 layers, 3 steps, 2 ranks, one fault and one kill | A trace collected at the first try replays (`FirstTryReplays`); answers are recorded once; every listed case is backed by its files; a resume keeps what is in its scope (`ProgressKept`) |
| `meta_service_duplicate` (`MCMetaService`) | as `meta_service`, 7 ids | **Violated**: a registered name is registered again |

### Why the bounds are enough

- Six pages in bytes of four bits give a whole byte and a partial one, two
  separated holes and an extent between them; the requests cover zero, part of a
  page, whole pages, a byte's worth and more than the arena. The proofs remove
  the bound.
- Three devices give a first, a middle and a last window; capacities of 0, 1 and
  4 bytes give a refused device, a rounded one and one of two pages.
- The table grows when entries and tombstones reach seven tenths: four slots hold
  two, the third insertion makes eight. So displacement, tombstone reuse,
  wrap-around and growth all occur with four names.
- The batches `<<0,1>>` and `<<0,0>>` share a chunk, use both queues and need
  four permits of three, so submitters block and one of them can always go on
  (section 6 shows a limit of two).
- One segment per device makes every flush or release recycle what readers may
  still point to; three keys share a device, so one is refused or takes a recycled
  segment. The batch of two keys is on both devices, and fills the buffers.
- Three blocks in two chunks give one that is split and one that is whole, and a gap
  between blocks; two ids let a chunk be created in the memory of another one.
- Two clients and one page per tier make every page contested; two faults allow a
  lost call followed by another or by a crash, or a failed write followed by a
  lost one; two pieces allow a break between them.
- Three connections for two threads reach a full table.
- A share of two pieces on SSDs of two may lie across both devices; S5 and S6 have
  one writer and one reader by construction.
- The replay jobs are listed in `MCReplayBench`: padding, segments that do not
  divide each other, a record that adds no row, repeated tokens, every option
  check, windows that are too small, every layout and both placements.
- A cache of three rows with sets of two evicts at the third step; one example
  outgrows the prepared mapping, so applied and native steps mix.
- Named bounds: `MaxIds`, `MaxBlocks`, `MaxExtras`, `MaxCap`, `MaxRefs`, `MaxBytes`, `MaxWrites`,
  `MaxEmpties` on growth; `MaxFaults`, `MaxIOFaults`, `MaxCrashes`, `MaxReruns` on
  faults.

`chunk_lifecycle` uses the symmetry of its two clients, which are of the same
node, and of the two contents; `fine_grained_allocator` that of its threads. Both
check no liveness.

Deadlock is checked except where the system really stops: ids used up, all
batches done and the engine closed, a server stopped, an experiment ended.

## 4. Fairness

- `ConcurrentIO!FairSpec`: weak fairness of each submitter, worker, the thread in
  `wait_any` and the one in `close()`: operating-system threads that can run are
  run. Calling `close()` is not fair; nothing strong is assumed of the semaphore.
- `RpcServer!FairSpec`: weak fairness of the accept thread, of each handler's own
  steps and of `stop`. Clients connect and send as they like. With
  `ClientsLeave` each closes its connection at some time, an assumption about
  clients that `StopReturns` needs (section 6).
- `SharedPool!Spec`: weak fairness of `Work`, all steps of the programs together:
  while some process can take a step, one does. Every wait of these programs has a
  deadline. The kernel's writeback and eviction are not fair.

The other specifications state safety and assume no fairness.

## 5. Proofs

`tlapm <module>` checks each of these.

**`BitmapAllocatorProofs`** – first what a first fit is (a result below the end of
the window is a free run, no result means that no run exists; both rest on the
well-foundedness of `Nat`), then the atomic allocator, for every arena, page size and
set of requests:

| Theorem | States |
|---|---|
| `TypeCorrect`, `ExclusiveGrants`, `PagesAccounted`, `CounterIsExact` | `TypeOK`, `Exclusive`, `Accounted`, `CounterExact` always hold |
| `GrantsAreSound` | all of them, and a grant has room for the bytes asked, if no request lies within a page of 2^64 |
| `AllocIsComplete` | `NO_MEMORY` only when no run fits |
| `HeldIsFreeable` | `ba_free` never refuses the holder of an extent |
| `GrantsInArena` | a grant lies in the arena, if that is a whole number of pages |
| `Refinement` | the allocator implements `PageAllocator` (no request within a page of 2^64) |

The inductive invariant is `IInv == TypeOK /\ Exclusive /\ Accounted /\
CounterExact`. None of the last three is inductive without the others: a free
returns pages to the bitmap, and only because extents are exclusive do the
remaining ones still account for the rest; the counter moves by the length of the
extent, which is the change of the bitmap's size only because all its pages were
allocated. `StrayRefused` shows that `ba_free` refuses every stray free.

Then the loops: for every number of pages, byte width, bitmap, start and request,
`find_free_run` and `bm_find_free` return the first fit (`FindFreeRunCorrect`,
`BmFindFreeCorrect`). The inductive invariant `SInv` adds the loop invariants:
`FindInv`, no run starts before the cursor, which is what makes skipping past the
page that broke a run right; `BmInv`, the last `consecutive` pages are free, too
few, and no run starts before them. The results alone are not inductive, as they
say nothing while a loop runs.

Last, the allocator with its loop implements the atomic one (`LoopRefinement`), so
what is proved of that holds of the code's steps: `LoopGrantsSound`,
`LoopAllocComplete`, and `LoopRefinesPages`, the end of the chain loop ⇒ atomic
allocator ⇒ `PageAllocator`. The inductive invariant `AInv` joins `IInv` and `SInv`
and says that the loop runs on the current bitmap for the request of the lock's
holder; `LeaveIsCall` is the step where the loop's result is marked, and needs that
it is the first fit. `SearchesCorrect` carries the two search theorems into any
history of calls.

**`SsdPoolProofs`** – the SSD pool, for any number and capacity of devices. All four
properties of the run are theorems: `PoolExtentsSound`, `PoolTranslationStable`,
`PoolAllocComplete` and `PoolRefinesPageAllocator`. The inductive invariant has
three parts. `WindowsSound`: the windows are whole pages and follow each other up to
`total_pages`, so adding a device only appends. `BitsSound`: the bits set are exactly
the pages of the extents, which are disjoint, and an extent asked of a device lies in
its window. `CounterExact`. That an extent stays on its device needs that windows
never overlap; that a free takes away nobody else's bits needs the exact bitmap, and
so does the counter. `TranslationStable` follows from the windows alone: a page below
the old end is translated through windows that an added device does not move.

**`ChunkLifecycleProofs`** and **`RemoteTransportProofs`** – the life of chunks and
remote I/O on them, for any number of clients, pages, contents, pieces and faults.
`LifecycleHoldingsSound` and `LifecycleNothingLeaks`, in the first module, are about
`ChunkLifecycle` alone; `RemoteTransportSound`, `RemoteHoldingsSound` and
`RemoteNothingLeaks`, in the second, about the composition. `HoldingsSound`
is not inductive, because a late free or unregister may still arrive: the
invariant `LInv` speaks of claims. A page may be claimed by a descriptor, by a call
under way or by a free that has not arrived; no page has two claims, and a claimed
page is allocated; the ids of late unregisters are of chunks nobody holds
(`HeldClaims`, `BusyClaims`, `FreeClaims`, `IdsSound`). `Accounted` adds, while
nothing is lost, that every page and registration has its claimant. On top of it
`TInv` follows each I/O (`Session`): it is on a page its client holds, the pieces of
the current attempt are on the page unless a late write ran over them, and a second
attempt does not start on a connection the server has closed unless something broke
again. That makes an acknowledgement true and a failure deserved.

**`VmSegmentProofs`** – one segment manager, for every number of segments, slots and
contents. Lemmas say what each operation does to `Good(m, L)`: the manager `m` serves
the held units `L`. `SegmentsSound` concludes that any variables `m` and `L` that start
and step as `VmSegment` says keep four properties: reference counts are the numbers of
held units (`RefcountExact`), no segment is lost, freed twice or freed with units in it
(`SegmentsPartitioned`), a held unit reads back as appended, from the buffer or the
device (`UnitsReadable`), and no segment is filled past its end (`BufferFits`). `Good`
says more than these: held units of the open segment lie in the filled part of the
buffer, no two share an offset, and the free stack holds exactly the closed segments
without units: a new unit must not take the slot of a held one, and the counts and the
stack support each other.

**`SparseKVStoreProofs`** and **`SparseKVProofs`** – the store, for any number of
devices, keys, readers and releasers and every segment geometry. All properties of
the run are theorems. The first module is about the writer, the slot table and the
releasers. Its inductive invariant `StoreInv` (`StoreInvariant`): every manager is
`Good` for the units the store accounts for (`UnitsOf`), and a key is in one place:
with the writer, in the slot table, or with one releaser, which is where a unit could
be released twice or lost between two steps. So the properties of a manager hold of
every device (`StoreSegmentsSound`), and `StoreEntriesReadable` follows; the bit layout
of an entry is part of it (`EntryPacked`). The second module adds the readers.
`ReadInv` (`ReaderInvariant`) is inductive given `StoreInv`: the valid entries a
reader has gathered are still the table's, what it copied is its unit, and what it
left for the device has been written and stays there (`StaysOnDevice`: the segment of
a held unit is never on the free stack, so no new buffer covers it). `BufferInv`
(`BufferInvariant`) says that there is one plan at a time and that the entries of the
two shared buffers up to its position are what it has decided.
`StoreReadersServed` follows from the three. `StoreRefinesSegments` goes step by step: whatever a
thread does is on every device a step of `VmSegment` or nothing, so the theorems about
that hold of each device.

**`ConcurrentIOProofs`** – the I/O engine, for any number of threads, batches, queues
and permits: `EngineFifoPerChunk`, the requests on a chunk are executed in the order
of submission. `FifoPerChunk` speaks of executed requests only; the inductive
invariant `LineInv` speaks of the whole line of a queue: what was executed, the task
its one worker runs, and what is queued. A task in the line `Follows` those ahead of
it: it is another one, and its submit had not returned when theirs began
(`QueueSound`, `RunSound`, `Behind`). A task that joins the line was never started
(`NextKeyFresh`), and what comes before a batch has returned (`BeforeSound`), so it
may stand at the end; the worker takes from the front and runs the items of a task in
order. With one queue, that is a shared pool, the engine promises no order and the
theorem is empty.

Assumptions: `BAConstants` (page size positive, arena at least one page, which
`ba_create` enforces; rounding the arena does not wrap; requests are 64-bit),
`SearchConstants`, `SameBitmap` (the loop runs over the allocator's pages),
`PoolConstants` (the capacities together stay below 2^64), `LifecycleConstants`,
`TransportConstants` (a page has a piece; the two marks of the history `stored` are not
contents), `EngineConstants` (every thread that submits has a batch), `GeometryConstants` and `KVConstants` (the checks of
`PositionHashStrategy`; a batch is of one layer and names no token twice). `NoWrap` (no
request within a page of 2^64) is a hypothesis of the theorems that need it, and
section 6 shows it is necessary. Bounds such as `MaxIds`, `MaxFaults` or `MaxDevices`
are arbitrary numbers in the proofs.

TLC confirms each inductive invariant on the instance of its run (in the pool with
`Nat` cut to `0 .. 64`; `StoreInv` and `ReadInv` also with two releasers).

Only model-checked: every liveness property (fairness is out of the prover's
reach); the hash table, directory, sub-allocator and selection algorithms, whose
operators are recursive or folds over sequences (`MetaService`,
`FineGrainedAllocator`, `PpaSelection` and the modules over it); the books of
`ConcurrentIO` (`BooksBalance`); `RpcServer`, `SharedPool` and the modules of the
benchmarks and of the trace study.

## 6. Where code and comments disagree

The first is a run of `PROJECT.json` and a finding there. The others are
reproduced by a configuration of this directory, or by a listed one with the
change given; expect a violation of the property named.

| Configuration | Property | What happens |
|---|---|---|
| `meta_service_duplicate` | `UniqueNames` | `mht_lookup` stops early at an entry closer to its slot (`meta_hash_table.c:301`). `mht_insert` reuses the first tombstone without keeping that order, so after a removal a present name is not found and is registered again. `meta_service_direct.c:5`: "Every chunk has a unique name" |
| `bitmap_allocator`, `Requests <- MCWrapRequests` | `CoversRequest` | A byte count within a page of 2^64 rounds to zero pages and is granted (`bitmap_allocator.c:151`); the header promises "contiguous pages covering at least num_bytes" |
| `bitmap_allocator`, `TotalBytes = 5`, `NumPages = 3`, `Requests = {2, 6}` | `InArena` | The number of pages is rounded up (`bitmap_allocator.c:113`), so the last page of an arena that is not a multiple of the page size reaches past it |
| `meta_service` | `IdsInArray` | `next_chunk_id` is advanced before the array grows and stays advanced when growing fails (`meta_service_direct.c:105`); a listing then looks past the array |
| `concurrent_io_blocked` | `BlockedSubmitResumes` | `_submit` takes the permits of a whole batch before it starts any request (`concurrent_io.py:387`); two batches that each hold part of the permits, or one larger than the limit, block for ever |
| `sparse_kv`, `Releasers = {r1, r2}`, `ReleaseGet` without `~Releasing(k)` | `EntriesReadable` | `release` tests and clears an entry without a lock (`store.py:255`); two calls for one key release its unit twice. `DESIGN.md:15` says that all changes of state are locked |
| `chunk_lifecycle` | `AvailableAfterRollback` | A registration that `ummd` executed but did not answer is rolled back at `umms` only (`umm_api.c:866`); the name stays taken and refuses the next owner of the page |
| `chunk_lifecycle`, `MaxFaults = 1`, no symmetry | `WritesInOrder` | The empty `remote_fence` says "synchronous I/O is not reordered" (`transport_remote.c:384`). A write whose connection broke is sent again (line 313) while the handler of the old connection may still execute it, after later writes, or after the page has a new owner |
| `chunk_lifecycle` | `StatusPassedOn` | The comment at `transport_remote.c:7` says that an error status is passed on at once and not retried. A failing device is answered with `UMM_E_IO`, which `umm.h:78` defines to be `UMM_E_TRANSPORT_ERROR`, so it closes the connection and the I/O is sent again |
| `sparse_kv`, `Readers = {t1, t2}`, a second batch `<< <<0, 0>> >>`, `MayPlan` without its second conjunct | `ReadersServed` | Every `plan` writes the same descriptor and staging buffers and holds no lock (`store.py:186`); a second plan before the GPU has loaded replaces the entries of the first. `DESIGN.md:15` says that several threads may use the library at a time |
| `fine_grained_allocator` | `AlwaysOwnData` | A `delete_chunk` that raises after the memory was freed leaves the chunk in the allocator (`allocator.py:174`, and the same in `close`); the next allocation from it shares its memory with whoever `umms` has given it to |
| `rpc_server` | `RefusedOnlyWhenBusy` | A handler that ends keeps its slot until `stop` (`mem_server.c:500`), so 64 is the number of connections in the server's life, not of "concurrent client threads" (`mem_server.c:4`) |
| `rpc_server`, `MemServer = FALSE` | `StopReturns` | `meta_server_stop` closes the listening socket without shutting it down (`meta_server.c:299`) and joins an accept thread that stays blocked |
| `rpc_server`, `ClientsLeave = FALSE` | `StopReturns` | `mem_server_stop` joins handlers that wait for a client that stays connected and silent (`mem_server.c:498`) |
| `rpc_server` | `ErrorsKeepConnection` | A data write that fails is answered, and then the handler ends (`mem_service_rpc_server.c:313`); the comment at line 293 says that the connection stays usable |
| `ppa_oracle`, `MaxFaults = 2`, `MaxCrashes = 0` | `OwnDirectory` | No entry of `_state['last_seq']` is ever set, so the marker is read at every dump and a late dump of an abandoned request goes to the next sample's directory, which the comment at `dsa_dump_hook.py:444` says cannot happen |
| `ppa_oracle`, `MaxSteps = 1` | `FallBackTogether` | The dump rank alone counts dumps against the step limit (`dsa_dump_hook.py:416`) and leaves before the broadcast the other ranks wait in; the docstring at line 309 says "every rank falls back together". The same check comes before the marker is read, so after the limit no later sample rotates |

Met while translating, and modelled as the code does it:

- `match_answer` normalises, and so lower-cases, an answer before `extract_option`
  looks for "a leading uppercase letter" (`quality/common.py:71`, `:94`).
- `analyze_quality.py` keeps the first good row of an example, `reconcile_swaps.py`
  the last; `ToolsAgree` shows that this makes no difference for files the runner
  writes.
- `find_gold_token_ids` collects vocabulary ids, which are then intersected with
  positions (`reconcile_swaps.py:37`, `:73`). The model leaves these statistics out.
- The oracle with `--resume --prepare-only` saves an empty list of results over
  the saved ones (`mqsim_ppa_oracle.py:383`), before the copy of line 395 is made;
  `ProgressKept` is stated for the other resumes. Killed before the mapping was
  saved, a run cannot be resumed. `--applied` with other capacities than the
  collection's is refused as soon as the caches differ.
- `layout_replay.py` does not require segments to divide the largest one, as
  `single_ssd.py:362` does; such a run fails when a store is opened
  (`_vm_segment.py:57`). `OnlyFaultsFail` names this case.
- In `SharedPool` dirty pages of freed chunks may be written back later by the
  node of the previous owner; the experiments keep their chunks where it matters.

## 7. Abstractions

- Calls made under one lock are one action, except `ba_alloc`, whose loop
  `AllocSearch` shows may be one. Where code drops a lock or uses none, the steps
  are separate actions.
- Chunk names are what tells them apart: tier, node and offset. Hash values,
  payloads, units and connections are constants or model values. A unit's content
  is the key it was written for; a row of a benchmark is its number.
- In `ChunkLifecycle` a chunk is one page, as the allocators have modules of their
  own; the name table is a set, that is, a table whose lookups find what is there.
  Section 6 shows where the real table does not.
- In `RemoteTransport` there is one server, and a client has one thread: a lock
  makes the remote I/O of a process one sequence. A late read changes nothing and
  is not kept.
- `IsNameMap` is stated for histories in which no search was cut short; the run
  `meta_service_duplicate` shows the other ones.
- `ReadersSeeWrites` and `PatternsSurvive` exempt histories in which a flush
  failed, as `umm_fence` does not report it.
- `shared_pool` runs the experiments that share chunks; the hybrid one is explored
  by the same file with `Exps = {"hybrid"}` and only its invariants.
- `invalidate_chunk` of `SharedPool` drops cached pages, as the comment of
  `ssd_backend_invalidate` (`ssd_pool.c:486`) says of `msync(MS_INVALIDATE)`. What the
  kernel really does with a shared mapping is outside the repository;
  `ReadersSeeWrites` rests on that comment.
- `SsdPool` knows a device by the capacity it was opened with. How a backend finds it
  (size of a file, probing of a block device or of libnvm) is not modelled.
- The rows `sample_dataset.py` reads are distinct, as `SampleFair` says that none is
  drawn twice; the script does not test for equal rows in its input.
- Timeouts of `wait` and `wait_any` leave a loop early and change nothing.
- Logging, timing, statistics and wording are left out.

## 8. Not modelled

- Wire protocol (`umm/src/protocol`): packing and unpacking of fixed layouts.
- Configuration, logging, sockets, local transport, daemons' option parsing,
  ctypes bindings: system calls and input parsing around the modelled parts.
- NDS and libnvm backends: drivers behind `dlopen` whose behaviour is not in this
  repository.
- Tier and node routing, `umm_init`, `umm_deinit`, set-up of tiers: done once,
  before or after everything that is modelled.
- The atomics of the SSD transport and the byte path of the direct backend
  (alignment, bounce buffers).
- Demonstrations (`demo_e2e_*.py`, `demo_alloc_on_device.py`, …), document and
  fixture generators, lab scripts: sequential programs that call modelled parts
  and print. The shared-disk experiments are the ones in which processes depend on
  each other, and they are modelled.
- MQSim, the language model and its server, tokenizers: external.
- Of the modelled parts: batched NDS I/O of the SSD pool; the storage topology of
  `ummd`; read merging of the virtual media inside `SparseKV` (what the benchmarks
  merge is `MergedRuns` of `ReplayTrace`); the byte layout of descriptors in `plan`;
  address resolution of the remote transport.

## 9. What could follow

1. Proofs of `BooksBalance` for the I/O engine (it needs the place of every request
   and the sizes of sets of requests) and for `RpcServer`.
2. The atomics of the SSD transport with several nodes on one device: the
   compare-and-swap reads and then writes its cell (`transport_ssd.c:106`).
3. The storage topology of `ummd` and the registration of tiers at `umms`.
