------------------------------ MODULE SharedPool ------------------------------
(***************************************************************************)
(* The shared-disk experiments of bmpclient/scripts: demo_shared_pool.py   *)
(* (one client process per node) driven by simulate_shared_pool.py,        *)
(* simulate_s5_flush_invalidate.py and simulate_s6_shared_mem.py.          *)
(* Each program is straight-line code, so it is a sequence of steps; the   *)
(* actions below execute one step of one process.  All nodes map the same  *)
(* SSDs through page caches of their own, and nobody but the programs'     *)
(* own flush, invalidate and marker files orders what they do.             *)
(***************************************************************************)
EXTENDS Integers, Sequences, FiniteSets, SequencesExt

CONSTANTS DevSize,     \* pieces of one SSD; the pool has two of them
          MemSize,     \* pieces of the memory tier
          Chunks,      \* --chunks
          ChunkSize,   \* --chunk-size, in pieces
          ShareSize,   \* --s5-size and --s6-size, in pieces
          Exps,        \* the experiments run
          MaxFaults    \* bound: calls that fail without a cause in the model

ASSUME PoolAssumption ==
  /\ {DevSize, MemSize, Chunks, ChunkSize, ShareSize} \subseteq Nat \ {0}
  /\ MaxFaults \in Nat
  /\ Exps \subseteq {"s1", "hybrid", "s5", "s6"}

VARIABLES exp,      \* the experiment of this behaviour
          vms,      \* whether the nodes are VMs with page caches of their own
          main,     \* the orchestrator
          procs,    \* the client processes
          marks,    \* the marker files
          note,     \* s5_alloc.json or s6_alloc.json
          used,     \* the pieces umms has handed out, by tier
          disk,     \* what the two devices hold
          cache,    \* the page caches, by node
          mem,      \* the memory tier's backing, by who maps it
          servers,  \* ummd and umms
          faults,
          unsynced  \* history: some flush failed, which only logs a warning

data == <<disk, cache, mem, unsynced>>
vars == <<exp, vms, main, procs, marks, note, used, disk, cache, mem,
          servers, faults, unsynced>>

Clients == {"simA", "simB"}
Readers == {"preread", "verify"}
Procs == Clients \cup Readers \cup {"writer"}

Total == 2 * DevSize
Pages(t) == 0 .. (IF t = "ssd" THEN Total ELSE MemSize) - 1
NoDesc == [id |-> 0, tier |-> "none", off |-> 0, size |-> 0, wrote |-> 0]
Absent == [dirty |-> FALSE, v |-> <<"none", 0, 0>>]
Zero == <<"zero", 0, 0>>

-----------------------------------------------------------------------------
(* The programs of demo_shared_pool.py.                                    *)

Op(o, s) == [op |-> o, slot |-> s]
Alloc(s, t, n) == [op |-> "alloc", slot |-> s, tier |-> t, size |-> n]
TooBig(t, n) == [op |-> "refused", tier |-> t, size |-> n]
Mark(m) == [op |-> "mark", m |-> m]
Wait(m) == [op |-> "wait", m |-> m]
Piecewise(o, s, n) == [k \in 1 .. n |-> [op |-> o, slot |-> s, piece |-> k]]

write_chunk_stream(s, n) == Piecewise("write", s, n)

\* Every piece is compared as soon as it is read.
verify_chunk_stream(s, n) ==
  FlattenSeq([k \in 1 .. n |->
    << [op |-> "read", slot |-> s, piece |-> k], Op("compare", s) >>])

\* S1 and S1m: allocate and write all, read all back, and the first once more.
scenario_rw(first, t) ==
  FlattenSeq([i \in 1 .. Chunks |->
      <<Alloc(first + i - 1, t, ChunkSize)>> \o write_chunk_stream(first + i - 1, ChunkSize)])
    \o FlattenSeq([i \in 1 .. Chunks |-> verify_chunk_stream(first + i - 1, ChunkSize)])
    \o verify_chunk_stream(first, ChunkSize)

Victim == 2 * Chunks + 1
Slots == 1 .. Victim

\* A victim is allocated, written past its end, deleted and deleted again.
negative(t) ==
  << Alloc(Victim, t, 1), Op("beyond", Victim), Op("delete", Victim), Op("again", Victim) >>

scenario_s3_negative == <<TooBig("ssd", Total + ChunkSize)>> \o negative("ssd")

scenario_s4_tier_isolation ==
  << TooBig("mem", MemSize + ChunkSize), Alloc(Victim, "ssd", 1), Op("delete", Victim),
     TooBig("ssd", Total + ChunkSize) >> \o negative("mem")

\* simulate_shared_pool.py passes --keep: the chunks stay allocated.
cleanup == << >>

demo(hybrid) ==
  <<Op("open", 1)>> \o scenario_rw(1, "ssd")
    \o (IF hybrid THEN scenario_rw(Chunks + 1, "mem") ELSE << >>)
    \o scenario_s3_negative
    \o (IF hybrid THEN scenario_s4_tier_isolation ELSE << >>)
    \o cleanup \o <<Op("close", 1)>>

\* Mutant: the written marker appears before the flush.
scenario_s5_writer_early ==
  << Op("open", 1), Alloc(1, "ssd", ShareSize), Op("note", 1), Mark("alloc_done"),
     Wait("preread_done") >> \o write_chunk_stream(1, ShareSize)
    \o << Mark("written"), Op("flush", 1), Wait("verify_done"), Op("delete", 1),
          Op("close", 1) >>

scenario_s5_writer ==
  << Op("open", 1), Alloc(1, "ssd", ShareSize), Op("note", 1), Mark("alloc_done"),
     Wait("preread_done") >> \o write_chunk_stream(1, ShareSize)
    \o << Op("flush", 1), Mark("written"), Wait("verify_done"), Op("delete", 1),
          Op("close", 1) >>

read_digest == Piecewise("read", 1, ShareSize)

scenario_s5_preread == <<Op("open", 1)>> \o read_digest \o <<Op("close", 1)>>

\* The first digest may be stale and is only reported.
scenario_s5_verify ==
  <<Op("open", 1)>> \o read_digest \o <<Op("invalidate", 1)>> \o read_digest
    \o << Op("compare", 1), Op("close", 1) >>

scenario_s6_writer ==
  << Op("open", 1), Alloc(1, "mem", ShareSize), Op("note", 1), Mark("alloc_done") >>
    \o write_chunk_stream(1, ShareSize)
    \o << Op("flush", 1), Mark("written"), Wait("verify_done"), Op("delete", 1),
          Op("close", 1) >>

scenario_s6_verify ==
  <<Op("open", 1)>> \o read_digest \o << Op("compare", 1), Op("close", 1) >>

(* The orchestrators.                                                      *)

Act(o) == [op |-> o]
For(o, p) == [op |-> o, p |-> p]
wait_file(m, p) == [op |-> "wait", m |-> m, p |-> p]

simulate_shared_pool ==
  << Act("start"), For("spawn", "simA"), For("spawn", "simB"), For("join", "simA"),
     For("join", "simB"), Act("disjoint"), Act("on_disk"), Act("stop") >>

\* Mutant: the writer is told to release its chunk before the verifier has ended.
simulate_s5_early ==
  << Act("start"), For("spawn", "writer"), wait_file("alloc_done", "writer"),
     For("spawn", "preread"), For("join", "preread"), Mark("preread_done"),
     wait_file("written", "writer"), For("spawn", "verify"), Mark("verify_done"),
     For("join", "verify"), For("join", "writer"), Act("stop") >>

simulate_s5_flush_invalidate ==
  << Act("start"), For("spawn", "writer"), wait_file("alloc_done", "writer"),
     For("spawn", "preread"), For("join", "preread"), Mark("preread_done"),
     wait_file("written", "writer"), For("spawn", "verify"), For("join", "verify"),
     Mark("verify_done"), For("join", "writer"), Act("stop") >>

run_route ==
  << Act("start"), Act("unlink"), For("spawn", "writer"), wait_file("alloc_done", "writer"),
     wait_file("written", "writer"), For("spawn", "verify"), For("join", "verify"),
     Mark("verify_done"), For("join", "writer"), Act("stop") >>

\* Route A and route B, one after the other in one working directory.
simulate_s6_shared_mem == run_route \o run_route

MainScript ==
  [s1 |-> simulate_shared_pool, hybrid |-> simulate_shared_pool,
   s5 |-> simulate_s5_flush_invalidate, s6 |-> simulate_s6_shared_mem]

Script ==
  [s1     |-> [p \in Clients |-> demo(FALSE)],
   hybrid |-> [p \in Clients |-> demo(TRUE)],
   s5     |-> [writer |-> scenario_s5_writer, preread |-> scenario_s5_preread,
               verify |-> scenario_s5_verify],
   s6     |-> [writer |-> scenario_s6_writer, verify |-> scenario_s6_verify]]

-----------------------------------------------------------------------------
(* Storage as the processes reach it.                                      *)

NewProc(st, d) == [st |-> st, pc |-> 1, ok |-> TRUE, desc |-> [s \in Slots |-> d]]

Node(p) == IF vms /\ p \in {"simB"} \cup Readers THEN 1 ELSE 0

\* The shared window of S6, or each process's own malloc'ed memory.
Window(p) == IF exp = "s6" THEN "shm" ELSE p

\* S5 and S6 give every process the same tag.
pattern_piece(p, id, k) == <<IF p \in Clients THEN p ELSE "share", id, k>>

\* The pool is the two devices one after the other.
Device(a) == a \div DevSize
RawFile(dev, o) == disk[dev * DevSize + o]

Piece(d, k) == d.off + k - 1
Extent(d) == d.off .. d.off + d.size - 1

Seen(p, d, k) ==
  LET a == Piece(d, k) IN
  IF d.tier = "mem" THEN mem[Window(p)][a]
  ELSE IF cache[Node(p)][a] = Absent THEN disk[a] ELSE cache[Node(p)][a].v

\* umms hands out any run of free pieces of the tier.
FreeRuns(t, n) ==
  { lo \in Pages(t) : lo .. lo + n - 1 \subseteq Pages(t) \ used[t] }

\* A node writes back its dirty pages among the pages S.
Sync(n, S) ==
  /\ disk' = [x \in DOMAIN disk |->
       IF x \in S /\ cache[n][x].dirty THEN cache[n][x].v ELSE disk[x]]
  /\ cache' = [cache EXCEPT ![n] = [a \in Pages("ssd") |->
       IF a \in S THEN [@[a] EXCEPT !.dirty = FALSE] ELSE @[a]]]

Init ==
  /\ exp \in Exps
  /\ vms \in IF exp = "s6" THEN {FALSE} ELSE BOOLEAN
  /\ main = [st |-> "run", pc |-> 1, rec |-> NoDesc]
  /\ procs = [p \in Procs |-> NewProc("idle", NoDesc)]
  /\ marks = {} /\ note = NoDesc
  /\ used = [t \in {"ssd", "mem"} |-> {}]
  /\ disk = [a \in Pages("ssd") |-> Zero]
  /\ cache = [n \in {0, 1} |-> [a \in Pages("ssd") |-> Absent]]
  /\ mem = [w \in Procs \cup {"shm"} |-> [a \in Pages("mem") |-> Zero]]
  /\ servers = "down" /\ faults = 0 /\ unsynced = FALSE

-----------------------------------------------------------------------------
(* One step of a client process.                                           *)

At(p, o) == procs[p].st = "run" /\ Script[exp][p][procs[p].pc].op = o
Step(p) == Script[exp][p][procs[p].pc]
Held(p) == procs[p].desc[Step(p).slot]

Next1(p) == procs' = [procs EXCEPT ![p].pc = @ + 1]
SetDesc(p, d) == procs' = [procs EXCEPT ![p].pc = @ + 1, ![p].desc[Step(p).slot] = d]
End(p, st) == procs' = [procs EXCEPT ![p].st = st]

Local == UNCHANGED <<exp, vms, main, servers>>
Quiet == Local /\ UNCHANGED <<marks, note, faults>>

\* The calls that ummd or umms must answer.
Remote == {"open", "alloc", "refused", "delete"}

\* UMMServiceClient.
Open(p) ==
  /\ At(p, "open") /\ servers = "up"
  /\ Next1(p)
  /\ Quiet /\ UNCHANGED <<used, data>>

\* ummd names every chunk anew; the name is abstracted to its slot in the program.
create_chunk(p) ==
  /\ At(p, "alloc") /\ servers = "up"
  /\ \E lo \in FreeRuns(Step(p).tier, Step(p).size) :
       /\ used' = [used EXCEPT ![Step(p).tier] = @ \cup (lo .. lo + Step(p).size - 1)]
       /\ SetDesc(p, [id |-> Step(p).slot, tier |-> Step(p).tier, off |-> lo,
                      size |-> Step(p).size, wrote |-> 0])
  /\ Quiet /\ UNCHANGED data

\* NO_MEMORY: what the negative scenarios expect, and fatal elsewhere.
NoMemory(p) ==
  /\ \E o \in {"alloc", "refused"} :
       /\ At(p, o) /\ servers = "up"
       /\ FreeRuns(Step(p).tier, Step(p).size) = {}
       /\ IF o = "refused" THEN Next1(p) ELSE End(p, "failed")
  /\ Quiet /\ UNCHANGED <<used, data>>

write_chunk(p) ==
  /\ At(p, "write")
  /\ LET d == Held(p)
         a == Piece(d, Step(p).piece)
         v == pattern_piece(p, d.id, Step(p).piece)
     IN /\ SetDesc(p, [d EXCEPT !.wrote = Step(p).piece])
        /\ IF d.tier = "mem"
           THEN mem' = [mem EXCEPT ![Window(p)][a] = v] /\ UNCHANGED cache
           ELSE cache' = [cache EXCEPT ![Node(p)][a] = [dirty |-> TRUE, v |-> v]] /\ UNCHANGED mem
  /\ Quiet /\ UNCHANGED <<used, disk, unsynced>>

\* Bytes past user_size are refused, as the scenario expects.
WriteBeyond(p) ==
  /\ At(p, "beyond")
  /\ Next1(p)
  /\ Quiet /\ UNCHANGED <<used, data>>

\* A read fills the page cache.
read_chunk(p) ==
  /\ At(p, "read")
  /\ LET d == Held(p)
         a == Piece(d, Step(p).piece)
         v == Seen(p, d, Step(p).piece)
     IN /\ procs' = [procs EXCEPT ![p].pc = @ + 1,
                       ![p].ok = @ /\ v = pattern_piece(p, d.id, Step(p).piece)]
        /\ cache' = IF d.tier = "mem" \/ cache[Node(p)][a] # Absent THEN cache
                    ELSE [cache EXCEPT ![Node(p)][a] = [dirty |-> FALSE, v |-> v]]
  /\ Quiet /\ UNCHANGED <<used, disk, mem, unsynced>>

Compare(p) ==
  /\ At(p, "compare")
  /\ IF procs[p].ok THEN Next1(p) ELSE End(p, "mismatch")
  /\ Quiet /\ UNCHANGED <<used, data>>

\* Mutant: umm_free leaves the caller's descriptor as it was.
delete_chunk_keeps(p) ==
  /\ At(p, "delete") /\ servers = "up"
  /\ used' = [used EXCEPT ![Held(p).tier] = @ \ Extent(Held(p))]
  /\ Next1(p)
  /\ Quiet /\ UNCHANGED data

\* umm_free zeroes the descriptor.
delete_chunk(p) ==
  /\ At(p, "delete") /\ servers = "up"
  /\ used' = [used EXCEPT ![Held(p).tier] = @ \ Extent(Held(p))]
  /\ SetDesc(p, NoDesc)
  /\ Quiet /\ UNCHANGED data

\* A descriptor that is not zeroed would free its pieces again, and the failed
\* unregistration would still make the call look refused.
DeleteAgain(p) ==
  /\ At(p, "again")
  /\ used' = IF Held(p) = NoDesc THEN used
             ELSE [used EXCEPT ![Held(p).tier] = @ \ Extent(Held(p))]
  /\ Next1(p)
  /\ Quiet /\ UNCHANGED data

\* umm_fence on the SSD tier: msync of the whole pool.
flush(p) ==
  /\ At(p, "flush")
  /\ Next1(p)
  /\ Sync(Node(p), Pages("ssd"))
  /\ Quiet /\ UNCHANGED <<used, mem, unsynced>>

\* The sync stops at the first device that fails, and the caller does not learn of it.
FlushFails(p) ==
  /\ At(p, "flush") /\ faults < MaxFaults
  /\ \E d \in {0, 1} : Sync(Node(p), {a \in Pages("ssd") : Device(a) < d})
  /\ Next1(p)
  /\ unsynced' = TRUE /\ faults' = faults + 1
  /\ Local /\ UNCHANGED <<marks, note, used, mem>>

\* msync(MS_INVALIDATE) drops the chunk's cached pages, dirty ones included.
invalidate_chunk(p) ==
  /\ At(p, "invalidate")
  /\ cache' = [cache EXCEPT ![Node(p)] = [a \in Pages("ssd") |->
       IF a \in Extent(Held(p)) THEN Absent ELSE @[a]]]
  /\ procs' = [procs EXCEPT ![p].pc = @ + 1, ![p].ok = TRUE]
  /\ Quiet /\ UNCHANGED <<used, disk, mem, unsynced>>

\* The descriptor is written to a file for the other side.
WriteNote(p) ==
  /\ At(p, "note")
  /\ note' = Held(p)
  /\ Next1(p)
  /\ Local /\ UNCHANGED <<marks, faults, used, data>>

CreateMarker(p) ==
  /\ At(p, "mark")
  /\ marks' = marks \cup {Step(p).m}
  /\ Next1(p)
  /\ Local /\ UNCHANGED <<note, faults, used, data>>

\* Mutant: the wait has no timeout.
s5_wait_file_forever(p) ==
  /\ At(p, "wait")
  /\ Step(p).m \in marks
  /\ Next1(p)
  /\ Quiet /\ UNCHANGED <<used, data>>

\* The marker is there, or the wait times out.
s5_wait_file(p) ==
  /\ At(p, "wait")
  /\ IF Step(p).m \in marks THEN Next1(p) ELSE End(p, "failed")
  /\ Quiet /\ UNCHANGED <<used, data>>

\* umm_deinit syncs and unmaps the devices.
close(p) ==
  /\ At(p, "close")
  /\ End(p, "ok")
  /\ Sync(Node(p), Pages("ssd"))
  /\ Quiet /\ UNCHANGED <<used, mem, unsynced>>

\* A call raises, and the exception ends the process: no delete, no close.
Raises(p) ==
  /\ procs[p].st = "run"
  /\ Step(p).op \in Remote \cup {"write", "read", "invalidate"}
  /\ \/ servers # "up" /\ Step(p).op \in Remote /\ UNCHANGED faults
     \/ faults < MaxFaults /\ faults' = faults + 1
  /\ End(p, "failed")
  /\ Local /\ UNCHANGED <<marks, note, used, data>>

ProcStep(p) ==
  \/ Open(p) \/ create_chunk(p) \/ NoMemory(p) \/ write_chunk(p) \/ WriteBeyond(p)
  \/ read_chunk(p) \/ Compare(p) \/ delete_chunk(p) \/ DeleteAgain(p)
  \/ flush(p) \/ FlushFails(p) \/ invalidate_chunk(p) \/ WriteNote(p)
  \/ CreateMarker(p) \/ s5_wait_file(p) \/ close(p) \/ Raises(p)

-----------------------------------------------------------------------------
(* The kernels.                                                            *)

\* A dirty page may be written back, and a clean one dropped, at any time.
Writeback(n, a) ==
  /\ cache[n][a].dirty
  /\ Sync(n, {a})
  /\ Quiet /\ UNCHANGED <<procs, used, mem, unsynced>>

Evict(n, a) ==
  /\ cache[n][a] # Absent /\ ~cache[n][a].dirty
  /\ cache' = [cache EXCEPT ![n][a] = Absent]
  /\ Quiet /\ UNCHANGED <<procs, used, disk, mem, unsynced>>

-----------------------------------------------------------------------------
(* One step of the orchestrator.                                           *)

MAt(o) == main.st = "run" /\ main.pc <= Len(MainScript[exp]) /\ MainScript[exp][main.pc].op = o
MStep == MainScript[exp][main.pc]
MNext == main' = [main EXCEPT !.pc = @ + 1]
\* An exception inside the try block: its finally clause stops the servers.
MRaise == main' = [main EXCEPT !.st = "finally"]
MQuiet == UNCHANGED <<exp, vms, used, data>>

\* Truncated devices and window, new servers.
start_servers ==
  /\ MAt("start")
  /\ MNext
  /\ servers' = "up"
  /\ used' = [t \in DOMAIN used |-> {}]
  /\ disk' = [x \in DOMAIN disk |-> Zero]
  /\ mem' = [mem EXCEPT !["shm"] = [a \in Pages("mem") |-> Zero]]
  /\ UNCHANGED <<exp, vms, procs, marks, note, cache, faults, unsynced>>

\* A port does not open in time.  This is before the try block: nobody stops
\* the processes that were started.
StartFails ==
  /\ MAt("start") /\ faults < MaxFaults
  /\ main' = [main EXCEPT !.st = "failed"]
  /\ servers' = "orphaned" /\ faults' = faults + 1
  /\ UNCHANGED <<procs, marks, note>> /\ MQuiet

\* stop_servers, in the finally clause of a route that went well.
stop_servers ==
  /\ MAt("stop")
  /\ MNext
  /\ servers' = "down"
  /\ UNCHANGED <<procs, marks, note, faults>> /\ MQuiet

StopAfterFailure ==
  /\ main.st = "finally"
  /\ main' = [main EXCEPT !.st = "failed"]
  /\ servers' = "down"
  /\ UNCHANGED <<procs, marks, note, faults>> /\ MQuiet

Pass ==
  /\ main.st = "run" /\ main.pc > Len(MainScript[exp])
  /\ main' = [main EXCEPT !.st = "pass"]
  /\ UNCHANGED <<procs, marks, note, faults, servers>> /\ MQuiet

Unlink ==
  /\ MAt("unlink")
  /\ MNext
  /\ marks' = {} /\ note' = NoDesc
  /\ UNCHANGED <<procs, servers, faults>> /\ MQuiet

\* The readers get the descriptor that was loaded on their command line.
run_client ==
  /\ MAt("spawn")
  /\ MNext
  /\ procs' = [procs EXCEPT ![MStep.p] =
                 NewProc("run", IF MStep.p \in Readers THEN main.rec ELSE NoDesc)]
  /\ UNCHANGED <<marks, note, servers, faults>> /\ MQuiet

\* The marker is there, or the process has ended without it, or time is up.
\* Once the chunk is allocated its note is loaded.
WaitForFile ==
  /\ MAt("wait")
  /\ IF MStep.m \in marks
     THEN main' = [main EXCEPT !.pc = @ + 1, !.rec = IF MStep.m = "alloc_done" THEN note ELSE @]
     ELSE MRaise
  /\ UNCHANGED <<procs, marks, note, servers, faults>> /\ MQuiet

\* communicate(timeout) and the assertion on the exit code.
Join ==
  /\ MAt("join")
  /\ IF procs[MStep.p].st = "ok" THEN MNext ELSE MRaise
  /\ UNCHANGED <<procs, marks, note, servers, faults>> /\ MQuiet

TouchMarker ==
  /\ MAt("mark")
  /\ MNext
  /\ marks' = marks \cup {MStep.m}
  /\ UNCHANGED <<procs, note, servers, faults>> /\ MQuiet

\* The chunks of the result files.
Reported == { procs[p].desc[s] : p \in Clients, s \in 1 .. Chunks }

\* A2: sorted by offset, no interval starts before the previous one ends.
CheckDisjoint ==
  /\ MAt("disjoint")
  /\ IF \A d, e \in Reported : d.off < e.off => d.off + d.size <= e.off
     THEN MNext ELSE MRaise
  /\ UNCHANGED <<procs, marks, note, servers, faults>> /\ MQuiet

\* A4: the raw files hold every chunk's pattern, across the device boundary too.
OnDisk(p, d, k) ==
  LET dev == IF Piece(d, k) < DevSize THEN 0 ELSE 1
  IN RawFile(dev, Piece(d, k) - dev * DevSize) = pattern_piece(p, d.id, k)

verify_on_disk ==
  /\ MAt("on_disk")
  /\ IF \A p \in Clients, s \in 1 .. Chunks : \A k \in 1 .. ChunkSize :
          OnDisk(p, procs[p].desc[s], k)
     THEN MNext ELSE MRaise
  /\ UNCHANGED <<procs, marks, note, servers, faults>> /\ MQuiet

MainStep ==
  \/ start_servers \/ StartFails \/ stop_servers \/ StopAfterFailure \/ Pass \/ Unlink
  \/ run_client \/ WaitForFile \/ Join \/ TouchMarker \/ CheckDisjoint \/ verify_on_disk

Work == MainStep \/ \E p \in Procs : ProcStep(p)

Next ==
  \/ Work
  \/ \E n \in {0, 1}, a \in Pages("ssd") : Writeback(n, a) \/ Evict(n, a)

\* While some process can take a step, one does; every wait has a deadline.
Fairness == WF_vars(Work)

Spec == Init /\ [][Next]_vars /\ Fairness

-----------------------------------------------------------------------------
Holders == Clients \cup {"writer"}
Ended(p) == procs[p].st # "run"

TypeOK ==
  /\ main.st \in {"run", "finally", "failed", "pass"}
  /\ \A p \in Procs : procs[p].st \in {"idle", "run", "ok", "failed", "mismatch"}
  /\ \A t \in DOMAIN used : used[t] \subseteq Pages(t)
  /\ servers \in {"down", "up", "orphaned"} /\ faults \in 0 .. MaxFaults

\* Data written by one node and flushed is what another node reads after its
\* invalidate, and at once in the shared memory window: no comparison in
\* scenario_s5_verify, scenario_s6_verify or verify_chunk_stream ever fails,
\* unless a flush failed, which umm_fence does not report.
ReadersSeeWrites == ~unsynced => \A p \in Procs : procs[p].st # "mismatch"

\* What two nodes write into the pool at the same time never meets: the chunks
\* held are disjoint, each holder sees its own pattern in what it has written,
\* the device holds it once no page is dirty, and verify_on_disk finds it.
PatternsSurvive ==
  ~unsynced =>
    /\ \A p, q \in Holders, s, t \in Slots :
         LET d == procs[p].desc[s]
             e == procs[q].desc[t]
         IN (<<p, s>> # <<q, t>> /\ d.tier = e.tier) => Extent(d) \cap Extent(e) = {}
    /\ \A p \in Holders, s \in Slots :
         LET d == procs[p].desc[s] IN
         \A k \in 1 .. d.wrote :
           /\ Seen(p, d, k) = pattern_piece(p, d.id, k)
           /\ (d.tier = "ssd" /\ \A n \in {0, 1} : ~cache[n][Piece(d, k)].dirty)
                => disk[Piece(d, k)] = pattern_piece(p, d.id, k)
    /\ MAt("on_disk") => \A p \in Clients, s \in 1 .. Chunks : \A k \in 1 .. ChunkSize :
                           OnDisk(p, procs[p].desc[s], k)

\* A chunk that another node reads is not released under it, and an experiment
\* that reports success has released what it should: everything in S5 and S6,
\* all but the kept chunks otherwise.
ReleasedInTurn ==
  /\ \A p \in Readers : procs[p].st = "run" =>
       LET d == procs[p].desc[1] IN d.tier # "none" /\ Extent(d) \subseteq used[d.tier]
  /\ main.st = "pass" =>
       \A t \in DOMAIN used :
         used[t] = UNION { Extent(procs[p].desc[s]) : p \in Clients,
                           s \in {x \in Slots : \A q \in Clients : procs[q].desc[x].tier = t} }

\* Whatever fails, everybody comes to an end: the orchestrator returns with the
\* servers stopped (unless they never came up), and no client waits for ever
\* for a marker that its peer will not create.
AllEnd ==
  <>[](main.st \in {"pass", "failed"} /\ servers # "up" /\ \A p \in Procs : Ended(p))
=============================================================================
