---------------------------- MODULE LayoutReplay ----------------------------
(***************************************************************************)
(* bench/layout_replay.py: for every write segment, layout and worker      *)
(* count, a trial opens one sparse KV store per request on the native SSD  *)
(* pool, writes the contexts (all before the replay, or each record's      *)
(* growth before its fetch), fetches the top-k rows of every record,       *)
(* verifies them and releases the store after its last record.             *)
(*                                                                         *)
(* The row of token t of request q and layer l holds the number            *)
(* bases[q, l] + t; pattern() makes rows differ exactly when these do.     *)
(* The stores use the segment managers of SegmentOps, whose medium is the  *)
(* part of a device window their extent covers.  The reads of one fetch    *)
(* are one step: nothing writes meanwhile, and ConcurrentIO is about the   *)
(* engine that spreads them.                                               *)
(***************************************************************************)
EXTENDS ReplayTrace, FirstFit

CONSTANTS
  DeviceCount,    \* windows of a devices-config (eight in the code)
  NativeTopk,     \* entries of a native selection (2048 in the code)
  Shuffle(_),     \* the permutation the seed gives a sequence of tokens
  MaxFaults       \* I/O calls that fail in a behaviour

ASSUME HashOptions == ValidSteps(DeviceCount, StepIdx, StepLayer, Prime)

VARIABLES
  opts,       \* the command line
  trace,
  pc,         \* idle, next, trial, unwind, close, exited
  todo,       \* trials to run
  script,     \* what the trial has still to do
  windows,    \* rows of the device windows
  disk,       \* what the windows hold
  live,       \* PoolClient.live, extents [dev, page, size]
  opening,    \* extents of the store being opened
  stores,     \* open stores by request
  loaded,     \* rows written, by request and layer
  mapping,    \* what the digest of the row mapping has seen
  batches,    \* the measured batches of the trial
  result,     \* the report in memory
  output,     \* the report on disk
  faults

layoutVars == <<opts, trace, pc, todo, script, windows, disk, live, opening,
                stores, loaded, mapping, batches, result, output, faults>>

Blank == NoRow

Seg(n, k) == INSTANCE SegmentOps WITH NSeg <- n, Slots <- k, Data <- Nat, Zero <- Blank

Nothing == [x \in {} |-> Blank]

----------------------------------------------------------------------------
(* The command line *)

Segments(o) == IF o.experiment = "layout-concurrency" THEN o.segments ELSE {1} \cup o.segments

Workers(o) == IF o.experiment = "layout-concurrency" THEN o.worker_sweep ELSE {o.workers}

\* layout-concurrency turns merging off.
Merging(o) == o.merge /\ o.experiment # "layout-concurrency"

Devices(o) == IF o.devices_config THEN 0 .. DeviceCount - 1 ELSE {0}

ValidOptions(o) ==
    /\ o.placement = "layer" => o.mode = "snapshot" /\ o.devices_config
    /\ o.workers >= 1 /\ o.max_topk >= 1 /\ o.repeats >= 1
    /\ IF o.experiment = "layout-concurrency"
       THEN /\ o.mode = "snapshot" /\ Cardinality(o.segments) = 1
            /\ \A s \in o.segments : s > 1
            /\ o.worker_sweep # {} /\ \A w \in o.worker_sweep : w >= 1
       ELSE o.worker_sweep = {}
    /\ \A s \in Segments(o) : s >= 1
    /\ o.max_read >= 1
    /\ o.miss_trace => o.mode = "snapshot"
    /\ o.kind = "device" => o.dry_run \/ o.allow_device_write
    /\ o.allow_device_write => o.kind = "device"

Strategies == {"baseline", "same_state_replacement", "independent_replacement"}

validate_miss_trace(tr) ==
    /\ \A i \in DOMAIN tr :
         /\ tr[i].misses = Len(tr[i].topk)
         /\ Cardinality(ToSet(tr[i].topk)) = tr[i].misses
         /\ tr[i].selected = tr[i].cache_hits + tr[i].fresh_hits + tr[i].misses
         /\ tr[i].selected <= NativeTopk /\ tr[i].capacity >= NativeTopk
         /\ tr[i].strategy \in Strategies
    /\ Cardinality({<<tr[i].capacity, tr[i].strategy>> : i \in DOMAIN tr}) = 1
    /\ \E i \in DOMAIN tr : ~tr[i].warmup

\* The capacities are those of the largest segment.
Capacities(o, tr) ==
    capacities(tr, Max(Segments(o)), o.mode, o.placement, Cardinality(Devices(o)))

\* A new file has exactly the window the capacities need.
Windows(o, caps) ==
    [d \in Devices(o) |-> IF o.kind = "file" /\ ~o.devices_config THEN required(caps, d)
                          ELSE o.window_rows[d]]

Admissible(o, tr) ==
    /\ ValidOptions(o)
    /\ load_trace(tr, o.max_topk, o.miss_trace)
    /\ o.miss_trace => validate_miss_trace(tr)
    /\ ~geometry_refuses(tr, o.mode)
    /\ \A d \in Devices(o) : Windows(o, Capacities(o, tr))[d] >= required(Capacities(o, tr), d)

----------------------------------------------------------------------------
(* Trials *)

CaseBefore(a, b) ==
    \E i \in 1 .. 3 : a[i] < b[i] /\ \A j \in 1 .. i - 1 : a[j] = b[j]

\* <<segment, workers, 0 for ordered and 1 for shuffled>>
Cases(o) == SetToSortSeq(Segments(o) \X Workers(o) \X o.layouts, CaseBefore)

\* Every other repetition runs the cases backwards.
Trials(o) ==
    FlattenSeq([r \in 1 .. o.repeats |->
        LET cases == IF r % 2 = 1 THEN Cases(o) ELSE Reverse(Cases(o))
        IN  [c \in DOMAIN cases |-> [repeat |-> r - 1, case |-> cases[c]]]])

Op(name, req, layer, n) == [op |-> name, req |-> req, layer |-> layer, n |-> n]

Prepare(tr) ==
    LET keys == SetToSortSeq(Keys(tr), KeyBefore)
        reqs == SetToSortSeq(Requests(tr), <)
    IN  [k \in DOMAIN keys |-> Op("append", keys[k][1], keys[k][2], lengths(tr)[keys[k]])]
            \o [q \in DOMAIN reqs |-> Op("flush", reqs[q], 0, 0)]

ReplayRecord(tr, mode, i) ==
    LET r == tr[i]
    IN  (IF mode = "online" THEN <<Op("append", r.req, r.layer, r.ctx), Op("flush", r.req, 0, 0)>>
                            ELSE << >>)
            \o <<Op("fetch", r.req, r.layer, i)>>
            \o (IF \E j \in i + 1 .. Len(tr) : tr[j].req = r.req THEN << >>
                ELSE <<Op("release", r.req, 0, 0)>>)

\* The calls trial() makes, in order.
TrialScript(tr, mode) ==
    (IF mode = "snapshot" THEN Prepare(tr) ELSE << >>)
        \o FlattenSeq([i \in DOMAIN tr |-> ReplayRecord(tr, mode, i)])
        \o <<Op("end", 0, 0, 0)>>

\* The pairs of cases run() compares at its end.
Comparisons(o) ==
    LET vs(a, b) == <<a, b>>
    IN  {vs(<<s, w, 1>>, <<s, w, 0>>) : s \in {x \in Segments(o) : o.layouts = {0, 1}},
                                        w \in Workers(o)}
        \cup IF o.experiment = "layout-concurrency"
             THEN {vs(<<s, Min(Workers(o)), l>>, <<s, w, l>>) :
                     s \in Segments(o), w \in Workers(o) \ {Min(Workers(o))}, l \in o.layouts}
             ELSE {vs(<<1, w, l>>, <<s, w, l>>) :
                     s \in Segments(o) \ {1}, w \in Workers(o), l \in o.layouts}
                  \cup {vs(<<1, w, 1>>, <<s, w, 0>>) :
                     s \in {x \in Segments(o) \ {1} : o.layouts = {0, 1}}, w \in Workers(o)}

----------------------------------------------------------------------------
(* The state of a run *)

Running == [status |-> "running", error |-> "none", trials |-> << >>]

NoOptions == [x \in {} |-> Blank]

LayoutInit ==
    /\ opts = NoOptions /\ trace = << >> /\ pc = "idle"
    /\ todo = << >> /\ script = << >>
    /\ windows = Nothing /\ disk = Nothing
    /\ live = {} /\ opening = << >> /\ stores = Nothing /\ loaded = Nothing
    /\ mapping = {} /\ batches = << >>
    /\ result = Running /\ output = Running
    /\ faults = 0

\* The program is started on a command line and a trace.
LayoutStart(o, tr) ==
    /\ pc \in {"idle", "exited"}
    /\ opts' = o /\ trace' = tr /\ pc' = "start"
    /\ result' = Running
    /\ UNCHANGED <<todo, script, windows, disk, live, opening, stores, loaded, mapping,
                   batches, output, faults>>

Segment == todo[1].case[1]

Loaded(key) == IF key \in DOMAIN loaded THEN loaded[key] ELSE 0

Locate(layer, token) == locate(opts.placement, Cardinality(Devices(opts)), layer, token)

Capacity(req, d) == Capacities(opts, trace)[req][d]

NumSegs(req, d) == Capacity(req, d) \div Segment

\* An exception leaves trial() through its finally clause.
Raise(error) ==
    /\ pc' = "unwind"
    /\ result' = [result EXCEPT !.error = error]

\* One I/O call of the step fails.  What it leaves on the medium is not read
\* again: the run ends.
Fault ==
    /\ faults < MaxFaults
    /\ faults' = faults + 1
    /\ Raise("io")

----------------------------------------------------------------------------
(* run(): validation, pool, trials, report *)

\* Validation refuses the command line before anything is created.
Refuse ==
    /\ pc = "start" /\ ~Admissible(opts, trace)
    /\ pc' = "exited"
    /\ result' = [result EXCEPT !.status = "refused"]
    /\ UNCHANGED <<opts, trace, todo, script, windows, disk, live, opening, stores,
                   loaded, mapping, batches, output, faults>>

Plan ==
    /\ pc = "start" /\ Admissible(opts, trace) /\ opts.dry_run
    /\ pc' = "exited"
    /\ result' = [result EXCEPT !.status = "planned"]
    /\ UNCHANGED <<opts, trace, todo, script, windows, disk, live, opening, stores,
                   loaded, mapping, batches, output, faults>>

\* The new report, the new files, the pool, and a client that gives back the
\* windows the pool reserves.
OpenPool ==
    /\ pc = "start" /\ Admissible(opts, trace) /\ ~opts.dry_run
    /\ windows' = Windows(opts, Capacities(opts, trace))
    /\ disk' = [d \in Devices(opts) |-> DirectPool(windows'[d])]
    /\ todo' = Trials(opts)
    /\ output' = Running
    /\ \/ pc' = "next" /\ UNCHANGED <<result, faults>>
       \/ Fault
    /\ UNCHANGED <<opts, trace, script, live, opening, stores, loaded, mapping, batches>>

StartTrial ==
    /\ pc = "next" /\ todo # << >>
    /\ pc' = "trial"
    /\ script' = TrialScript(trace, opts.mode)
    /\ loaded' = Nothing /\ mapping' = {} /\ batches' = << >>
    /\ UNCHANGED <<opts, trace, todo, windows, disk, live, opening, stores, result,
                   output, faults>>

\* A comparison of a case without trials has no median.
CompleteRun ==
    /\ pc = "next" /\ todo = << >>
    /\ LET ran == {result.trials[i].case : i \in DOMAIN result.trials}
       IN  IF \A c \in Comparisons(opts) : c[1] \in ran /\ c[2] \in ran
           THEN pc' = "close" /\ result' = [result EXCEPT !.status = "complete"]
           ELSE Raise("no trials to compare")
    /\ UNCHANGED <<opts, trace, todo, script, windows, disk, live, opening, stores,
                   loaded, mapping, batches, output, faults>>

Extents(req) ==
    {[dev |-> d, page |-> stores[req].page[d], size |-> Capacity(req, d)] : d \in Devices(opts)}

\* The finally clause of trial() closes what is open.
Unwind ==
    /\ pc = "unwind"
    /\ pc' = "close"
    /\ live' = live \ UNION {Extents(req) : req \in DOMAIN stores}
    /\ stores' = Nothing
    /\ result' = [result EXCEPT !.status = "failed"]
    /\ UNCHANGED <<opts, trace, todo, script, windows, disk, opening, loaded, mapping,
                   batches, output, faults>>

\* The finally clause of run(): the pool is destroyed, the report written.
Close ==
    /\ pc = "close"
    /\ pc' = "exited"
    /\ output' = result
    /\ todo' = << >> /\ script' = << >>
    /\ windows' = Nothing /\ disk' = Nothing
    /\ loaded' = Nothing /\ mapping' = {} /\ batches' = << >>
    /\ UNCHANGED <<opts, trace, live, opening, stores, result, faults>>

----------------------------------------------------------------------------
(* trial(): one step per call of its script *)

Doing(name) == pc = "trial" /\ script # << >> /\ script[1].op = name

\* What is left of a trial whose current call is done.
Done == script' = Tail(script) /\ pc' = pc

Free(d) ==
    (0 .. windows[d] - 1) \ UNION {Span(e.page, e.size) : e \in {x \in live : x.dev = d}}

\* ssd_pool_alloc_on_device; the end of the window when nothing fits.
alloc_on_device(size, d) == FirstFitFrom(Free(d), 0, windows[d], size)

\* Mutant: the extents opened so far stay allocated.
Rollback_forgets == live' = live /\ opening' = << >>

\* The extents opened so far go back when the next one fails.
Rollback == live' = live \ ToSet(opening) /\ opening' = << >>

NewStore(req, exts) ==
    [page  |-> [d \in Devices(opts) |-> exts[d + 1].page],
     mgr   |-> [d \in Devices(opts) |->
                  [Seg(NumSegs(req, d), Segment)!NewManager EXCEPT !.disk = << >>]],
     table |-> Nothing]

\* VirtualMedia.__init__ allocates an extent on every device and puts a segment
\* manager on it; after the last one the store exists.  The I/O engine, made
\* outside the try block, raises only for fewer than one worker, and Admissible
\* is for at least one.
OpenStore ==
    /\ Doing("append")
    /\ LET req  == script[1].req
           d    == Len(opening)
           size == Capacity(req, d)
           page == alloc_on_device(size, d)
           ext  == [dev |-> d, page |-> page, size |-> size]
           exts == Append(opening, ext)
           error == CASE page = windows[d] -> "window full"
                      [] page < windows[d] /\ size % Segment # 0 -> "geometry"
                      [] OTHER -> "none"
       IN  /\ Loaded(<<req, script[1].layer>>) # script[1].n
           /\ req \notin DOMAIN stores
           /\ \/ Rollback /\ Fault /\ UNCHANGED stores
              \/ /\ IF error # "none" THEN Rollback /\ Raise(error) /\ UNCHANGED stores
                    ELSE /\ live' = live \cup {ext}
                         /\ IF d + 1 < Cardinality(Devices(opts))
                            THEN opening' = exts /\ UNCHANGED stores
                            ELSE opening' = << >> /\ stores' = stores @@ (req :> NewStore(req, exts))
                         /\ UNCHANGED <<pc, result>>
                 /\ UNCHANGED faults
    /\ UNCHANGED <<opts, trace, todo, script, windows, disk, loaded, mapping, batches, output>>

\* A manager with the part of the device its extent covers, and the device
\* after the manager worked on it.
Mounted(req, d) ==
    [stores[req].mgr[d] EXCEPT !.disk =
        [s \in 0 .. NumSegs(req, d) - 1 |-> [k \in 0 .. Segment - 1 |->
            disk[d][stores[req].page[d] + s * Segment + k]]]]

Synced(req, mgr) ==
    [d \in DOMAIN disk |-> [p \in DOMAIN disk[d] |->
        LET o == p - stores[req].page[d]
        IN  IF o \in 0 .. Capacity(req, d) - 1
            THEN mgr[d].disk[o \div Segment][o % Segment] ELSE disk[d][p]]]

Unmounted(mgr) == [d \in DOMAIN mgr |-> [mgr[d] EXCEPT !.disk = << >>]]

\* store.offload of one token.
Offload(req, layer, s, token) ==
    LET d == Locate(layer, token)
        n == NumSegs(req, d)
        m == s.mgr[d]
    IN  IF s.full \/ Seg(n, Segment)!Exhausted(m) THEN [s EXCEPT !.full = TRUE]
        ELSE [s EXCEPT !.mgr[d] = Seg(n, Segment)!append(m, bases(trace)[<<req, layer>>] + token),
                       !.table = (<<layer, token>> :> Seg(n, Segment)!AppendOffset(m)) @@ @]

\* append(): the tokens the layer has not loaded, in order or shuffled; the
\* digest of the mapping sees them in order.
AppendRows ==
    /\ Doing("append")
    /\ LET req == script[1].req
           layer == script[1].layer
           start == Loaded(<<req, layer>>)
           inOrder == [i \in 1 .. script[1].n - start |-> start + i - 1]
           tokens == IF todo[1].case[3] = 1 THEN Shuffle(inOrder) ELSE inOrder
           begin == [mgr |-> [d \in Devices(opts) |-> Mounted(req, d)],
                     table |-> stores[req].table, full |-> FALSE]
       IN  /\ start # script[1].n /\ req \in DOMAIN stores
           /\ \E s \in {FoldLeft(LAMBDA acc, t : Offload(req, layer, acc, t), begin, tokens)} :
                \/ Fault /\ UNCHANGED <<script, disk, stores, loaded, mapping>>
                \/ /\ IF s.full
                      THEN Raise("segments exhausted") /\ UNCHANGED <<script, disk, stores, loaded, mapping>>
                      ELSE /\ Done
                           /\ disk' = Synced(req, s.mgr)
                           /\ stores' = [stores EXCEPT ![req].mgr = Unmounted(s.mgr), ![req].table = s.table]
                           /\ loaded' = (<<req, layer>> :> script[1].n) @@ loaded
                           /\ mapping' = mapping \cup {<<req, layer, t, Locate(layer, t), s.table[<<layer, t>>]>> :
                                                         t \in ToSet(tokens)}
                           /\ UNCHANGED result
                   /\ UNCHANGED faults
    /\ UNCHANGED <<opts, trace, todo, windows, live, opening, batches, output>>

\* append() of a context that has not grown.
AppendNothing ==
    /\ Doing("append") /\ Loaded(<<script[1].req, script[1].layer>>) = script[1].n
    /\ Done
    /\ UNCHANGED <<opts, trace, todo, windows, disk, live, opening, stores, loaded,
                   mapping, batches, result, output, faults>>

Flushed(n, m) == IF Seg(n, Segment)!Flushable(m) THEN Seg(n, Segment)!flush_locked(m) ELSE m

\* flush(): the half full segments of all devices, then pool.sync.
Flush ==
    /\ Doing("flush")
    /\ LET req == script[1].req
           mgr == [d \in Devices(opts) |-> Flushed(NumSegs(req, d), Mounted(req, d))]
       IN  \/ Fault /\ UNCHANGED <<script, disk, stores>>
           \/ /\ Done
              /\ disk' = Synced(req, mgr)
              /\ stores' = [stores EXCEPT ![req].mgr = Unmounted(mgr)]
              /\ UNCHANGED <<result, faults>>
    /\ UNCHANGED <<opts, trace, todo, windows, live, opening, loaded, mapping, batches, output>>

\* The rows of the requested tokens that live on device d, in the order in
\* which vm.read_batch reads them, and the runs it merges them into.
Group(req, layer, topk, d) ==
    SetToSortSeq({<<stores[req].table[<<layer, topk[i]>>], i>> :
                    i \in {j \in DOMAIN topk : Locate(layer, topk[j]) = d}},
                 LAMBDA a, b : a[1] < b[1] \/ (a[1] = b[1] /\ a[2] < b[2]))

RunsOn(group) ==
    MergedRuns([i \in DOMAIN group |-> group[i][1]], Merging(opts), opts.max_read)

\* A run is read into one staging buffer, every unit copied from its place in it.
ReadRows(group) ==
    MapThenSumSet(LAMBDA r : group[r.dst + r.count - 1][1] + 1 - r.row, RunsOn(group))

RowRead(req, d, offset) == disk[d][stores[req].page[d] + offset]

\* plan, the check that its descriptors lead to the disk, fetch, the I/O
\* statistics, verification.  The address in a descriptor is compared with the
\* expression plan() computes it by, on a table that only this thread changes,
\* and a fetch writes nothing: these two tests never raise.
Fetch ==
    /\ Doing("fetch")
    /\ LET req == script[1].req
           layer == script[1].layer
           r == trace[script[1].n]
           st == stores[req]
           wanted == ToSet(r.topk)
           valid == \A t \in wanted : <<layer, t>> \in DOMAIN st.table
           onDisk == \A t \in wanted :
                       LET d == Locate(layer, t)
                       IN  ~Seg(NumSegs(req, d), Segment)!is_buffered(st.mgr[d], st.table[<<layer, t>>])
           reads == MapThenSumSet(LAMBDA d : ReadRows(Group(req, layer, r.topk, d)), Devices(opts))
           exact == \A t \in wanted :
                      RowRead(req, Locate(layer, t), st.table[<<layer, t>>])
                          = bases(trace)[<<req, layer>>] + t
           error == CASE ~valid -> "not offloaded"
                      [] valid /\ ~onDisk -> "expected disk only"
                      [] valid /\ onDisk /\ reads < Cardinality(wanted) -> "statistics"
                      [] valid /\ onDisk /\ reads >= Cardinality(wanted) /\ opts.verify /\ ~exact ->
                           "data mismatch"
                      [] OTHER -> "none"
           warm == opts.miss_trace /\ r.warmup
       IN  \/ r.topk # << >> /\ Fault /\ UNCHANGED <<script, batches>>
           \/ /\ IF error # "none" THEN Raise(error) /\ UNCHANGED <<script, batches>>
                 ELSE /\ Done
                      /\ batches' = IF warm THEN batches
                           ELSE Append(batches, [rows |-> Cardinality(wanted), reads |-> reads])
                      /\ UNCHANGED result
              /\ UNCHANGED faults
    /\ UNCHANGED <<opts, trace, todo, windows, disk, live, opening, stores, loaded, mapping, output>>

\* store.release of all rows of the request.
Released(req, d) ==
    FoldLeft(LAMBDA m, off : Seg(NumSegs(req, d), Segment)!release(m, off),
             stores[req].mgr[d],
             SetToSeq({stores[req].table[k] : k \in {x \in DOMAIN stores[req].table :
                                                       Locate(x[1], x[2]) = d}}))

\* After the last record of a request: its rows are released, all segments must
\* be free again, and the store is closed.
Release ==
    /\ Doing("release")
    /\ LET req == script[1].req
           buffered == \E d \in Devices(opts) : stores[req].mgr[d].buf # << >>
           reclaimed == \A d \in Devices(opts) : Len(Released(req, d).free) = NumSegs(req, d)
       IN  IF buffered \/ ~reclaimed
           THEN /\ Raise(IF buffered THEN "buffer occupied" ELSE "not reclaimed")
                /\ UNCHANGED <<script, live, stores>>
           ELSE /\ Done
                /\ live' = live \ Extents(req)
                /\ stores' = [q \in DOMAIN stores \ {req} |-> stores[q]]
                /\ UNCHANGED result
    /\ UNCHANGED <<opts, trace, todo, windows, disk, opening, loaded, mapping, batches, output, faults>>

\* summarize_read_batches: the rows missed and the rows read.
miss_rows == MapThenSumSet(LAMBDA i : batches[i].rows, DOMAIN batches)
read_rows == MapThenSumSet(LAMBDA i : batches[i].reads, DOMAIN batches)

\* The trial's entry of the report, saved at once.
EndTrial ==
    /\ Doing("end")
    /\ IF live # {} THEN Raise("extents leaked") /\ UNCHANGED <<todo, script, output>>
       ELSE /\ result' = [result EXCEPT !.trials = Append(@,
                 [case |-> todo[1].case, repeat |-> todo[1].repeat, mapping |-> mapping,
                  miss_rows |-> miss_rows, read_rows |-> read_rows])]
            /\ output' = result'
            /\ todo' = Tail(todo) /\ script' = << >> /\ pc' = "next"
    /\ UNCHANGED <<opts, trace, windows, disk, live, opening, stores, loaded, mapping, batches, faults>>

LayoutNext ==
    \/ Refuse \/ Plan \/ OpenPool \/ StartTrial \/ CompleteRun \/ Unwind \/ Close
    \/ OpenStore \/ AppendRows \/ AppendNothing \/ Flush \/ Fetch \/ Release \/ EndTrial
=============================================================================
