---------------------------- MODULE ReplayBench -----------------------------
(***************************************************************************)
(* The replay benchmarks together.  A job is one of                        *)
(*   - bench/convert_trace.py, then layout_replay.py or single_ssd.py on   *)
(*     its output;                                                         *)
(*   - scripts/export_hbm_miss_traces.py on a directory of dumps, then     *)
(*     scripts/bench_hbm_misses.py, which runs layout_replay.py once per   *)
(*     cache capacity, strategy and repetition;                            *)
(*   - the study of scripts/quality.                                       *)
(*                                                                         *)
(* Every layer has its own cache, so the exporter walks layer by layer; a  *)
(* trace file is ordered by step and layer.                                *)
(***************************************************************************)
EXTENDS LayoutReplay, SingleSsd, QualityStudy, PpaSelection

CONSTANTS
  Jobs,             \* the jobs, records with a field tool
  HbmCapacities,    \* rows per layer (4096 and 8192 in the code)
  FirstLen,         \* context length of the first dumped step
  Ranked(_),        \* the ranked candidates of a context length
  Natives(_)        \* the native selections of a context length

VARIABLES
  job,
  phase,      \* convert, study, export, bench, running, done
  dumps,      \* the native selections, per layer and step
  walk,       \* layer and step the exporter is at
  caches,     \* per capacity the caches of the layer: base and aware
  spool,      \* the rows exported, per capacity and strategy
  bench       \* what bench_hbm_misses.py has: cases to run, rows, mapping, error

benchVars == <<job, phase, dumps, walk, caches, spool, bench>>

vars == <<layoutVars, ssdVars, studyVars, benchVars>>

Modes == <<"baseline", "same_state_replacement", "independent_replacement">>

Cold == [c \in HbmCapacities |-> [base |-> << >>, aware |-> << >>]]

EmptySpool == [c \in HbmCapacities |-> [m \in Strategies |-> {}]]

NoBench == [todo |-> << >>, rows |-> << >>, mapping |-> {}, error |-> "none"]

DumpsOf(j) ==
    [1 .. j.layers -> {n \in [1 .. j.steps -> UNION {Natives(FirstLen + s) : s \in 0 .. j.steps - 1}] :
                         \A s \in 1 .. j.steps : n[s] \in Natives(FirstLen + s - 1)}]

Init ==
    /\ LayoutInit /\ SsdInit /\ StudyInit
    /\ job \in Jobs
    /\ phase = CASE job.tool = "hbm" -> "export"
                 [] job.tool = "quality" -> "study"
                 [] OTHER -> "convert"
    /\ dumps \in IF job.tool = "hbm" THEN DumpsOf(job) ELSE {<< >>}
    /\ walk = [layer |-> 1, step |-> 1]
    /\ caches = Cold /\ spool = EmptySpool /\ bench = NoBench

----------------------------------------------------------------------------
(* convert_trace.py, then one of the two programs *)

Convert ==
    /\ phase = "convert"
    /\ IF ~Convertible(job.raw)
       THEN phase' = "done" /\ UNCHANGED <<layoutVars, ssdVars>>
       ELSE /\ phase' = "running"
            /\ \/ job.tool = "layout" /\ LayoutStart(job.opts, convert(job.raw)) /\ UNCHANGED ssdVars
               \/ job.tool = "single" /\ SsdStart(job.opts, convert(job.raw)) /\ UNCHANGED layoutVars
    /\ UNCHANGED <<studyVars, job, dumps, walk, caches, spool, bench>>

\* The study of scripts/quality.
Study ==
    /\ phase = "study"
    /\ StudyStart(job.opts)
    /\ phase' = "running"
    /\ UNCHANGED <<layoutVars, ssdVars, job, dumps, walk, caches, spool, bench>>

----------------------------------------------------------------------------
(* export_hbm_miss_traces.py *)

measure(selected, cache, ready) ==
    [selected   |-> Cardinality(selected),
     cache_hits |-> Cardinality(selected \cap cache),
     fresh_hits |-> Cardinality((selected \ cache) \cap ready),
     misses     |-> Cardinality(selected) - Cardinality(selected \cap cache)
                      - Cardinality((selected \ cache) \cap ready)]

\* The row a strategy exports: its misses are what the SSD has to deliver.
MissRow(mode, selected, cache, ready, capacity, len) ==
    measure(selected, cache, ready) @@
    [req |-> 0, step |-> walk.step - 1, layer |-> walk.layer - 1, ctx |-> len,
     topk |-> Sorted(selected \ (cache \cup ready)), warmup |-> walk.step <= job.warmup_steps,
     capacity |-> capacity, strategy |-> mode]

Native == dumps[walk.layer][walk.step]

\* One dumped record: every capacity has a cache that follows the native
\* selection and one that follows the cache-aware choice.
ExportRecord ==
    /\ phase = "export" /\ walk.layer <= job.layers
    /\ LET len == FirstLen + walk.step - 1
           ready == IF job.resident THEN {len - 1} ELSE {}
           rowsOf(c) == ToSet(caches[c].base)
           awareRows(c) == ToSet(caches[c].aware)
           aware(cache) == choose(Native, Ranked(len), cache \cup ready, job.max_replacements, job.protect_top)
           row(c, m) ==
             CASE m = "baseline" -> MissRow(m, Native, rowsOf(c), ready, c, len)
               [] m = "same_state_replacement" -> MissRow(m, aware(rowsOf(c)), rowsOf(c), ready, c, len)
               [] m = "independent_replacement" -> MissRow(m, aware(awareRows(c)), awareRows(c), ready, c, len)
           last == walk.step = job.steps
       IN  /\ spool' = [c \in HbmCapacities |-> [m \in Strategies |-> spool[c][m] \cup {row(c, m)}]]
           /\ caches' = IF last THEN Cold
                        ELSE [c \in HbmCapacities |->
                                [base  |-> commit(caches[c].base, c, Native),
                                 aware |-> commit(caches[c].aware, c, aware(awareRows(c)))]]
           /\ walk' = IF last THEN [layer |-> walk.layer + 1, step |-> 1]
                      ELSE [walk EXCEPT !.step = @ + 1]
    /\ UNCHANGED <<layoutVars, ssdVars, studyVars, job, phase, dumps, bench>>

----------------------------------------------------------------------------
(* bench_hbm_misses.py *)

\* The file of a capacity and strategy, ORDER BY step, layer.
TraceFile(c, m) ==
    SetToSortSeq(spool[c][m],
                 LAMBDA a, b : a.step < b.step \/ (a.step = b.step /\ a.layer < b.layer))

\* The manifest's totals leave out the warm-up.
MeasuredMisses(c, m) ==
    MapThenSumSet(LAMBDA r : r.misses, {r \in spool[c][m] : ~r.warmup})

\* simulate_hbm_candidates.py on the same dumps: the misses it reports for a
\* capacity, per strategy.
simulate(c) ==
    LET step(l, acc, s) ==
          LET len == FirstLen + s - 1
              native == dumps[l][s]
              ready == IF job.resident THEN {len - 1} ELSE {}
              base == ToSet(acc.base)
              aware == ToSet(acc.aware)
              swap(cache) == choose(native, Ranked(len), cache \cup ready, job.max_replacements,
                                    job.protect_top)
              counts == [m \in Strategies |->
                           CASE m = "baseline" -> measure(native, base, ready).misses
                             [] m = "same_state_replacement" -> measure(swap(base), base, ready).misses
                             [] OTHER -> measure(swap(aware), aware, ready).misses]
          IN  [base   |-> commit(acc.base, c, native),
               aware  |-> commit(acc.aware, c, swap(aware)),
               totals |-> IF s <= job.warmup_steps THEN acc.totals
                          ELSE [m \in Strategies |-> acc.totals[m] + counts[m]]]
        cold == [base |-> << >>, aware |-> << >>, totals |-> [m \in Strategies |-> 0]]
        layer(l) == FoldLeft(LAMBDA acc, s : step(l, acc, s), cold, [s \in 1 .. job.steps |-> s]).totals
    IN  [m \in Strategies |-> MapThenSumSet(LAMBDA l : layer(l)[m], 1 .. job.layers)]

CaseFiles ==
    FlattenSeq([i \in 1 .. Cardinality(HbmCapacities) |->
        [m \in DOMAIN Modes |->
            [capacity |-> SetToSortSeq(HbmCapacities, <)[i], strategy |-> Modes[m]]]])

\* Without --allow-device-write every case is only planned, once.
StartBench ==
    /\ phase = "export" /\ walk.layer > job.layers
    /\ phase' = "bench"
    /\ bench' = [NoBench EXCEPT !.todo =
          FlattenSeq([r \in 1 .. (IF job.allow_device_write THEN job.repeats ELSE 1) |->
                        IF r % 2 = 1 THEN CaseFiles ELSE Reverse(CaseFiles)])]
    /\ UNCHANGED <<layoutVars, ssdVars, studyVars, job, dumps, walk, caches, spool>>

CaseOptions ==
    [mode |-> "snapshot", placement |-> "hash", experiment |-> "layout-concurrency",
     segments |-> {job.segment}, worker_sweep |-> {job.workers}, workers |-> 4, layouts |-> {0},
     miss_trace |-> TRUE, merge |-> TRUE, max_read |-> 256, max_topk |-> NativeTopk,
     repeats |-> 1, verify |-> TRUE, devices_config |-> TRUE, kind |-> "device",
     window_rows |-> job.window_rows, allow_device_write |-> job.allow_device_write,
     dry_run |-> ~job.allow_device_write]

RunCase ==
    /\ phase = "bench" /\ bench.todo # << >>
    /\ LET case == bench.todo[1]
       IN  LayoutStart(CaseOptions, TraceFile(case.capacity, case.strategy))
    /\ phase' = "running"
    /\ UNCHANGED <<ssdVars, studyVars, job, dumps, walk, caches, spool, bench>>

\* The checks of a finished case; the rows are saved after every one.
CaseError(case) ==
    LET trial == output.trials[1]
        misses == MeasuredMisses(case.capacity, case.strategy)
    IN  CASE result.status \notin {"complete", "planned"} -> "case failed"
          [] result.status = "planned" -> "none"
          [] output.status # "complete" \/ Len(output.trials) # 1 -> "incomplete"
          [] trial.miss_rows # misses -> "rows differ"
          [] trial.read_rows # misses -> "bytes differ"
          [] bench.mapping \notin {{}, trial.mapping} -> "mapping differs"
          [] OTHER -> "none"

EndCase ==
    /\ phase = "running" /\ job.tool = "hbm" /\ pc = "exited"
    /\ LET case == bench.todo[1]
           error == CaseError(case)
       IN  bench' = IF error # "none" THEN [bench EXCEPT !.error = error, !.todo = << >>]
                    ELSE IF result.status = "planned" THEN [bench EXCEPT !.todo = Tail(@)]
                    ELSE [bench EXCEPT !.todo = Tail(@), !.rows = Append(@, case),
                                       !.mapping = output.trials[1].mapping]
    /\ phase' = "bench"
    /\ UNCHANGED <<layoutVars, ssdVars, studyVars, job, dumps, walk, caches, spool>>

\* The comparison needs rows of every case and of its baseline.
EndBench ==
    /\ phase = "bench" /\ bench.todo = << >>
    /\ phase' = "done"
    /\ bench' = IF /\ bench.error = "none" /\ job.allow_device_write
                   /\ ToSet(bench.rows) # ToSet(CaseFiles)
                THEN [bench EXCEPT !.error = "no rows to compare"] ELSE bench
    /\ UNCHANGED <<layoutVars, ssdVars, studyVars, job, dumps, walk, caches, spool>>

----------------------------------------------------------------------------
Exit ==
    /\ phase = "running" /\ job.tool # "hbm"
    /\ CASE job.tool = "layout"  -> pc = "exited"
         [] job.tool = "single"  -> stage = "exited"
         [] job.tool = "quality" -> qstage = "exited"
    /\ phase' = "done"
    /\ UNCHANGED <<layoutVars, ssdVars, studyVars, job, dumps, walk, caches, spool, bench>>

Stopped == phase = "done" /\ UNCHANGED vars

Next ==
    \/ Convert \/ Study \/ ExportRecord \/ StartBench \/ RunCase \/ EndCase \/ EndBench \/ Exit \/ Stopped
    \/ phase = "running" /\ LayoutNext /\ UNCHANGED <<ssdVars, studyVars, benchVars>>
    \/ phase = "running" /\ SsdNext /\ UNCHANGED <<layoutVars, studyVars, benchVars>>
    \/ phase = "running" /\ StudyNext /\ UNCHANGED <<layoutVars, ssdVars, benchVars>>

Spec == Init /\ [][Next]_vars

----------------------------------------------------------------------------
(* Properties *)

\* The checks the benchmarks make at run time never fire on their own: the
\* capacities computed from the trace hold all segments, every fetched row is
\* on the device and exact, released segments come back, statistics agree
\* with the plan, and the cases of bench_hbm_misses.py read what the exporter
\* counted, through one mapping.  Only an I/O error ends a run, or write
\* segments that do not divide the largest one.
OnlyFaultsFail ==
    /\ \/ result.error \in {"none", "io"}
       \/ result.error = "geometry" /\ \E s \in Segments(opts) : Max(Segments(opts)) % s # 0
    /\ report.error \in {"none", "io"}
    /\ bench.error = "none" \/ (bench.error = "case failed" /\ result.error = "io")

\* PoolClient.live is what the open stores and the store being opened hold,
\* without overlap, and between trials nothing: also after a failure at any
\* device of an opening store or at any call of a trial.
ExtentsReturned ==
    /\ live = UNION {Extents(req) : req \in DOMAIN stores} \cup ToSet(opening)
    /\ pc \notin {"trial", "unwind"} => live = {}
    /\ \A e, f \in live : e.dev = f.dev /\ e # f => Span(e.page, e.size) \cap Span(f.page, f.size) = {}

\* A thread of single_ssd.py works only while the buffers exist, its run fits
\* its own buffer and the output buffer, and no two threads write the same
\* part of the output.
BuffersRespected ==
    \A w \in SsdThreads : thread[w] # Resting =>
        LET run == thread[w].run
        IN  /\ buffers = "ready"
            /\ run.count <= cmd.max_read /\ run.dst + run.count - 1 <= cmd.max_topk
            /\ \A v \in SsdThreads \ {w} : thread[v] # Resting =>
                 Span(run.dst, run.count) \cap Span(thread[v].run.dst, thread[v].run.count) = {}

\* A larger cache keeps all that a smaller one keeps, the newest rows first:
\* with the native selections a larger capacity never reads more.  And in the
\* same state the cache-aware choice never reads more than the native one.
CachesNested ==
    /\ \A b, c \in HbmCapacities : b < c => IsSuffix(caches[b].base, caches[c].base)
    /\ \A c \in HbmCapacities : \A r \in spool[c]["same_state_replacement"] :
         \E n \in spool[c]["baseline"] :
            n.step = r.step /\ n.layer = r.layer /\ r.misses <= n.misses

\* Two tools that answer the same question from the same files agree.  The
\* totals in the exporter's manifest, summed row by row, are the misses that
\* simulate_hbm_candidates.py reports; analyze_quality.py, which takes the
\* first ok row of an example, and reconcile_swaps.py, which takes the last,
\* name the same regressions, however often the collections were rerun, and
\* none of them is an example on which the two runs agree.
ToolsAgree ==
    /\ phase = "bench" /\ bench.rows = << >> =>
         \A c \in HbmCapacities : simulate(c) = [m \in Strategies |-> MeasuredMisses(c, m)]
    /\ job.tool = "quality" /\ phase = "done" =>
         /\ summary.regressions = reconciled.regressions
         /\ \A i \in DOMAIN summary.rows :
              /\ summary.rows[i].agree <=> summary.rows[i].divergence = 0
              /\ summary.rows[i].agree => summary.rows[i].id \notin ToSet(summary.regressions)

\* The batches of sample_dataset.py hold as many distinct examples as were
\* asked for, and taken task by task in turn no task is two ahead of another
\* that still has examples left: also at every batch boundary.
SampleFair ==
    batchFiles # << >> =>
        LET drawn == FlattenSeq(batchFiles)
            taken(t, k) == {i \in 1 .. k : drawn[i].task = t}
        IN  /\ Len(drawn) = qopts.count /\ IsInjective(drawn) /\ ToSet(drawn) \subseteq ToSet(dataset)
            /\ qopts.strategy = "task-round-robin" =>
                 \A k \in DOMAIN drawn : \A t, u \in TaskOf(dataset) :
                    Cardinality(taken(t, k)) > Cardinality(taken(u, k)) + 1 =>
                        Cardinality(taken(u, k)) = Len(Groups(dataset)[u])
=============================================================================
