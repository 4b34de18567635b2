----------------------------- MODULE PpaOracle -----------------------------
(***************************************************************************)
(* From the dumps of a sample to the comparison of read orders:            *)
(* scripts/export_ppa_candidates.py turns the directory of one sample into *)
(* an ordered trace, and scripts/mqsim_ppa_oracle.py plans every case      *)
(* (capacity, strategy, budget) against the cache trajectory of the native *)
(* selections, simulates it, and saves summary.json and comparison.csv     *)
(* after every case so that an interrupted run can be resumed.             *)
(*                                                                         *)
(* MQSim itself is external: the simulation of a case either completes,    *)
(* reading what was planned, or the process dies.  The dumps come from     *)
(* TraceCollection.                                                        *)
(***************************************************************************)
EXTENDS TraceCollection

CONSTANTS Scopes,       \* the argument lists: [capacities, budgets, applied, prepare_only]
          MaxCrashes    \* bound on the kills of the oracle

VARIABLES exported, \* the export: its state and the sample it is of
          trace,    \* the exported records, in order
          disk,     \* the output directory
          oracle,   \* the running process
          crashes   \* kills of the oracle so far

vars == <<collection, exported, trace, disk, oracle, crashes>>

----------------------------------------------------------------------------
(* discover, load_record and export *)

DumpedSeqs(d, l) == {s \in Seqs : dumps[d][l, s] # NoDump}

\* discover(): the layers cover the same, consecutive decode steps.
Discoverable(d) ==
    LET seen == DumpedSeqs(d, 0)
    IN  /\ seen # {} /\ seen = Min(seen) .. Max(seen)
        /\ \A l \in LayerIds : DumpedSeqs(d, l) = seen

\* load_record(): a record fit for the replay.
LoadableRecord(d, l, s) ==
    ValidNative(dumps[d][l, s], s) /\ ValidScores(dumps[d][l, s], s)

\* check_dumps: the steps of each layer are consecutive, the records valid, and
\* the layers begin and end at the same step.
check_dumps(d) ==
    LET span(l) == <<Min(DumpedSeqs(d, l)), Max(DumpedSeqs(d, l))>>
        layers == {l \in LayerIds : DumpedSeqs(d, l) # {}}
    IN  /\ layers # {}
        /\ \A l \in layers : /\ DumpedSeqs(d, l) = span(l)[1] .. span(l)[2]
                             /\ \A s \in DumpedSeqs(d, l) : LoadableRecord(d, l, s)
        /\ Cardinality({span(l) : l \in layers}) = 1

\* export() refuses a trace in which only some steps were overridden.
UniformlyApplied(d) ==
    LET recs == {dumps[d][l, s] : l \in LayerIds, s \in DumpedSeqs(d, 0)}
    IN  \/ \A r \in recs : r.overridden
        \/ \A r \in recs : ~r.overridden

\* The rows ordered by step, then layer.
ExportRows(d) ==
    LET first == Min(DumpedSeqs(d, 0))
        n == Cardinality(DumpedSeqs(d, 0)) * Layers
        step(i) == (i - 1) \div Layers
        layer(i) == (i - 1) % Layers
    IN  [i \in 1 .. n |-> [step |-> step(i), layer |-> layer(i), seq |-> first + step(i),
                           dump |-> dumps[d][layer(i), first + step(i)]]]

\* Every example was filtered out, or sent once and answered at once.
FirstTry ==
    \A e \in Ids :
        \/ e \in TooLong /\ sent[e] = 0
        \/ /\ sent[e] = 1
           /\ \E i \in DOMAIN results : results[i] = [id |-> e, ok |-> TRUE, attempts |-> 1]

\* The export happens once the script is done.  Nothing after it reads the state
\* of the collection, which is forgotten.
Export(d) ==
    /\ runner.pc = "done" /\ sent[d] > 0
    /\ LET good == /\ Discoverable(d)
                   /\ \A l \in LayerIds, s \in DumpedSeqs(d, 0) : LoadableRecord(d, l, s)
                   /\ UniformlyApplied(d)
       IN  /\ exported' = [state |-> IF good THEN "complete" ELSE "refused",
                           sample |-> d, checked |-> check_dumps(d),
                           firstTry |-> FirstTry]
           /\ trace' = IF good THEN ExportRows(d) ELSE << >>
    /\ ForgetCollection
    /\ UNCHANGED <<disk, oracle, crashes>>

Exported == exported.state = "complete"

----------------------------------------------------------------------------
(* Planning a case *)

\* baseline_states: the rows of each layer's cache before record i; capacity 0
\* keeps no cache.
baseline_states(capacity) ==
    LET before[i \in 1 .. Len(trace) + 1] ==
            IF i = 1 THEN [l \in LayerIds |-> << >>]
            ELSE LET r == trace[i - 1]
                 IN  IF capacity = 0 THEN before[i - 1]
                     ELSE [before[i - 1] EXCEPT
                             ![r.layer] = commit(@, capacity, r.dump.native)]
    IN  [i \in DOMAIN trace |-> before[i][trace[i].layer]]

\* random_matched: as many exchanges as select() made, drawn from the same
\* eligible tokens (rng.sample raises when there are too few).
RandomPlans(r, resident, n) ==
    LET eligible == Removable(r.dump.native, r.dump.score, resident, 0)
        extra == (DOMAIN r.dump.score \ r.dump.native) \ resident
        plan(old, new) == [selected |-> (r.dump.native \ ToSet(old)) \cup ToSet(new),
                           swaps    |-> Zip(old, new)]
    IN  {plan(SetToSeq(old), SetToSeq(new)) :
            old \in kSubset(n, eligible), new \in kSubset(n, extra)}

\* What selections_with_baseline may plan for a record: the selection and the
\* exchanges.  The set is empty when it raises.
Plans(strategy, budget, r, rows) ==
    LET resident == ToSet(rows) \cup {r.seq - 1}
        picks == {select(r.dump.native, r.dump.score, PlaneOf(r.layer), AllResources,
                         r.seq - 1, budget, 0, ToSet(rows))}
    IN  CASE strategy = "baseline" -> {[selected |-> r.dump.native, swaps |-> << >>]}
          [] strategy = "ppa_aware" ->
               {[selected |-> s.selected, swaps |-> s.swaps] : s \in picks}
          [] strategy = "applied" ->
               IF r.dump.overridden /\ r.dump.digest = rows
               THEN {[selected |-> r.dump.selected, swaps |-> r.dump.swaps]} ELSE {}
          [] strategy = "random_matched" ->
               UNION {RandomPlans(r, resident, Len(s.swaps)) : s \in picks}

\* The per-record contract: cache state, native set, native misses.
Contract(r, rows) ==
    <<r.step, r.layer, rows, r.dump.native, r.dump.native \ (ToSet(rows) \cup {r.seq - 1})>>

\* The contracts of a case, with the number of reads of each record; a case
\* raises when a record has no plan or a plan breaks the miss-only rule.
CaseContracts(key) ==
    LET rows == baseline_states(key[1])
    IN  [i \in DOMAIN trace |-> Contract(trace[i], rows[i])]

CaseRaises(key) ==
    LET rows == baseline_states(key[1])
        resident(i) == ToSet(rows[i]) \cup {trace[i].seq - 1}
        sound(i, p) == MissOnly(trace[i].dump.native, p.selected, p.swaps, resident(i))
    IN  ~\A i \in DOMAIN trace : \E plans \in {Plans(key[2], key[3], trace[i], rows[i])} :
            plans # {} /\ \A p \in plans : sound(i, p)

----------------------------------------------------------------------------
(* The driver *)

\* The cases in the order main() runs them.
Jobs(scope, capacity) ==
    <<<<capacity, "baseline", 0>>>>
        \o (IF scope.applied THEN <<<<capacity, "applied", 0>>>> ELSE << >>)
        \o FlattenSeq([i \in 1 .. Len(scope.budgets) |->
             IF scope.budgets[i] = 0 THEN << >>
             ELSE <<<<capacity, "ppa_aware", scope.budgets[i]>>,
                    <<capacity, "random_matched", scope.budgets[i]>>>>])

AllJobs(scope) == FlattenSeq([i \in 1 .. Len(scope.capacities) |->
                                Jobs(scope, scope.capacities[i])])

InScope(scope, key) ==
    /\ key[1] \in ToSet(scope.capacities)
    /\ key[3] = 0 \/ key[3] \in ToSet(scope.budgets)

NoDisk == [exists |-> FALSE, status |-> "none", mapped |-> FALSE, prepared |-> FALSE,
           results |-> << >>, comparison |-> << >>, cases |-> << >>]

NoProcess == [pc |-> "off", status |-> "running", scope |-> CHOOSE s \in Scopes : TRUE,
              jobs |-> << >>, results |-> << >>, seen |-> << >>]

CaseState(key) == IF key \in DOMAIN disk.cases THEN disk.cases[key] ELSE "absent"

SetCase(d, key, s) ==
    [d EXCEPT !.cases = [k \in DOMAIN @ \cup {key} |-> IF k = key THEN s ELSE @[k]]]

\* --applied needs an export of applied selections, known before any file is
\* touched.
Admitted(scope) == scope.applied => \A i \in DOMAIN trace : trace[i].dump.overridden

\* main() without --resume: the directory must be new; the first summary is
\* written before the mapping exists.
StartFresh(scope) ==
    /\ oracle.pc = "off" /\ Exported /\ Admitted(scope) /\ ~disk.exists
    /\ disk' = [NoDisk EXCEPT !.exists = TRUE, !.status = "running"]
    /\ oracle' = [NoProcess EXCEPT !.pc = "prepare", !.scope = scope,
                                   !.jobs = AllJobs(scope)]
    /\ UNCHANGED <<collection, exported, trace, crashes>>

\* --prepare-only ends with a report of its own.
StatusAfterPrepare(scope) == IF scope.prepare_only THEN "prepared" ELSE "running"

\* The full snapshot is written and its mapping queried.
Prepare ==
    /\ oracle.pc = "prepare"
    /\ disk' = [disk EXCEPT !.prepared = TRUE]
    /\ oracle' = [oracle EXCEPT !.pc = "summary",
                                !.status = StatusAfterPrepare(oracle.scope)]
    /\ UNCHANGED <<collection, exported, trace, crashes>>

\* main() with --resume: the saved summary must name the prepared mapping, the
\* results in scope must have a complete case directory and are kept.
\* (--prepare-only returns before it looks at them: its report has none.)
ResumeAllowed == disk.exists /\ disk.prepared /\ disk.mapped

KeptResults_no_zero(scope) ==
    SelectSeq(disk.results, LAMBDA key : /\ key[1] \in ToSet(scope.capacities)
                                         /\ key[3] \in ToSet(scope.budgets))

KeptResults(scope) == SelectSeq(disk.results, LAMBDA key : InScope(scope, key))

Resume(scope) ==
    /\ oracle.pc = "off" /\ Exported /\ Admitted(scope) /\ ResumeAllowed
    /\ LET kept == IF scope.prepare_only THEN << >> ELSE KeptResults(scope)
       IN  oracle' = IF \A i \in DOMAIN kept : CaseState(kept[i]) = "complete"
                     THEN [NoProcess EXCEPT !.pc = "summary", !.scope = scope,
                                            !.jobs = AllJobs(scope), !.results = kept,
                                            !.status = StatusAfterPrepare(scope)]
                     ELSE [NoProcess EXCEPT !.pc = "raised"]
    /\ UNCHANGED <<collection, exported, trace, disk, crashes>>

\* A directory that died before its mapping was saved cannot be resumed: the
\* operator starts over with another one.
Discard ==
    /\ oracle.pc = "off" /\ disk.exists /\ ~ResumeAllowed
    /\ disk' = NoDisk
    /\ UNCHANGED <<collection, exported, trace, oracle, crashes>>

\* save_report: summary.json is replaced first, comparison.csv after it and
\* only when there are results.
SaveSummary ==
    /\ oracle.pc = "summary"
    /\ disk' = [disk EXCEPT !.results = oracle.results, !.mapped = TRUE,
                            !.status = oracle.status]
    /\ oracle' = [oracle EXCEPT !.pc = "comparison"]
    /\ UNCHANGED <<collection, exported, trace, crashes>>

SaveComparison ==
    /\ oracle.pc = "comparison"
    /\ disk' = [disk EXCEPT !.comparison = IF oracle.results = << >> THEN @ ELSE oracle.results]
    /\ oracle' = [oracle EXCEPT !.pc = IF oracle.status = "running" THEN "case" ELSE "off"]
    /\ UNCHANGED <<collection, exported, trace, crashes>>

\* The contracts of the cases of a capacity must agree with the first one's.
Disagrees(key) ==
    \E i \in DOMAIN oracle.seen : /\ oracle.seen[i][1] = key[1]
                                  /\ CaseContracts(oracle.seen[i]) # CaseContracts(key)

\* The next case: skipped when completed, else planned into a new directory (an
\* unfinished one is renamed away).
SkipCompleted ==
    /\ oracle.pc = "case" /\ oracle.jobs # << >>
    /\ LET key == Head(oracle.jobs)
       IN  /\ key \in ToSet(oracle.results)
           /\ oracle' = IF Disagrees(key) THEN [oracle EXCEPT !.pc = "raised"]
                        ELSE [oracle EXCEPT !.jobs = Tail(@), !.seen = Append(@, key)]
    /\ UNCHANGED <<collection, exported, trace, disk, crashes>>

PlanCase_again ==
    /\ oracle.pc = "case" /\ oracle.jobs # << >>
    /\ LET key == Head(oracle.jobs)
       IN  /\ disk' = SetCase(disk, key, "partial")
           /\ oracle' = [oracle EXCEPT !.pc = IF CaseRaises(key) \/ Disagrees(key)
                                              THEN "raised" ELSE "simulate"]
    /\ UNCHANGED <<collection, exported, trace, crashes>>

PlanCase ==
    /\ oracle.pc = "case" /\ oracle.jobs # << >>
    /\ LET key == Head(oracle.jobs)
       IN  /\ key \notin ToSet(oracle.results)
           /\ disk' = SetCase(disk, key, "partial")
           /\ oracle' = [oracle EXCEPT !.pc = IF CaseRaises(key) \/ Disagrees(key)
                                              THEN "raised" ELSE "simulate"]
    /\ UNCHANGED <<collection, exported, trace, crashes>>

\* run_sim and the accounting: layers.csv completes the case directory.
SimulateCase ==
    /\ oracle.pc = "simulate"
    /\ disk' = SetCase(disk, Head(oracle.jobs), "complete")
    /\ oracle' = [oracle EXCEPT !.pc = "summary", !.jobs = Tail(@),
                                !.results = Append(@, Head(oracle.jobs)),
                                !.seen = Append(@, Head(oracle.jobs))]
    /\ UNCHANGED <<collection, exported, trace, crashes>>

\* All cases were skipped or saved: the final report.
FinishReport ==
    /\ oracle.pc = "case" /\ oracle.jobs = << >>
    /\ oracle' = [oracle EXCEPT !.pc = "summary", !.status = "complete"]
    /\ UNCHANGED <<collection, exported, trace, disk, crashes>>

\* A kill at any point; the files on disk stay as they are.
Kill ==
    /\ oracle.pc \notin {"off", "raised"} /\ crashes < MaxCrashes
    /\ crashes' = crashes + 1
    /\ oracle' = NoProcess
    /\ UNCHANGED <<collection, exported, trace, disk>>

----------------------------------------------------------------------------
Init ==
    /\ CollectionInit
    /\ exported = [state |-> "no", sample |-> "_", checked |-> FALSE, firstTry |-> FALSE]
    /\ trace = << >>
    /\ disk = NoDisk
    /\ oracle = NoProcess
    /\ crashes = 0

OracleStep ==
    \/ \E d \in Ids : Export(d)
    \/ \E scope \in Scopes : StartFresh(scope) \/ Resume(scope)
    \/ Prepare \/ Discard \/ SaveSummary \/ SaveComparison
    \/ SkipCompleted \/ PlanCase \/ SimulateCase \/ FinishReport

Collect == CollectionNext /\ UNCHANGED <<exported, trace, disk, oracle, crashes>>

\* The places where the pipeline may stop: a refused export, a refused case.
Stopped ==
    /\ exported.state = "refused" \/ oracle.pc = "raised"
    /\ UNCHANGED vars

Next == (exported.state = "no" /\ Collect) \/ OracleStep \/ Kill \/ Stopped

Spec == Init /\ [][Next]_vars

----------------------------------------------------------------------------
(* Properties *)

\* When every example was answered at the first try, the trace of a sample that
\* stays inside the prepared mapping passes check_dumps and the export, and no
\* case the oracle plans at the capacity the hook ran with is refused: the online
\* LRU the hook recorded step by step is the one the offline replay of the native
\* selections rebuilds, and every strategy keeps the native hits and the number
\* of reads (the ValueErrors of export and selections_with_baseline).
FirstTryReplays ==
    (/\ exported.state # "no" /\ exported.firstTry
     /\ \A l \in LayerIds, s \in Prompt[exported.sample] .. LastSeq(exported.sample) :
            InMapping(l, s))
        => /\ exported.checked /\ Exported
           /\ oracle.pc = "raised" => oracle.scope.applied
                                       /\ ToSet(oracle.scope.capacities) # {Capacity}

\* results.jsonl holds at most one ok row of an example however often the
\* script was interrupted and started again, and a run that reports itself
\* complete has a row for every example (the done set of main()).
AnswersOnce ==
    /\ \A i, j \in DOMAIN results :
          results[i].ok /\ results[j].ok /\ results[i].id = results[j].id => i = j
    /\ status = "complete" => {results[i].id : i \in DOMAIN results} = Ids

\* Every result of summary.json belongs to a complete case directory and is
\* listed once, whenever the oracle is killed and with whatever scope it is
\* resumed; once it says complete, comparison.csv has the same rows (save_report,
\* main).
ReportBacked ==
    /\ \A i \in DOMAIN disk.results :
          /\ CaseState(disk.results[i]) = "complete"
          /\ \A j \in DOMAIN disk.results : disk.results[i] = disk.results[j] => i = j
    /\ disk.status = "complete" => disk.comparison = disk.results

\* A saved result that is in the scope of a run is never dropped or simulated
\* again by it: no step takes it out of summary.json or reopens its case directory
\* (--resume together with --prepare-only, which saves an empty report over the
\* results, is excepted).
ProgressKept ==
    [][\A key \in ToSet(disk.results) :
          InScope(oracle'.scope, key) /\ oracle'.pc # "off" /\ ~oracle'.scope.prepare_only =>
             key \in ToSet(disk'.results) /\ disk'.cases[key] = "complete"]_vars
=============================================================================
