---------------------------- MODULE QualityStudy ----------------------------
(***************************************************************************)
(* The quality tools in scripts/quality around the collection runs:        *)
(* convert_datasets.py keeps the examples that can be scored and are short *)
(* enough, sample_dataset.py draws batches from them, the runner collects  *)
(* the answers of run A and of run B into one results file each, and       *)
(* analyze_quality.py and reconcile_swaps.py compare the two files.        *)
(*                                                                         *)
(* TraceCollection is about the runner itself; here it appends a row per   *)
(* example that has no ok row yet.  An example is                          *)
(*   [id, task, reference, match, tokens]                                  *)
(* and an output [form, tokens], where form says whether the text names an *)
(* option explicitly ("the answer is C"), starts with the letter ("C.") or *)
(* does neither, and the letter is the first token.  The ids of a dataset  *)
(* are distinct: load_dataset refuses others.                              *)
(***************************************************************************)
EXTENDS Integers, Sequences, FiniteSets, FiniteSetsExt, SequencesExt

CONSTANTS
  MaxPromptTokens,  \* longest prompt kept, the answer included
  MaxReruns         \* times a collection is started again

VARIABLES
  qopts,      \* arguments: source, count, ..., and the outputs the model may give
  qstage,     \* idle, convert, sample, collect, analyze, reconcile, done, exited
  source,     \* raw rows not converted yet
  endpoint,   \* the tokenize endpoint is in use
  dataset,    \* the normalized dataset
  batchFiles,    \* the batch files
  results,    \* the results files, 1 for run A and 2 for run B
  collecting, \* the run being collected
  pending,    \* its examples not yet asked in this pass
  reruns,
  summary,    \* summary.json of analyze_quality.py
  reconciled  \* regressions and controls of reconcile_swaps.py

studyVars == <<qopts, qstage, source, endpoint, dataset, batchFiles, results, collecting,
               pending, reruns, summary, reconciled>>

NoReference == 0

Unscored == "none"

NoSummary == [compared |-> << >>, unpaired |-> <<0, 0>>, rows |-> << >>,
              regressions |-> << >>, improvements |-> << >>]

NoReconcile == [regressions |-> << >>, controls |-> << >>]

----------------------------------------------------------------------------
(* common.py *)

\* Lower case takes the option off a text that only starts with its letter.
normalize_answer(out) ==
    [out EXCEPT !.form = IF @ = "leading" THEN "text" ELSE @]

extract_option(out) ==
    IF out.form \in {"explicit", "leading"} THEN out.tokens[1] ELSE NoReference

match_answer(output, example) ==
    LET out == normalize_answer(output)
        right == CASE example.match = "exact"   -> out.tokens = <<example.reference>>
                   [] example.match = "option"  -> extract_option(out) = example.reference
                   [] example.match = "contain" -> example.reference \in ToSet(out.tokens)
    IN  IF example.reference = NoReference THEN Unscored
        ELSE IF right THEN "right" ELSE "wrong"

----------------------------------------------------------------------------
(* sample_dataset.py *)

TaskOf(rows) == {rows[i].task : i \in DOMAIN rows}

\* One round over the tasks in order: the next row of each.
PickRound(acc, count) ==
    FoldLeft(LAMBDA a, task :
                IF a.groups[task] # << >> /\ Len(a.picked) < count
                THEN [groups |-> [a.groups EXCEPT ![task] = Tail(@)],
                      picked |-> Append(a.picked, Head(a.groups[task]))]
                ELSE a,
             acc, SetToSortSeq(DOMAIN acc.groups, <))

Groups(rows) == [task \in TaskOf(rows) |-> SelectSeq(rows, LAMBDA r : r.task = task)]

\* Mutant: a task is taken whole before the next one.
pick_whole(rows, count) ==
    SubSeq(FlattenSeq([i \in 1 .. Cardinality(TaskOf(rows)) |->
                         Groups(rows)[SetToSortSeq(TaskOf(rows), <)[i]]]), 1, count)

pick(rows, count) ==
    FoldLeft(LAMBDA a, i : PickRound(a, count),
             [groups |-> Groups(rows), picked |-> << >>], [i \in 1 .. count |-> i]).picked

\* random.Random(seed).sample: any selection in any order.
RandomSamples(rows, count) ==
    {[i \in 1 .. count |-> rows[p[i]]] :
        p \in {f \in [1 .. count -> DOMAIN rows] : \A i, j \in 1 .. count : f[i] = f[j] => i = j}}

Chunks(rows, size) ==
    [b \in 1 .. (Len(rows) + size - 1) \div size |->
        SubSeq(rows, (b - 1) * size + 1, Min({b * size, Len(rows)}))]

----------------------------------------------------------------------------
(* analyze_quality.py and reconcile_swaps.py *)

Ids(rows) == {rows[i].id : i \in DOMAIN rows}

OkRows(rows) == {i \in DOMAIN rows : rows[i].ok}

OkIds(rows) == {rows[i].id : i \in OkRows(rows)}

\* Mutant: an answer that failed counts too.
results_by_id_failed(rows) ==
    [id \in OkIds(rows) |-> rows[Min({i \in DOMAIN rows : rows[i].id = id})]]

\* The first ok row of every example.
results_by_id(rows) ==
    [id \in OkIds(rows) |-> rows[Min({i \in OkRows(rows) : rows[i].id = id})]]

\* reconcile_swaps.py lets a later row replace an earlier one.
LastOk(rows) ==
    [id \in OkIds(rows) |-> rows[Max({i \in OkRows(rows) : rows[i].id = id})]]

\* The first position where two token sequences differ, 0 for none.
divergence(a, b) ==
    LET differ == {i \in 1 .. Min({Len(a), Len(b)}) : a[i] # b[i]}
    IN  CASE differ # {} -> Min(differ)
          [] differ = {} /\ Len(a) = Len(b) -> 0
          [] OTHER -> Min({Len(a), Len(b)}) + 1

compare(a, b, example) ==
    [id         |-> example.id,
     score_a    |-> match_answer(a.output, example),
     score_b    |-> match_answer(b.output, example),
     agree      |-> a.output.tokens = b.output.tokens,
     divergence |-> divergence(a.output.tokens, b.output.tokens)]

IdsOf(rows) == [i \in DOMAIN rows |-> rows[i].id]

summarize(examples, byA, byB) ==
    LET shared == SelectSeq(examples, LAMBDA e : e.id \in DOMAIN byA \cap DOMAIN byB)
        joined == [i \in DOMAIN shared |-> compare(byA[shared[i].id], byB[shared[i].id], shared[i])]
        ids == Ids(examples)
    IN  [compared     |-> shared,
         unpaired     |-> <<Cardinality(ids \cap (DOMAIN byA \ DOMAIN byB)),
                            Cardinality(ids \cap (DOMAIN byB \ DOMAIN byA))>>,
         rows         |-> joined,
         regressions  |-> IdsOf(SelectSeq(joined, LAMBDA r : r.score_a = "right" /\ r.score_b = "wrong")),
         improvements |-> IdsOf(SelectSeq(joined, LAMBDA r : r.score_b = "right" /\ r.score_a = "wrong"))]

reconcile(examples, byA, byB, controls) ==
    LET paired == SelectSeq(examples, LAMBDA e : e.id \in DOMAIN byA \cap DOMAIN byB)
        scored(e) == <<match_answer(byA[e.id].output, e), match_answer(byB[e.id].output, e)>>
        lost == IdsOf(SelectSeq(paired, LAMBDA e : scored(e) = <<"right", "wrong">>))
        kept == IdsOf(SelectSeq(paired, LAMBDA e : scored(e) = <<"right", "right">>))
    IN  [regressions |-> lost, controls |-> SubSeq(kept, 1, Min({controls, Len(kept)}))]

----------------------------------------------------------------------------
(* Steps *)

StudyInit ==
    /\ qopts = << >> /\ qstage = "idle" /\ source = << >> /\ endpoint = FALSE
    /\ dataset = << >> /\ batchFiles = << >> /\ results = << << >>, << >> >>
    /\ collecting = 1 /\ pending = << >> /\ reruns = 0
    /\ summary = NoSummary /\ reconciled = NoReconcile

StudyStart(o) ==
    /\ qstage = "idle"
    /\ qopts' = o /\ qstage' = "convert" /\ source' = o.source /\ endpoint' = o.tokenize
    /\ UNCHANGED <<dataset, batchFiles, results, collecting, pending, reruns, summary, reconciled>>

\* The endpoint answers, or is not used again.
ConvertRow ==
    /\ qstage = "convert" /\ source # << >>
    /\ LET row == Head(source)
           scored == row.reference # NoReference
       IN  \E answers \in IF endpoint /\ scored THEN BOOLEAN ELSE {FALSE} :
             /\ endpoint' = IF scored THEN answers ELSE endpoint
             /\ dataset' = IF scored /\ ~(answers /\ row.tokens > MaxPromptTokens)
                           THEN Append(dataset, row) ELSE dataset
    /\ source' = Tail(source)
    /\ UNCHANGED <<qopts, qstage, batchFiles, results, collecting, pending, reruns, summary, reconciled>>

\* No row kept ends the conversion with an error.
EndConvert ==
    /\ qstage = "convert" /\ source = << >>
    /\ qstage' = IF dataset = << >> THEN "exited" ELSE "sample"
    /\ UNCHANGED <<qopts, source, endpoint, dataset, batchFiles, results, collecting, pending,
                   reruns, summary, reconciled>>

SampleDataset ==
    /\ qstage = "sample"
    /\ IF qopts.count > Len(dataset) THEN qstage' = "exited" /\ UNCHANGED <<batchFiles, pending>>
       ELSE \E ordered \in IF qopts.strategy = "random" THEN RandomSamples(dataset, qopts.count)
                           ELSE {pick(dataset, qopts.count)} :
              /\ batchFiles' = Chunks(ordered, qopts.batch_size)
              /\ pending' = ordered
              /\ qstage' = "collect"
    /\ UNCHANGED <<qopts, source, endpoint, dataset, results, collecting, reruns, summary, reconciled>>

\* one_example of the runner: an answer, or a row without one.
CollectRow ==
    /\ qstage = "collect" /\ pending # << >>
    /\ LET id == Head(pending).id
       IN  \E row \in {[id |-> id, ok |-> TRUE, output |-> o] : o \in qopts.outputs}
                      \cup {[id |-> id, ok |-> FALSE, output |-> [form |-> "text", tokens |-> << >>]]} :
             results' = [results EXCEPT ![collecting] = Append(@, row)]
    /\ pending' = Tail(pending)
    /\ UNCHANGED <<qopts, qstage, source, endpoint, dataset, batchFiles, collecting, reruns,
                   summary, reconciled>>

Sampled == FlattenSeq(batchFiles)

\* Started again, also after an interrupt: examples with an ok row are skipped.
Rerun ==
    /\ qstage = "collect" /\ reruns < MaxReruns
    /\ reruns' = reruns + 1
    /\ pending' = SelectSeq(Sampled, LAMBDA e : e.id \notin OkIds(results[collecting]))
    /\ UNCHANGED <<qopts, qstage, source, endpoint, dataset, batchFiles, results, collecting,
                   summary, reconciled>>

EndCollect ==
    /\ qstage = "collect" /\ pending = << >>
    /\ IF collecting = 1 THEN collecting' = 2 /\ pending' = Sampled /\ UNCHANGED qstage
       ELSE qstage' = "analyze" /\ UNCHANGED <<collecting, pending>>
    /\ UNCHANGED <<qopts, source, endpoint, dataset, batchFiles, results, reruns, summary, reconciled>>

Analyze ==
    /\ qstage = "analyze"
    /\ qstage' = "reconcile"
    /\ summary' = summarize(Sampled, results_by_id(results[1]), results_by_id(results[2]))
    /\ UNCHANGED <<qopts, source, endpoint, dataset, batchFiles, results, collecting, pending,
                   reruns, reconciled>>

Reconcile ==
    /\ qstage = "reconcile"
    /\ qstage' = "exited"
    /\ reconciled' = reconcile(Sampled, LastOk(results[1]), LastOk(results[2]), qopts.controls)
    /\ UNCHANGED <<qopts, source, endpoint, dataset, batchFiles, results, collecting, pending,
                   reruns, summary>>

StudyNext ==
    \/ ConvertRow \/ EndConvert \/ SampleDataset \/ CollectRow \/ Rerun \/ EndCollect
    \/ Analyze \/ Reconcile
=============================================================================
