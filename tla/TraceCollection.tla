-------------------------- MODULE TraceCollection --------------------------
(***************************************************************************)
(* Collecting attention traces: scripts/quality/run_quality_collection.py  *)
(* sends one example after the other to the model server and names the     *)
(* current one in the marker file; scripts/dsa_hook/dsa_dump_hook.py, run  *)
(* by every tensor-parallel rank after the fused top-k of every layer of   *)
(* every decode step, reads the marker, replaces the native selection by   *)
(* the one rank 0 broadcasts, and (on the dump rank, rank 0) writes the    *)
(* record of the step into the directory of the sample.                    *)
(*                                                                         *)
(* The server is external: it decodes the requests it holds, in one batch  *)
(* when it holds several, and may go on decoding a request whose client    *)
(* has given up.  What the indexer computes at a step is an element of     *)
(* Outputs.  Clients time out, are interrupted or killed, the tokenizer    *)
(* fails and the server restarts, MaxFaults times in all.                  *)
(***************************************************************************)
EXTENDS PpaSelection

CONSTANTS Examples,     \* the dataset, in the order of the file
          TooLong,      \* examples the tokenizer check filters out
          Layers,       \* number of layers: 0 .. Layers - 1
          Prompt,       \* context length of an example's first decode step
          Steps,        \* decode steps of a request
          Outputs(_, _, _), \* example, layer, seq -> {[native, score]}
          NativeTopk,   \* DSA_DUMP_NATIVE_TOPK
          RefTopk,      \* DSA_DUMP_REF_TOPK
          Stride,       \* tokens of a layer's region (DSA_OVERRIDE_STRIDE_TOKENS)
          PerPage,      \* token rows in a NAND page
          Planes,       \* the mapping: plane of each page, from page 0
          Capacity,     \* DSA_OVERRIDE_CAPACITY
          Budget,       \* DSA_OVERRIDE_BUDGET
          MaxSteps,     \* DSA_DUMP_MAX_STEPS_PER_LAYER, 0 for no limit
          MaxFaults     \* bound on failures, timeouts, interrupts, kills, restarts

VARIABLES
    runner,   \* the collection script: pc, position, attempt, finished ids, and
              \* whether it still asks the tokenizer
    marker,   \* contents of current_sample, "absent" when there is none
    results,  \* results.jsonl
    status,   \* manifest.json: status
    active,   \* requests the server holds
    call,     \* the hook call in progress: where each rank is
    hook,     \* per rank: sample, LRU of each layer, dumps of each layer
    dumps,    \* directory -> layer, seq -> record
    faults,   \* faults so far
    sent      \* requests sent for each example (history)

\* _override_config disables the override, and load_dataset refuses the dataset,
\* unless these hold.
ValidOverride == Capacity >= NativeTopk /\ Budget >= 0 /\ Stride > 0

ValidDataset == Examples # << >> /\ \A i, j \in DOMAIN Examples :
                                       Examples[i] = Examples[j] => i = j

ASSUME ConfigAssumption == ValidOverride /\ ValidDataset

collection == <<runner, marker, results, status, active, call, hook, dumps,
                faults, sent>>

Ranks == {0, 1}
LayerIds == 0 .. Layers - 1
Ids == ToSet(Examples)
LastSeq(e) == Prompt[e] + Steps - 1
Seqs == UNION {Prompt[e] .. LastSeq(e) : e \in Ids}
NoDump == [ex |-> "_"]
NoOutput == [native |-> {}, score |-> << >>]

----------------------------------------------------------------------------
(* Layout and selection *)

\* declared_stride_offsets and token_offset, in pages of the mapping.
PageOf(layer, token) == (layer * Stride + token) \div PerPage

PlaneOf(layer) == [t \in 0 .. Stride - 1 |-> Planes[PageOf(layer, t) + 1]]

AllResources == UNION {resources(p) : p \in ToSet(Planes)}

\* The mapping must reach the current token, or every rank falls back.
InMapping(layer, seq) == PageOf(layer, seq - 1) < Len(Planes)

online_select(out, layer, seq, rows) ==
    select(out.native, out.score, PlaneOf(layer), AllResources, seq - 1,
           Budget, 0, ToSet(rows))

----------------------------------------------------------------------------
(* The hook *)

FreshHook == [sample |-> "_",
              lrus   |-> [l \in LayerIds |-> << >>],
              dumped |-> [l \in LayerIds |-> 0]]

\* _rotate_sample: everything that belongs to a sample starts afresh.
rotate_sample(sample) == [FreshHook EXCEPT !.sample = sample]

\* _marker_sample: without a marker the dumps stay in the root directory, "_".
marker_sample == IF marker = "absent" THEN "_" ELSE marker

\* The marker is read on every call: the per-layer last_seq the code means to
\* compare with is never assigned, so every step looks like a boundary.
read_marker_warm(h) == [h EXCEPT !.sample = marker_sample]

read_marker(h) ==
    IF marker_sample = h.sample THEN h ELSE rotate_sample(marker_sample)

\* The step limit counts the dumps of this process, so only the dump rank
\* ever reaches it.  It is checked before the marker is read.
AtStepLimit(h, layer) == MaxSteps > 0 /\ h.dumped[layer] >= MaxSteps

\* The native set and the reference candidates a step must have.
ValidNative(out, seq) ==
    /\ out.native \subseteq 0 .. seq - 1
    /\ Cardinality(out.native) = Min({NativeTopk, seq})

ValidScores(out, seq) ==
    /\ DOMAIN out.score \subseteq 0 .. seq - 1
    /\ Cardinality(DOMAIN out.score) = Min({RefTopk, seq})

NoCall == [on |-> FALSE, layer |-> 0, seq |-> 0, ex |-> "_", out |-> NoOutput,
           at |-> [r \in Ranks |-> "idle"]]

Idle == ~call.on

\* A decode step of a lone request reaches the next layer: the fused top-k has
\* run and every rank calls maybe_dump, which returns at once when the native
\* set is not what it should be (skip_native_invalid; skip_key_gather and
\* skip_nonfinite return from the same place and are this case too).
Live == {r \in active : r.seq <= LastSeq(r.ex)}

Alone(r) == r.layer > 0 \/ (Live = {r} /\ ~r.new)

Forward(r) ==
    /\ Idle
    /\ r \in Live /\ Alone(r)
    /\ \E out \in Outputs(r.ex, r.layer, r.seq) :
          call' = IF ValidNative(out, r.seq)
                  THEN [on |-> TRUE, layer |-> r.layer, seq |-> r.seq, ex |-> r.ex,
                        out |-> out, at |-> [k \in Ranks |-> "enter"]]
                  ELSE NoCall
    /\ active' = (active \ {r}) \cup
                    {IF r.layer + 1 = Layers
                     THEN [r EXCEPT !.layer = 0, !.seq = @ + 1]
                     ELSE [r EXCEPT !.layer = @ + 1]}
    /\ UNCHANGED <<runner, marker, results, status, hook, dumps, faults, sent>>

\* maybe_dump up to the collective: a rank either returns the native selection
\* or waits in the broadcast.
Enter(k) ==
    /\ call.on /\ call.at[k] = "enter"
    /\ IF AtStepLimit(hook[k], call.layer)
       THEN /\ call' = [call EXCEPT !.at[k] = "native"]
            /\ hook' = hook
       ELSE /\ hook' = [hook EXCEPT ![k] = read_marker(@)]
            /\ call' = [call EXCEPT !.at[k] = IF InMapping(call.layer, call.seq)
                                              THEN "broadcast" ELSE "fallback"]
    /\ UNCHANGED <<runner, marker, results, status, active, dumps, faults, sent>>

\* A record of a step, as torch.save writes it.
DumpRecord(rows) ==
    LET s == online_select(call.out, call.layer, call.seq, rows)
    IN  [ex |-> call.ex, native |-> call.out.native, score |-> call.out.score,
         overridden |-> TRUE, selected |-> s.selected, swaps |-> s.swaps,
         digest |-> rows]

NativeRecord == [ex |-> call.ex, native |-> call.out.native,
                 score |-> call.out.score, overridden |-> FALSE]

WriteDump(rec) ==
    dumps' = [dumps EXCEPT ![hook[0].sample][call.layer, call.seq] = rec]

\* _apply_override and the rest of maybe_dump once every rank is in the
\* broadcast: rank 0 selects against its LRU, every rank takes the selection
\* and advances its LRU with the native set, rank 0 writes the record.
apply_override ==
    /\ call.on /\ \A k \in Ranks : call.at[k] = "broadcast"
    /\ WriteDump(DumpRecord(hook[0].lrus[call.layer]))
    /\ hook' = [k \in Ranks |->
                  [hook[k] EXCEPT
                     !.lrus[call.layer] = commit(@, Capacity, call.out.native),
                     !.dumped[call.layer] = IF k = 0 /\ MaxSteps > 0 THEN @ + 1 ELSE @]]
    /\ call' = NoCall
    /\ UNCHANGED <<runner, marker, results, status, active, faults, sent>>

\* Every rank found the context outside the mapping: rank 0 still dumps.
fall_back ==
    /\ call.on /\ \A k \in Ranks : call.at[k] = "fallback"
    /\ WriteDump(NativeRecord)
    /\ hook' = [hook EXCEPT ![0].dumped[call.layer] = IF MaxSteps > 0 THEN @ + 1 ELSE @]
    /\ call' = NoCall
    /\ UNCHANGED <<runner, marker, results, status, active, faults, sent>>

\* A step the hook skips: a prefill is in the batch (skip_state) or several
\* requests are (skip_multi_request).
SkippedStep ==
    /\ Idle
    /\ Live # {} /\ ~\E r \in Live : Alone(r)
    /\ active' = (active \ Live) \cup
                    {IF r.new THEN [r EXCEPT !.new = FALSE] ELSE [r EXCEPT !.seq = @ + 1]
                       : r \in Live}
    /\ UNCHANGED <<runner, marker, results, status, call, hook, dumps, faults, sent>>

----------------------------------------------------------------------------
(* The collection script *)

OkIds == {results[i].id : i \in {j \in DOMAIN results : results[j].ok}}

\* main(): the ids with an ok row are skipped.
StartRun_forgets ==
    /\ runner.pc = "idle"
    /\ runner' = [pc |-> "next", pos |-> 1, attempt |-> 0, done |-> {}, asks |-> TRUE]
    /\ status' = "running"
    /\ UNCHANGED <<marker, results, active, call, hook, dumps, faults, sent>>

StartRun ==
    /\ runner.pc = "idle"
    /\ runner' = [pc |-> "next", pos |-> 1, attempt |-> 0, done |-> OkIds, asks |-> TRUE]
    /\ status' = "running"
    /\ UNCHANGED <<marker, results, active, call, hook, dumps, faults, sent>>

SkipDone ==
    /\ runner.pc = "next" /\ runner.pos <= Len(Examples)
    /\ Examples[runner.pos] \in runner.done
    /\ runner' = [runner EXCEPT !.pos = @ + 1]
    /\ UNCHANGED <<marker, results, status, active, call, hook, dumps, faults, sent>>

\* The marker names the example before its first request.
MarkSample ==
    /\ runner.pc = "next" /\ runner.pos <= Len(Examples)
    /\ Examples[runner.pos] \notin runner.done
    /\ marker' = Examples[runner.pos]
    /\ runner' = [runner EXCEPT !.pc = "send", !.attempt = 1]
    /\ UNCHANGED <<results, status, active, call, hook, dumps, faults, sent>>

Current == Examples[runner.pos]

NextExample == [runner EXCEPT !.pc = "next", !.pos = @ + 1]

AppendRow(ok) ==
    results' = Append(results, [id |-> Current, ok |-> ok, attempts |-> runner.attempt])

\* The tokenizer check is made once, before the first attempt.
Filtered == runner.asks /\ runner.attempt = 1 /\ Current \in TooLong

FilterLong ==
    /\ runner.pc = "send" /\ Filtered
    /\ AppendRow(FALSE)
    /\ runner' = NextExample
    /\ UNCHANGED <<marker, status, active, call, hook, dumps, faults, sent>>

SendRequest ==
    /\ runner.pc = "send" /\ ~Filtered
    /\ active' = active \cup {[ex |-> Current, no |-> sent[Current] + 1, new |-> TRUE,
                               waited |-> TRUE, seq |-> Prompt[Current], layer |-> 0]}
    /\ sent' = [sent EXCEPT ![Current] = @ + 1]
    /\ runner' = [runner EXCEPT !.pc = "wait"]
    /\ UNCHANGED <<marker, results, status, call, hook, dumps, faults>>

Finished(r) == Idle /\ r \notin Live

\* The completion arrives: the row is appended and the counters saved.
Answered(r) ==
    /\ Finished(r) /\ r.waited
    /\ active' = active \ {r}
    /\ AppendRow(TRUE)
    /\ runner' = NextExample
    /\ UNCHANGED <<marker, status, call, hook, dumps, faults, sent>>

\* The server ends, or aborts, a request nobody waits for.
Dropped(r) ==
    /\ Idle /\ ~r.waited /\ r.layer = 0
    /\ active' = active \ {r}
    /\ UNCHANGED <<runner, marker, results, status, call, hook, dumps, faults, sent>>

GiveUp == active' = {[r EXCEPT !.waited = FALSE] : r \in active}

\* one_example: the exception of the first attempt is retried, the second
\* becomes a failed row.
AttemptFails ==
    \/ /\ runner.attempt = 1
       /\ runner' = [runner EXCEPT !.pc = "send", !.attempt = 2]
       /\ UNCHANGED results
    \/ /\ runner.attempt = 2
       /\ AppendRow(FALSE)
       /\ runner' = NextExample

Fault == faults < MaxFaults /\ faults' = faults + 1

\* The tokenizer does not answer, and is not asked again.
TokenizeFails ==
    /\ Fault
    /\ runner.pc = "send" /\ runner.attempt = 1 /\ runner.asks
    /\ runner' = [runner EXCEPT !.asks = FALSE]
    /\ UNCHANGED <<marker, results, status, active, call, hook, dumps, sent>>

Timeout ==
    /\ Fault
    /\ runner.pc = "wait"
    /\ GiveUp
    /\ AttemptFails
    /\ UNCHANGED <<marker, status, call, hook, dumps, sent>>

\* The server process goes away with its hook state and its requests.
ServerRestart ==
    /\ Fault
    /\ runner.pc = "wait"
    /\ active' = {}
    /\ call' = NoCall
    /\ hook' = [k \in Ranks |-> FreshHook]
    /\ AttemptFails
    /\ UNCHANGED <<marker, status, dumps, sent>>

\* KeyboardInterrupt removes the marker, a killed script leaves it behind.
Interrupt ==
    /\ Fault
    /\ runner.pc \in {"next", "send", "wait"}
    /\ runner' = [runner EXCEPT !.pc = "idle"]
    /\ GiveUp
    /\ \/ marker' = "absent" /\ status' = "interrupted"
       \/ UNCHANGED <<marker, status>>
    /\ UNCHANGED <<results, call, hook, dumps, sent>>

FinishRun ==
    /\ runner.pc = "next" /\ runner.pos > Len(Examples)
    /\ marker' = "absent"
    /\ status' = "complete"
    /\ runner' = [runner EXCEPT !.pc = "done"]
    /\ UNCHANGED <<results, active, call, hook, dumps, faults, sent>>

----------------------------------------------------------------------------
FreshRunner == [pc |-> "idle", pos |-> 1, attempt |-> 0, done |-> {}, asks |-> TRUE]

NoDumps == [d \in Ids \cup {"_"} |-> [ls \in LayerIds \X Seqs |-> NoDump]]

CollectionInit ==
    /\ runner = FreshRunner
    /\ marker = "absent"
    /\ results = << >>
    /\ status = "none"
    /\ active = {}
    /\ call = NoCall
    /\ hook = [k \in Ranks |-> FreshHook]
    /\ dumps = NoDumps
    /\ faults = 0
    /\ sent = [e \in Ids |-> 0]

\* Back to the initial values, once nothing reads the state any more.
ForgetCollection ==
    /\ runner' = FreshRunner /\ marker' = "absent" /\ results' = << >> /\ status' = "none"
    /\ active' = {} /\ call' = NoCall /\ hook' = [k \in Ranks |-> FreshHook]
    /\ dumps' = NoDumps /\ faults' = 0 /\ sent' = [e \in Ids |-> 0]

HookStep == (\E k \in Ranks : Enter(k)) \/ apply_override \/ fall_back

ServerStep == (\E r \in active : Forward(r)) \/ SkippedStep

RunnerStep == \/ StartRun \/ SkipDone \/ MarkSample \/ FilterLong \/ SendRequest
              \/ (\E r \in active : Answered(r)) \/ FinishRun

FaultStep == TokenizeFails \/ Timeout \/ ServerRestart \/ Interrupt

CollectionNext == \/ HookStep \/ ServerStep \/ RunnerStep
                  \/ (\E r \in active : Dropped(r)) \/ FaultStep

----------------------------------------------------------------------------
(* Properties that the code does not have in every configuration *)

\* The ranks take the override or fall back to the native selection together:
\* no rank waits in the broadcast of a call another one has returned from
\* (_broadcast_from_rank0: "every rank falls back together").
FallBackTogether ==
    ~\E j, k \in Ranks : call.at[j] = "native" /\ call.at[k] = "broadcast"

\* The dumps of an example land in the directory of the example (the comment in
\* maybe_dump: the marker is read "only at sample boundaries", so that no late
\* dump is "routed to the wrong directory").
OwnDirectory ==
    \A d \in Ids : \A at \in LayerIds \X Seqs : dumps[d][at].ex \in {d, "_"}
=============================================================================
