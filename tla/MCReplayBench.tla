--------------------------- MODULE MCReplayBench ----------------------------
(***************************************************************************)
(* Jobs for the replay benchmarks: two requests whose contexts grow over   *)
(* two layers, with repeated tokens and a record that adds no row; write   *)
(* segments of one to three rows, so segments are padded and, for one job, *)
(* do not divide each other; two devices.  The dumps of the HBM job give   *)
(* every layer and step one of three native selections.  The jobs of the   *)
(* quality study convert, sample and run a few prompts of two tasks.       *)
(***************************************************************************)
EXTENDS ReplayBench

Item(req, step, layer, ctx, topk) ==
    [kind |-> "object",
     fields |-> [req |-> req, step |-> step, layer |-> layer, ctx |-> ctx, topk |-> topk]]

Raw(items) == [items |-> items, defaults |-> << >>, step_start |-> 0, max_topk |-> 3]

Growing ==
    Raw(<<Item(1, 0, 0, 3, <<2, 0>>), Item(1, 0, 1, 2, <<1>>), Item(2, 0, 0, 2, <<0, 0>>),
          Item(1, 1, 0, 4, <<3, 1, 2>>), Item(1, 1, 1, 2, <<0>>)>>)

Lists ==
    [items |-> <<[kind |-> "list", topk |-> <<0, 2>>], [kind |-> "list", topk |-> <<1>>]>>,
     defaults |-> [req |-> 1, layer |-> 0, ctx |-> 3], step_start |-> 4, max_topk |-> 3]

Csv(topk) ==
    [items |-> <<[kind |-> "csv", fields |-> [step |-> 0, layer |-> 5, ctx |-> 3, topk |-> topk]]>>,
     defaults |-> [req |-> 1], step_start |-> 0, max_topk |-> 3]

Online ==
    [mode |-> "online", placement |-> "hash", experiment |-> "write-layout", segments |-> {2},
     worker_sweep |-> {}, workers |-> 1, layouts |-> {0, 1}, miss_trace |-> FALSE, merge |-> TRUE,
     max_read |-> 2, max_topk |-> 3, repeats |-> 2, verify |-> TRUE, devices_config |-> FALSE,
     kind |-> "file", window_rows |-> << >>, allow_device_write |-> FALSE, dry_run |-> FALSE]

Rows(n) == [d \in 0 .. 1 |-> n]

OnDevices ==
    [Online EXCEPT !.devices_config = TRUE, !.kind = "device", !.window_rows = Rows(12),
                   !.allow_device_write = TRUE]

Sweep ==
    [OnDevices EXCEPT !.mode = "snapshot", !.experiment = "layout-concurrency",
                      !.worker_sweep = {1, 4}, !.repeats = 1]

Layout(o, raw) == [tool |-> "layout", opts |-> o, raw |-> raw]

LayoutJobs ==
    {Layout(Online, Growing), Layout(Online, Lists), Layout(Online, Csv(<<1, 0, 2>>)),
     Layout(Online, Csv(<<1, 0>>)), Layout(OnDevices, Growing), Layout(Sweep, Growing),
     Layout([OnDevices EXCEPT !.mode = "snapshot", !.placement = "layer", !.layouts = {0}], Growing),
     Layout([Online EXCEPT !.mode = "snapshot", !.segments = {2, 3}, !.verify = FALSE], Growing),
     Layout([OnDevices EXCEPT !.mode = "snapshot", !.segments = {2, 3}], Growing),
     Layout([OnDevices EXCEPT !.placement = "layer"], Growing),
     Layout([OnDevices EXCEPT !.window_rows = Rows(5)], Growing),
     Layout([Sweep EXCEPT !.dry_run = TRUE], Growing)}

Single ==
    [segments |-> {2}, max_read |-> 2, merge |-> TRUE, max_topk |-> 3, repeats |-> 2,
     warmup |-> 1, verify |-> TRUE, kind |-> "file", window |-> 0, allow_device_write |-> FALSE]

SingleJobs ==
    {[tool |-> "single", opts |-> o, raw |-> Growing] :
       o \in {Single, [Single EXCEPT !.merge = FALSE, !.repeats = 1, !.window = 12],
              [Single EXCEPT !.max_read = 1, !.segments = {4}, !.repeats = 1],
              [Single EXCEPT !.segments = {2, 3}]}}

Hbm ==
    [tool |-> "hbm", layers |-> 2, steps |-> 2, warmup_steps |-> 1, resident |-> TRUE,
     max_replacements |-> 1, protect_top |-> 1, segment |-> 3, workers |-> 4, repeats |-> 1,
     window_rows |-> Rows(9), allow_device_write |-> TRUE]

Example(id, task, match, tokens) ==
    [id |-> id, task |-> task, reference |-> 1, match |-> match, tokens |-> tokens]

\* Two tasks of unequal size, an example without a reference and a long one.
Examples ==
    <<Example(1, 1, "contain", 4), Example(2, 1, "exact", 4), Example(3, 1, "option", 4),
      [Example(4, 1, "exact", 4) EXCEPT !.reference = NoReference], Example(5, 2, "contain", 9)>>

Right == [form |-> "explicit", tokens |-> <<1>>]
Longer == [form |-> "text", tokens |-> <<2, 1>>]
Leading == [form |-> "leading", tokens |-> <<1, 2>>]

Quality(count, strategy, size) ==
    [tool |-> "quality",
     opts |-> [source |-> Examples, count |-> count, strategy |-> strategy, batch_size |-> size,
               tokenize |-> TRUE, controls |-> 1,
               outputs |-> IF count > 2 THEN {Right, Longer} ELSE {Right, Longer, Leading}]]

QualityJobs ==
    {Quality(2, "task-round-robin", 1), Quality(3, "task-round-robin", 2), Quality(2, "random", 2),
     [Quality(1, "random", 1) EXCEPT !.opts.source = <<Example(1, 1, "exact", 9)>>]}

MCJobs ==
    LayoutJobs \cup SingleJobs \cup QualityJobs
        \cup {Hbm, [Hbm EXCEPT !.allow_device_write = FALSE, !.resident = FALSE,
                               !.layers = 1, !.steps = 4],
              [Hbm EXCEPT !.layers = 1, !.steps = 3, !.repeats = 2, !.protect_top = 0]}

MCShuffle(seq) == Reverse(seq)

\* Even tokens rank before odd ones.
MCRanked(len) ==
    SelectSeq([i \in 1 .. len |-> i - 1], LAMBDA t : t % 2 = 0)
        \o SelectSeq([i \in 1 .. len |-> i - 1], LAMBDA t : t % 2 = 1)

MCNatives(len) == {{0, len - 1}, {1, 2}, {0, 1}}
=============================================================================
