---------------------------- MODULE ReplayTrace ----------------------------
(***************************************************************************)
(* The traces the replay benchmarks read and what they derive from one:    *)
(* bench/convert_trace.py, load_trace and plan_rows of bench/single_ssd.py,*)
(* the capacities of bench/layout_replay.py and bench/multi_device.py.     *)
(*                                                                         *)
(* Sizes and offsets count rows of PAGE bytes, requests are numbers (their *)
(* order is the order of the strings).  A record is                        *)
(*   [req, step, layer, ctx, topk]                                         *)
(* with topk a sequence of token numbers; a miss trace has more fields.    *)
(***************************************************************************)
EXTENDS PositionHash, Sequences, FiniteSets, FiniteSetsExt, SequencesExt

CONSTANTS StepIdx, StepLayer, Prime   \* the position hash

----------------------------------------------------------------------------
(* convert_trace.py *)

Fields == {"req", "step", "layer", "ctx", "topk"}

\* What an input item says itself: a bare token list only its tokens.  A CSV
\* row names everything but the request.
Said(item) == IF item.kind = "list" THEN [topk |-> item.topk] ELSE item.fields

\* A field comes from the item, from the defaults, or (the step) from the
\* position of the item.
Normalized(raw, i) ==
    LET said == Said(raw.items[i])
    IN  [f \in Fields |-> CASE f \in DOMAIN said -> said[f]
                            [] f \notin DOMAIN said /\ f \in DOMAIN raw.defaults ->
                                 raw.defaults[f]
                            [] OTHER -> raw.step_start + i - 1]

Complete(raw, i) ==
    Fields \ {"step"} \subseteq DOMAIN Said(raw.items[i]) \cup DOMAIN raw.defaults

\* A CSV row has exactly max_topk token columns.
CsvRow(raw, i) == raw.items[i].kind = "csv" => Len(Said(raw.items[i]).topk) = raw.max_topk

convert(raw) ==
    [i \in DOMAIN raw.items |-> Normalized(raw, i)]

----------------------------------------------------------------------------
(* load_trace *)

ValidRecord(r, max_topk, allow_empty) ==
    /\ r.step >= 0 /\ r.layer >= 0 /\ r.ctx >= 1
    /\ Len(r.topk) \in (IF allow_empty THEN 0 ELSE 1) .. max_topk
    /\ \A k \in DOMAIN r.topk : r.topk[k] \in 0 .. r.ctx - 1

load_trace(records, max_topk, allow_empty) ==
    records # << >> /\ \A i \in DOMAIN records : ValidRecord(records[i], max_topk, allow_empty)

\* convert() validates with load_trace before it writes its output.
Convertible(raw) ==
    /\ \A i \in DOMAIN raw.items : Complete(raw, i) /\ CsvRow(raw, i)
    /\ load_trace(convert(raw), raw.max_topk, FALSE)

KeyOf(r) == <<r.req, r.layer>>

Keys(trace) == {KeyOf(trace[i]) : i \in DOMAIN trace}

Requests(trace) == {trace[i].req : i \in DOMAIN trace}

\* The longest context of every request and layer.
lengths(trace) ==
    [key \in Keys(trace) |-> Max({trace[i].ctx : i \in {j \in DOMAIN trace : KeyOf(trace[j]) = key}})]

\* sorted(lengths): by request, then layer.
KeyBefore(a, b) == a[1] < b[1] \/ (a[1] = b[1] /\ a[2] < b[2])

\* The first row of every request and layer.
bases(trace) ==
    LET len == lengths(trace)
    IN  [key \in Keys(trace) |->
           MapThenSumSet(LAMBDA k : len[k], {k \in Keys(trace) : KeyBefore(k, key)})]

TotalRows(trace) == MapThenSumSet(LAMBDA k : lengths(trace)[k], Keys(trace))

----------------------------------------------------------------------------
(* plan_rows, VirtualMedia._merge_runs *)

\* The runs a sorted sequence of rows is read in: neighbours are merged until a
\* run is max_rows long.  A run is [row, dst, count], dst its first position.
MergedRuns(rows, merge, max_rows) ==
    LET first(p) == Min({q \in 1 .. p : \A r \in q + 1 .. p : rows[r] = rows[r - 1] + 1})
        starts == {p \in DOMAIN rows : ~merge \/ (p - first(p)) % max_rows = 0}
        next(p) == Min({q \in starts : q > p} \cup {Len(rows) + 1})
    IN  {[row |-> rows[p], dst |-> p, count |-> next(p) - p] : p \in starts}

\* Duplicate tokens share a row; slots leads every position back to it.
plan_rows(indices, base, merge, max_rows) ==
    LET rows == SetToSortSeq({base + t : t \in ToSet(indices)}, <)
    IN  [rows  |-> rows,
         slots |-> [pos \in DOMAIN indices |->
                      CHOOSE p \in DOMAIN rows : rows[p] = base + indices[pos]],
         runs  |-> MergedRuns(rows, merge, max_rows)]

----------------------------------------------------------------------------
(* Placement *)

\* OriginalLayerHash over PositionHashStrategy, and LayerPlacement.
locate(placement, count, layer, token) ==
    IF placement = "layer" THEN layer % count
    ELSE position_hash(count, StepIdx, StepLayer, Prime, layer, token)

RowsOn(placement, count, d, layer, start, end) ==
    Cardinality({t \in start .. end - 1 : locate(placement, count, layer, t) = d})

----------------------------------------------------------------------------
(* Capacities *)

RoundUp(n, segment) == ((n + segment - 1) \div segment) * segment

\* What the request had loaded of the layer before record i.
LoadedBefore(trace, i) ==
    Max({0} \cup {trace[j].ctx : j \in {k \in 1 .. i - 1 : KeyOf(trace[k]) = KeyOf(trace[i])}})

\* geometry() refuses an online trace whose steps or contexts go back.
geometry_refuses(trace, mode) ==
    mode = "online" /\ \E i, j \in DOMAIN trace :
        /\ i < j /\ trace[i].req = trace[j].req
        /\ \/ trace[j].step < trace[i].step
           \/ trace[j].layer = trace[i].layer /\ trace[j].ctx < trace[i].ctx

\* Mutant: the padding of the flushes in between is forgotten.
online_rows_unpadded(trace, segment, placement, count, req, d) ==
    RoundUp(MapThenSumSet(
        LAMBDA i : RowsOn(placement, count, d, trace[i].layer,
                          LoadedBefore(trace, i), trace[i].ctx),
        {i \in DOMAIN trace : trace[i].req = req}), segment)

\* The rows a request needs on a device: every flush of an online replay pads
\* its last segment, a snapshot is flushed once.
online_rows(trace, segment, placement, count, req, d) ==
    MapThenSumSet(
        LAMBDA i : RoundUp(RowsOn(placement, count, d, trace[i].layer,
                                  LoadedBefore(trace, i), trace[i].ctx), segment),
        {i \in DOMAIN trace : trace[i].req = req})

snapshot_rows(trace, segment, placement, count, req, d) ==
    RoundUp(MapThenSumSet(
        LAMBDA key : RowsOn(placement, count, d, key[2], 0, lengths(trace)[key]),
        {key \in Keys(trace) : key[1] = req}), segment)

\* geometry, hash_capacities and layer_capacities: an extent on every device of
\* a multi-device window, one segment long at least.
capacities(trace, segment, mode, placement, count) ==
    [req \in Requests(trace) |-> [d \in 0 .. count - 1 |->
        LET n == IF mode = "online"
                 THEN online_rows(trace, segment, placement, count, req, d)
                 ELSE snapshot_rows(trace, segment, placement, count, req, d)
        IN  IF count = 1 THEN n ELSE Max({segment, n})]]

required(caps, d) == MapThenSumSet(LAMBDA req : caps[req][d], DOMAIN caps)

\* DirectPool: a window is one device of a fresh native pool, reserved whole.
NoRow == -1

DirectPool(size) == [p \in 0 .. size - 1 |-> NoRow]
=============================================================================
