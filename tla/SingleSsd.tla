------------------------------ MODULE SingleSsd ------------------------------
(***************************************************************************)
(* bench/single_ssd.py: the rows of a trace are written to one window in   *)
(* pieces of every write size, and each time a pool of threads reads the   *)
(* top-k rows of the records back, each thread through its own aligned     *)
(* buffer into one output buffer; the main thread gathers the rows in      *)
(* top-k order and verifies them.                                          *)
(*                                                                         *)
(* Row number n of the window holds n.  The threads of the executor take   *)
(* runs from its queue in order and finish them in any order.              *)
(***************************************************************************)
EXTENDS ReplayTrace

CONSTANTS SsdThreads,   \* threads of the executor
          MaxIOFaults

VARIABLES
  cmd,        \* the command line
  rows,       \* the trace
  stage,      \* idle, start, prepare, submit, wait, drain, report, exited
  cases,      \* write sizes still to run
  medium,     \* what the window holds
  at,         \* position in the warm-up batches followed by the trace
  plan,       \* plan_rows of that batch
  queue,      \* runs submitted and not taken
  thread,     \* the run a thread works on and what its buffer holds
  failed,     \* runs whose read failed
  landed,     \* the output buffer, by position
  buffers,    \* none, ready, freed
  counted,    \* rows read since the statistics were reset, and rows reported
  report,     \* the report
  ioFaults

ssdVars == <<cmd, rows, stage, cases, medium, at, plan, queue, thread, failed,
             landed, buffers, counted, report, ioFaults>>

Unread == NoRow

NoRun == [row |-> Unread, dst |-> Unread, count |-> 0]

Resting == [run |-> NoRun, holds |-> << >>]

NoPlan == [rows |-> << >>, slots |-> << >>, runs |-> {}]

Sizes(c) == {1} \cup c.segments

\* The rows of the trace, padded to the largest write.
Dataset(c, tr) == RoundUp(TotalRows(tr), Max(Sizes(c)))

Window(c, tr) == IF c.window = 0 THEN Dataset(c, tr) ELSE c.window

\* run() refuses before it creates anything.
SsdAdmissible(c, tr) ==
    /\ c.max_topk >= 1 /\ c.repeats >= 1
    /\ \A s \in Sizes(c) : s >= 1 /\ Max(Sizes(c)) % s = 0
    /\ c.max_read >= 1
    /\ load_trace(tr, c.max_topk, FALSE)
    /\ c.warmup \in 0 .. Len(tr)
    /\ Window(c, tr) >= Dataset(c, tr)
    /\ c.kind = "device" => c.allow_device_write /\ c.window > 0

\* Every other repetition takes the sizes backwards.
SsdCases(c) ==
    LET up == SetToSortSeq(Sizes(c), <)
    IN  FlattenSeq([r \in 1 .. c.repeats |-> IF r % 2 = 1 THEN up ELSE Reverse(up)])

\* The writes of prepare(): chunks of the largest size cut in pieces.
Pieces(total, chunk, size) ==
    {[off |-> start + local, len |-> Min({size, Min({chunk, total - start}) - local})] :
        start \in {s \in 0 .. total - 1 : s % chunk = 0},
        local \in {l \in 0 .. chunk - 1 : l % size = 0}}

\* The batches of replay(): the first ones once more, as a warm-up.
Sequence(c, tr) == SubSeq(tr, 1, c.warmup) \o tr

SsdInit ==
    /\ cmd = [x \in {} |-> Unread] /\ rows = << >> /\ stage = "idle"
    /\ cases = << >> /\ medium = << >> /\ at = 0 /\ plan = NoPlan
    /\ queue = << >> /\ thread = [w \in SsdThreads |-> Resting] /\ failed = {}
    /\ landed = << >> /\ buffers = "none" /\ counted = [read |-> 0, reported |-> 0]
    /\ report = [status |-> "none", error |-> "none", trials |-> << >>]
    /\ ioFaults = 0

\* The program is started on a command line and a trace.
SsdStart(c, tr) ==
    /\ stage = "idle"
    /\ cmd' = c /\ rows' = tr /\ stage' = "start"
    /\ UNCHANGED <<cases, medium, at, plan, queue, thread, failed, landed, buffers,
                   counted, report, ioFaults>>

SsdRaise(error) == stage' = "drain" /\ report' = [report EXCEPT !.error = error]

SsdRefuse ==
    /\ stage = "start" /\ ~SsdAdmissible(cmd, rows)
    /\ stage' = "exited"
    /\ report' = [report EXCEPT !.status = "refused"]
    /\ UNCHANGED <<cmd, rows, cases, medium, at, plan, queue, thread, failed, landed,
                   buffers, counted, ioFaults>>

\* The target, the new report and the pool; the first report is saved.
SsdOpen ==
    /\ stage = "start" /\ SsdAdmissible(cmd, rows)
    /\ stage' = "prepare"
    /\ cases' = SsdCases(cmd)
    /\ medium' = DirectPool(Window(cmd, rows))
    /\ report' = [report EXCEPT !.status = "running"]
    /\ UNCHANGED <<cmd, rows, at, plan, queue, thread, failed, landed, buffers,
                   counted, ioFaults>>

\* prepare(), the check of its statistics, and the buffers of replay(), whose
\* threads have all started.
SsdPrepare ==
    /\ stage = "prepare" /\ cases # << >>
    /\ LET pieces == Pieces(Dataset(cmd, rows), Max(Sizes(cmd)), cases[1])
       IN  /\ medium' = [p \in DOMAIN medium |->
                           IF \E x \in pieces : p \in x.off .. x.off + x.len - 1 THEN p ELSE medium[p]]
           /\ IF MapThenSumSet(LAMBDA x : x.len, pieces) = Dataset(cmd, rows)
              THEN stage' = "submit" /\ buffers' = "ready" /\ UNCHANGED report
              ELSE SsdRaise("write statistics") /\ UNCHANGED buffers
    /\ landed' = [p \in 1 .. cmd.max_topk |-> Unread]
    /\ at' = 1 /\ counted' = [read |-> 0, reported |-> 0]
    /\ UNCHANGED <<cmd, rows, cases, plan, queue, thread, failed, ioFaults>>

\* A write or the sync of prepare() fails, or a thread of replay() does not reach
\* the barrier in time.  What was written is not read again: the run ends.
SsdPrepareFails ==
    /\ stage = "prepare" /\ cases # << >>
    /\ ioFaults < MaxIOFaults /\ ioFaults' = ioFaults + 1
    /\ SsdRaise("io")
    /\ UNCHANGED <<cmd, rows, cases, medium, at, plan, queue, thread, failed, landed,
                   buffers, counted>>

----------------------------------------------------------------------------
(* replay() *)

Record == Sequence(cmd, rows)[at]

\* The statistics are reset when the warm-up is over.
SsdSubmit ==
    /\ stage = "submit" /\ at <= Len(Sequence(cmd, rows))
    /\ stage' = "wait"
    /\ plan' = plan_rows(Record.topk, bases(rows)[KeyOf(Record)], cmd.merge, cmd.max_read)
    /\ queue' = SetToSortSeq(plan'.runs, LAMBDA a, b : a.dst < b.dst)
    /\ counted' = IF at = cmd.warmup + 1 THEN [counted EXCEPT !.read = 0] ELSE counted
    /\ UNCHANGED <<cmd, rows, cases, medium, at, thread, failed, landed, buffers,
                   report, ioFaults>>

Take(w) ==
    /\ queue # << >> /\ thread[w] = Resting
    /\ thread' = [thread EXCEPT ![w].run = Head(queue)]
    /\ queue' = Tail(queue)
    /\ UNCHANGED <<cmd, rows, stage, cases, medium, at, plan, failed, landed, buffers,
                   counted, report, ioFaults>>

\* pool.read into the buffer of the thread.
ReadRun(w) ==
    /\ thread[w].run # NoRun /\ thread[w].holds = << >>
    /\ LET run == thread[w].run
       IN  \/ /\ thread' = [thread EXCEPT ![w].holds = [i \in 1 .. run.count |-> medium[run.row + i - 1]]]
              /\ counted' = [counted EXCEPT !.read = @ + run.count]
              /\ UNCHANGED <<failed, ioFaults>>
           \/ /\ ioFaults < MaxIOFaults
              /\ ioFaults' = ioFaults + 1
              /\ failed' = failed \cup {run}
              /\ thread' = [thread EXCEPT ![w] = Resting]
              /\ UNCHANGED counted
    /\ UNCHANGED <<cmd, rows, stage, cases, medium, at, plan, queue, landed, buffers, report>>

\* memmove to the place of the run in the output buffer.
CopyRun(w) ==
    /\ thread[w].holds # << >>
    /\ LET run == thread[w].run
       IN  landed' = [p \in DOMAIN landed |->
                        IF p \in run.dst .. run.dst + run.count - 1
                        THEN thread[w].holds[p - run.dst + 1] ELSE landed[p]]
    /\ thread' = [thread EXCEPT ![w] = Resting]
    /\ UNCHANGED <<cmd, rows, stage, cases, medium, at, plan, queue, failed, buffers,
                   counted, report, ioFaults>>

AllRest == queue = << >> /\ \A w \in SsdThreads : thread[w] = Resting

\* The futures are all done: the rows in top-k order, verified.
GatherBatch ==
    /\ stage = "wait" /\ AllRest /\ failed = {}
    /\ LET topk == Record.topk
           base == bases(rows)[KeyOf(Record)]
           exact == \A pos \in DOMAIN topk : landed[plan.slots[pos]] = base + topk[pos]
       IN  IF exact \/ ~cmd.verify
           THEN /\ stage' = "submit" /\ at' = at + 1
                /\ counted' = IF at > cmd.warmup
                              THEN [counted EXCEPT !.reported = @ + Len(plan.rows)] ELSE counted
                /\ UNCHANGED report
           ELSE SsdRaise("data mismatch") /\ UNCHANGED <<at, counted>>
    /\ plan' = NoPlan
    /\ UNCHANGED <<cmd, rows, cases, medium, queue, thread, failed, landed, buffers, ioFaults>>

\* future.result() of a failed run raises once the futures before it are done.
FutureRaises ==
    /\ stage = "wait"
    /\ \E run \in failed :
         /\ \A i \in DOMAIN queue : queue[i].dst > run.dst
         /\ \A w \in SsdThreads : thread[w] # Resting => thread[w].run.dst > run.dst
         /\ \A r \in failed : r.dst >= run.dst
    /\ SsdRaise("io")
    /\ UNCHANGED <<cmd, rows, cases, medium, at, plan, queue, thread, failed, landed,
                   buffers, counted, ioFaults>>

\* The executor is left with its queue empty and its threads done; then the
\* statistics are checked.
ReplayDone ==
    /\ stage = "submit" /\ at > Len(Sequence(cmd, rows)) /\ AllRest
    /\ IF counted.read = counted.reported
       THEN /\ stage' = "prepare"
            /\ report' = [report EXCEPT !.trials = Append(@, cases[1])]
            /\ cases' = Tail(cases)
            /\ buffers' = "freed"
       ELSE SsdRaise("read statistics") /\ UNCHANGED <<cases, buffers>>
    /\ UNCHANGED <<cmd, rows, medium, at, plan, queue, thread, failed, landed, counted, ioFaults>>

\* Mutant: the buffers are freed while threads still read.
Drained_early ==
    /\ stage = "drain"
    /\ stage' = "exited" /\ buffers' = "freed"
    /\ report' = [report EXCEPT !.status = "failed"]
    /\ UNCHANGED <<cmd, rows, cases, medium, at, plan, queue, thread, failed, landed,
                   counted, ioFaults>>

\* An exception: the executor still runs what was submitted, then the buffers
\* are freed and the report is saved as failed.
Drained ==
    /\ stage = "drain" /\ AllRest
    /\ stage' = "exited" /\ buffers' = "freed"
    /\ report' = [report EXCEPT !.status = "failed"]
    /\ UNCHANGED <<cmd, rows, cases, medium, at, plan, queue, thread, failed, landed,
                   counted, ioFaults>>

SsdComplete ==
    /\ stage = "prepare" /\ cases = << >>
    /\ stage' = "exited"
    /\ report' = [report EXCEPT !.status = "complete"]
    /\ UNCHANGED <<cmd, rows, cases, medium, at, plan, queue, thread, failed, landed,
                   buffers, counted, ioFaults>>

SsdNext ==
    \/ SsdRefuse \/ SsdOpen \/ SsdPrepare \/ SsdPrepareFails \/ SsdSubmit \/ GatherBatch \/ FutureRaises
    \/ ReplayDone \/ Drained \/ SsdComplete
    \/ \E w \in SsdThreads : Take(w) \/ ReadRun(w) \/ CopyRun(w)
=============================================================================
