---------------------------- MODULE ConcurrentIO ----------------------------
(***************************************************************************)
(* The concurrent I/O engine of bmpclient (bmpclient/concurrent_io.py):    *)
(* threads submit batches of requests, a semaphore bounds the requests in  *)
(* flight, executors run one group of a batch at a time, handles collect   *)
(* the results, a thread waits for the first of several handles, and the   *)
(* engine is closed while all this goes on.  Each action is a stretch of   *)
(* code between two operations on a lock, semaphore, queue or event.       *)
(***************************************************************************)
EXTENDS Integers, Sequences, FiniteSets

CONSTANTS Submitters,   \* the threads that submit
          Program,      \* the batches of each, as sequences of chunk ids
          NumQueues,    \* num_queues
          NumWorkers,   \* num_workers, used when there is one queue
          MaxInflight,  \* max_inflight
          WaitOn,       \* the handles a thread passes to wait_any
          Closes        \* whether some thread calls close()

\* Every thread that submits has something to submit.
ASSUME EngineConstants ==
  /\ IsFiniteSet(Submitters)
  /\ Program \in [Submitters -> Seq(Seq(Nat))]
  /\ \A s \in Submitters : Program[s] # << >>
  /\ NumQueues \in Nat \ {0} /\ NumWorkers \in Nat \ {0}
  /\ MaxInflight \in Nat \ {0}
  /\ Closes \in BOOLEAN

Queues == 0 .. (NumQueues - 1)
\* A worker is a queue and a number: one thread per queue, or a shared pool.
Workers == IF NumQueues > 1 THEN Queues \X {1} ELSE {0} \X (1 .. NumWorkers)

\* A handle is a thread and the number of its batch, a request a handle and its
\* place in the batch.
Handles == UNION { {s} \X (1 .. Len(Program[s])) : s \in Submitters }
Req(h) == Program[h[1]][h[2]]
Items(h) == 1 .. Len(Req(h))
Requests == UNION { {h} \X Items(h) : h \in Handles }
Chunk(r) == Req(r[1])[r[2]]
Chunks == { Chunk(r) : r \in Requests }

VARIABLES pc,         \* where each submitter is
          batch,      \* the batch it submits, or submitted last
          taken,      \* how many items of it passed the backpressure loop
          sent,       \* the keys of its groups that were given to an executor
          undone,     \* the items still to be failed of a group that was refused
          permits,    \* _inflight_sem
          stats,      \* _submitted, _completed, _failed, _inflight
          queue,      \* the work queue of each executor
          worker,     \* what each worker thread does
          handle,     \* the handles
          engine,     \* _closed, the executors shut down, and where close() is
          waiter,     \* the thread in wait_any and its event
          executed,   \* per chunk, the requests executed, in order
          before      \* per handle, those whose submit had returned when it began

vars == <<pc, batch, taken, sent, undone, permits, stats, queue, worker, handle,
          engine, waiter, executed, before>>

subs == <<pc, batch, taken, sent, undone, before>>

cur(s) == <<s, batch[s]>>

\* Mutant: items are spread over the queues without regard to the chunk.
Key_by_index(h, i) == i % NumQueues

\* The group of an item: the queue of its chunk, or a share of the pool.
Key(h, i) == IF NumQueues > 1 THEN Req(h)[i] % NumQueues ELSE (i - 1) % NumWorkers

KeysOf(h) == { Key(h, i) : i \in Items(h) }

\* The items of a group, and the task that runs them on an executor.
Group(h, k) == { i \in Items(h) : Key(h, i) = k }
Jobs == UNION { {h} \X KeysOf(h) : h \in Handles }
JobOf(r) == <<r[1], Key(r[1], r[2])>>

QueueOf(k) == IF NumQueues > 1 THEN k ELSE 0

\* A worker knows its task, the items of it that returned and that raised, and
\* the items whose permits it has yet to release.
NoJob == << >>
Idle == [pc |-> "idle", job |-> NoJob, ok |-> {}, bad |-> {}, owed |-> {}]

Least(S) == CHOOSE i \in S : \A j \in S : i <= j

Init ==
  /\ pc = [s \in Submitters |-> "ready"]
  /\ batch = [s \in Submitters |-> 1]
  /\ taken = [s \in Submitters |-> 0]
  /\ sent = [s \in Submitters |-> {}]
  /\ undone = [s \in Submitters |-> {}]
  /\ permits = MaxInflight
  /\ stats = [submitted |-> 0, completed |-> 0, failed |-> 0, inflight |-> 0]
  /\ queue = [q \in Queues |-> << >>]
  /\ worker = [w \in Workers |-> Idle]
  /\ handle = [h \in Handles |->
       [results |-> [i \in Items(h) |-> "none"], remaining |-> Len(Req(h)),
        known |-> FALSE, callbacks |-> 0]]
  /\ engine = [closed |-> FALSE, down |-> {}, pc |-> "open"]
  /\ waiter = [pc |-> "register", left |-> WaitOn, event |-> FALSE]
  /\ executed = [c \in Chunks |-> << >>]
  /\ before = [h \in Handles |-> {}]

-----------------------------------------------------------------------------
(* _submit                                                                 *)

Returned == { h \in Handles : handle[h].known }

\* The check of _closed; a closed engine raises and the thread gives up.
Begin(s) ==
  /\ pc[s] = "ready"
  /\ pc' = [pc EXCEPT ![s] = IF engine.closed THEN "refused" ELSE "acquire"]
  /\ before' = [before EXCEPT ![cur(s)] = IF engine.closed THEN {} ELSE Returned]
  /\ UNCHANGED <<batch, taken, sent, undone, permits, stats, queue, worker,
                 handle, engine, waiter, executed>>

Acquire(s) ==
  /\ pc[s] = "acquire"
  /\ taken[s] < Len(Req(cur(s)))
  /\ permits > 0
  /\ permits' = permits - 1
  /\ pc' = [pc EXCEPT ![s] = "count"]
  /\ UNCHANGED <<batch, taken, sent, undone, stats, queue, worker, handle,
                 engine, waiter, executed, before>>

CountIn(s) ==
  /\ pc[s] = "count"
  /\ stats' = [stats EXCEPT !.submitted = @ + 1, !.inflight = @ + 1]
  /\ taken' = [taken EXCEPT ![s] = @ + 1]
  /\ pc' = [pc EXCEPT ![s] = "acquire"]
  /\ UNCHANGED <<batch, sent, undone, permits, queue, worker, handle, engine,
                 waiter, executed, before>>

\* executor.submit of the group met next by the items in order: queued, or
\* refused by an executor that close() has shut down.
Schedule(s) ==
  LET h == cur(s)
      k == Key(h, Least({ i \in Items(h) : Key(h, i) \notin sent[s] }))
  IN /\ pc[s] = "acquire"
     /\ taken[s] = Len(Req(h)) /\ sent[s] # KeysOf(h)
     /\ sent' = [sent EXCEPT ![s] = @ \cup {k}]
     /\ \/ /\ QueueOf(k) \notin engine.down
           /\ queue' = [queue EXCEPT ![QueueOf(k)] = Append(@, <<h, k>>)]
           /\ UNCHANGED <<pc, undone>>
        \/ /\ QueueOf(k) \in engine.down
           /\ undone' = [undone EXCEPT ![s] = Group(h, k)]
           /\ pc' = [pc EXCEPT ![s] = "fail"]
           /\ UNCHANGED queue
     /\ UNCHANGED <<batch, taken, permits, stats, worker, handle, engine,
                    waiter, executed, before>>

\* IOHandle._set_many with the items that returned and those that raised; the
\* callbacks are called by the caller of this step.
SetMany(h, ok, bad) ==
  [handle[h] EXCEPT
     !.results = [i \in Items(h) |-> IF i \in ok THEN "ok"
                                     ELSE IF i \in bad THEN "error" ELSE @[i]],
     !.remaining = @ - Cardinality(ok \cup bad)]

\* Mutant: the permit of a request that cannot be scheduled is kept.
FailRelease_keeps(s) ==
  /\ pc[s] = "fail"
  /\ undone[s] # {}
  /\ pc' = [pc EXCEPT ![s] = "uncount"]
  /\ UNCHANGED <<batch, taken, sent, undone, permits, stats, queue, worker,
                 handle, engine, waiter, executed, before>>

\* One round of the loop that ends a group which could not be scheduled: the
\* permit, under the lock the counters, and the result of its next item.
FailRelease(s) ==
  /\ pc[s] = "fail"
  /\ undone[s] # {}
  /\ permits' = permits + 1
  /\ pc' = [pc EXCEPT ![s] = "uncount"]
  /\ UNCHANGED <<batch, taken, sent, undone, stats, queue, worker, handle,
                 engine, waiter, executed, before>>

FailUncount(s) ==
  /\ pc[s] = "uncount"
  /\ stats' = [stats EXCEPT !.submitted = @ - 1, !.inflight = @ - 1]
  /\ pc' = [pc EXCEPT ![s] = "tell"]
  /\ UNCHANGED <<batch, taken, sent, undone, permits, queue, worker, handle,
                 engine, waiter, executed, before>>

\* Mutant: the handle is not told of the failure.
FailOne_silent(s) ==
  /\ pc[s] = "tell"
  /\ undone' = [undone EXCEPT ![s] = @ \ {Least(@)}]
  /\ pc' = [pc EXCEPT ![s] = "fail"]
  /\ UNCHANGED <<batch, taken, sent, permits, stats, queue, worker, handle,
                 engine, waiter, executed, before>>

FailOne(s) ==
  LET i == Least(undone[s])
  IN /\ pc[s] = "tell"
     /\ handle' = [handle EXCEPT ![cur(s)] = SetMany(cur(s), {}, {i})]
     /\ undone' = [undone EXCEPT ![s] = @ \ {i}]
     /\ pc' = [pc EXCEPT ![s] = "fail"]
     /\ UNCHANGED <<batch, taken, sent, permits, stats, queue, worker, engine,
                    waiter, executed, before>>

FailedGroup(s) ==
  /\ pc[s] = "fail"
  /\ undone[s] = {}
  /\ pc' = [pc EXCEPT ![s] = "acquire"]
  /\ UNCHANGED <<batch, taken, sent, undone, permits, stats, queue, worker,
                 handle, engine, waiter, executed, before>>

\* return handle; the thread goes on to its next batch.
Return(s) ==
  /\ pc[s] = "acquire"
  /\ taken[s] = Len(Req(cur(s))) /\ sent[s] = KeysOf(cur(s))
  /\ handle' = [handle EXCEPT ![cur(s)].known = TRUE]
  /\ \/ /\ batch[s] < Len(Program[s])
        /\ batch' = [batch EXCEPT ![s] = @ + 1]
        /\ pc' = [pc EXCEPT ![s] = "ready"]
     \/ /\ batch[s] = Len(Program[s])
        /\ pc' = [pc EXCEPT ![s] = "finished"]
        /\ UNCHANGED batch
  /\ taken' = [taken EXCEPT ![s] = 0]
  /\ sent' = [sent EXCEPT ![s] = {}]
  /\ UNCHANGED <<undone, permits, stats, queue, worker, engine, waiter,
                 executed, before>>

-----------------------------------------------------------------------------
(* _run_group, on a worker thread                                          *)

Take(w) ==
  /\ worker[w].pc = "idle"
  /\ queue[w[1]] # << >>
  /\ LET j == Head(queue[w[1]])
     IN worker' = [worker EXCEPT ![w] =
          [pc |-> "run", job |-> j, ok |-> {}, bad |-> {}, owed |-> Group(j[1], j[2])]]
  /\ queue' = [queue EXCEPT ![w[1]] = Tail(@)]
  /\ UNCHANGED <<subs, permits, stats, handle, engine, waiter, executed>>

\* The items of its task that a worker has not executed.
Pending(w) ==
  Group(worker[w].job[1], worker[w].job[2]) \ (worker[w].ok \cup worker[w].bad)

\* _execute_one: the read or write happens, or raises.
Execute(w) ==
  LET i == Least(Pending(w))
      r == <<worker[w].job[1], i>>
  IN /\ worker[w].pc = "run"
     /\ Pending(w) # {}
     /\ \/ worker' = [worker EXCEPT ![w].ok = @ \cup {i}]
        \/ worker' = [worker EXCEPT ![w].bad = @ \cup {i}]
     /\ executed' = [executed EXCEPT ![Chunk(r)] = Append(@, r)]
     /\ UNCHANGED <<subs, permits, stats, queue, handle, engine, waiter>>

CountOut(w) ==
  /\ worker[w].pc = "run"
  /\ Pending(w) = {}
  /\ stats' = [stats EXCEPT
       !.completed = @ + Cardinality(worker[w].ok),
       !.failed = @ + Cardinality(worker[w].bad),
       !.inflight = @ - Cardinality(Group(worker[w].job[1], worker[w].job[2]))]
  /\ worker' = [worker EXCEPT ![w].pc = "release"]
  /\ UNCHANGED <<subs, permits, queue, handle, engine, waiter, executed>>

\* One round of the loop that releases a permit for every item of the group.
Release(w) ==
  /\ worker[w].pc = "release"
  /\ worker[w].owed # {}
  /\ permits' = permits + 1
  /\ worker' = [worker EXCEPT ![w].owed = @ \ {Least(@)}]
  /\ UNCHANGED <<subs, stats, queue, handle, engine, waiter, executed>>

\* handle._set_many(results): the last group takes the callbacks along.
SetResults(w) ==
  LET h == worker[w].job[1]
  IN /\ worker[w].pc = "release"
     /\ worker[w].owed = {}
     /\ handle' = [handle EXCEPT ![h] = SetMany(h, worker[w].ok, worker[w].bad)]
     /\ worker' = [worker EXCEPT ![w] =
          IF handle'[h].remaining = 0 /\ handle[h].callbacks > 0
          THEN [Idle EXCEPT !.pc = "fire"] ELSE Idle]
     /\ UNCHANGED <<subs, permits, stats, queue, engine, waiter, executed>>

\* The callbacks run outside the handle's lock; those that wait_any added set its
\* event.
Fire(w) ==
  /\ worker[w].pc = "fire"
  /\ waiter' = [waiter EXCEPT !.event = TRUE]
  /\ worker' = [worker EXCEPT ![w] = Idle]
  /\ UNCHANGED <<subs, permits, stats, queue, handle, engine, executed>>

-----------------------------------------------------------------------------
(* wait_any                                                                *)

\* add_done_callback: kept for the last group, or called at once.
AddCallback(h) ==
  /\ waiter.pc = "register"
  /\ h \in waiter.left /\ WaitOn \subseteq Returned
  /\ \/ /\ handle[h].remaining > 0
        /\ handle' = [handle EXCEPT ![h].callbacks = @ + 1]
        /\ waiter' = [waiter EXCEPT !.left = @ \ {h}]
     \/ /\ handle[h].remaining = 0
        /\ waiter' = [waiter EXCEPT !.left = @ \ {h}, !.event = TRUE]
        /\ UNCHANGED handle
  /\ UNCHANGED <<subs, permits, stats, queue, worker, engine, executed>>

Registered ==
  /\ waiter.pc = "register" /\ waiter.left = {} /\ WaitOn # {}
  /\ waiter' = [waiter EXCEPT !.pc = "check", !.left = WaitOn]
  /\ UNCHANGED <<subs, permits, stats, queue, worker, handle, engine, executed>>

\* One h.done() of the scan.
Check(h) ==
  /\ waiter.pc = "check"
  /\ h \in waiter.left
  /\ waiter' = IF handle[h].remaining = 0 THEN [waiter EXCEPT !.pc = "returned"]
               ELSE [waiter EXCEPT !.left = @ \ {h}]
  /\ UNCHANGED <<subs, permits, stats, queue, worker, handle, engine, executed>>

\* event.wait()
AwaitEvent ==
  /\ waiter.pc = "check" /\ waiter.left = {}
  /\ waiter.event
  /\ waiter' = [waiter EXCEPT !.pc = "clear"]
  /\ UNCHANGED <<subs, permits, stats, queue, worker, handle, engine, executed>>

\* Mutant: the handles are not scanned again after the event.
ClearEvent_no_scan ==
  /\ waiter.pc = "clear"
  /\ waiter' = [pc |-> "check", left |-> {}, event |-> FALSE]
  /\ UNCHANGED <<subs, permits, stats, queue, worker, handle, engine, executed>>

\* event.clear()
ClearEvent ==
  /\ waiter.pc = "clear"
  /\ waiter' = [pc |-> "check", left |-> WaitOn, event |-> FALSE]
  /\ UNCHANGED <<subs, permits, stats, queue, worker, handle, engine, executed>>

-----------------------------------------------------------------------------
(* close(wait=True)                                                        *)

Close ==
  /\ Closes /\ engine.pc = "open"
  /\ engine' = [engine EXCEPT !.closed = TRUE, !.pc = "shutdown"]
  /\ UNCHANGED <<subs, permits, stats, queue, worker, handle, waiter, executed>>

\* ex.shutdown: the executor takes no more work ...
Shutdown(q) ==
  /\ engine.pc = "shutdown"
  /\ q = Cardinality(engine.down)
  /\ engine' = [engine EXCEPT !.down = @ \cup {q}, !.pc = "join"]
  /\ UNCHANGED <<subs, permits, stats, queue, worker, handle, waiter, executed>>

\* ... and the caller waits until its workers have emptied the queue.
Join ==
  /\ engine.pc = "join"
  /\ LET q == Cardinality(engine.down) - 1
     IN queue[q] = << >> /\ \A w \in Workers : w[1] = q => worker[w].pc = "idle"
  /\ engine' = [engine EXCEPT !.pc = IF engine.down = Queues THEN "closed" ELSE "shutdown"]
  /\ UNCHANGED <<subs, permits, stats, queue, worker, handle, waiter, executed>>

Submit(s) == \/ Begin(s) \/ Acquire(s) \/ CountIn(s) \/ Schedule(s)
             \/ FailRelease(s) \/ FailUncount(s) \/ FailOne(s)
             \/ FailedGroup(s) \/ Return(s)
Work(w) == Take(w) \/ Execute(w) \/ CountOut(w) \/ Release(w) \/ SetResults(w) \/ Fire(w)
WaitAny == \/ \E h \in WaitOn : AddCallback(h) \/ Check(h)
           \/ Registered \/ AwaitEvent \/ ClearEvent
CloseStep == Join \/ \E q \in Queues : Shutdown(q)

Next == \/ \E s \in Submitters : Submit(s)
        \/ \E w \in Workers : Work(w)
        \/ WaitAny
        \/ Close
        \/ CloseStep

Spec == Init /\ [][Next]_vars

\* Every thread that can run is run: the threads of the interpreter are
\* scheduled by the operating system.  Nobody has to call close().
FairSpec ==
  /\ Spec
  /\ \A s \in Submitters : WF_vars(Submit(s))
  /\ \A w \in Workers : WF_vars(Work(w))
  /\ WF_vars(WaitAny) /\ WF_vars(CloseStep)

-----------------------------------------------------------------------------
Queued(j) == \E q \in Queues : \E n \in DOMAIN queue[q] : queue[q][n] = j

\* A request that its submitter has counted and not handed to an executor, or
\* that is to be failed because the executor refused it.
Waiting(r) ==
  /\ r[1] = cur(r[1][1])
  /\ \/ r[2] <= taken[r[1][1]] /\ Key(r[1], r[2]) \notin sent[r[1][1]]
     \/ r[2] \in undone[r[1][1]]

\* The request that its submitter is failing, at one of these points.
Failing(r, at) ==
  r[1] = cur(r[1][1]) /\ pc[r[1][1]] \in at /\ r[2] = Least(undone[r[1][1]])

\* A request that has a permit, and one that stats() calls in flight.
HasPermit(r) ==
  \/ Waiting(r) /\ ~ Failing(r, {"uncount", "tell"})
  \/ r[1] = cur(r[1][1]) /\ pc[r[1][1]] = "count" /\ r[2] = taken[r[1][1]] + 1
  \/ Queued(JobOf(r))
  \/ \E w \in Workers : worker[w].job = JobOf(r) /\ r[2] \in worker[w].owed

InFlight(r) ==
  \/ Waiting(r) /\ ~ Failing(r, {"tell"})
  \/ Queued(JobOf(r))
  \/ \E w \in Workers : worker[w].job = JobOf(r) /\ worker[w].pc = "run"

\* No permit is lost or made up, on any path of a request: acquired and not yet
\* counted, queued, running, failed because close() won the race.
PermitsConserved == permits + Cardinality({ r \in Requests : HasPermit(r) }) = MaxInflight

\* stats() is exact: what was submitted has completed, failed or is in flight.
StatsExact ==
  /\ stats.inflight = Cardinality({ r \in Requests : InFlight(r) })
  /\ stats.submitted = stats.completed + stats.failed + stats.inflight

\* done() means that every request has its result: a handle's countdown is the
\* number of results that are still missing.
CountdownExact ==
  \A h \in Handles :
    handle[h].remaining = Cardinality({ i \in Items(h) : handle[h].results[i] = "none" })

\* The books balance at every step of every thread: permits, counters and
\* countdowns count exactly the requests that are under way.
BooksBalance == PermitsConserved /\ StatsExact /\ CountdownExact

Precedes(r, t) == r[1] \in before[t[1]] \/ (r[1] = t[1] /\ r[2] < t[2])

\* With several queues the requests on one chunk are executed in the order of
\* submission: in a batch by position, and batch after batch when one submit
\* returned before the other began, whichever threads they came from.
FifoPerChunk ==
  NumQueues > 1 =>
    \A c \in Chunks : \A m, n \in DOMAIN executed[c] :
      m < n => ~ Precedes(executed[c][n], executed[c][m])

\* Every batch that passes the check of _closed comes to an end: its handle
\* completes, also when close() refuses some of its groups.
BatchesComplete ==
  \A h \in Handles :
    (pc[h[1]] = "acquire" /\ batch[h[1]] = h[2]) ~> (handle[h].known /\ handle[h].remaining = 0)

\* close() returns, even while threads are still submitting.
CloseReturns == engine.pc = "shutdown" ~> engine.pc = "closed"

\* wait_any returns once the handles exist: no completion slips between the scan
\* and the wait.
WaitAnyReturns == (WaitOn # {} /\ WaitOn \subseteq Returned) ~> waiter.pc = "returned"

\* Nobody waits for ever, whoever closes the engine or completes first.
CallsReturn == CloseReturns /\ WaitAnyReturns

\* A submitter that is blocked because the limit is reached goes on when a
\* request completes and gives its permit back.
BlockedSubmitResumes ==
  \A s \in Submitters :
    (pc[s] = "acquire" /\ permits = 0) ~> (permits > 0 \/ pc[s] # "acquire")
=============================================================================
