-------------------------- MODULE ConcurrentIOProofs --------------------------
(***************************************************************************)
(* The order in which the concurrent I/O engine executes the requests on a *)
(* chunk, for any number of threads, batches, queues and permits, and with *)
(* close() and wait_any going on.  A chunk belongs to one queue, and a     *)
(* queue to one worker: what was executed, what the worker runs and what   *)
(* waits in the queue form one line, which a task joins at its end, after  *)
(* every task whose submit had returned.                                   *)
(***************************************************************************)
EXTENDS ConcurrentIO, WellFoundedInduction, TLAPS

Runs(w) == worker[w].pc = "run"

GroupOf(j) == Group(j[1], j[2])

DoneBy(w) == worker[w].ok \cup worker[w].bad

\* The submit of a batch has returned; a task has been given to an executor.
Past(h) == \/ h[2] < batch[h[1]]
           \/ h[2] = batch[h[1]] /\ pc[h[1]] = "finished"
Started(j) == Past(j[1]) \/ (j[1] = cur(j[1][1]) /\ j[2] \in sent[j[1][1]])

\* A task may stand behind another one: its submit had not returned when the
\* other's began.
Follows(y, x) == y # x /\ y[1] \notin before[x[1]]

WorkerState ==
  [pc : {"idle", "run", "release", "fire"}, job : Jobs \cup {NoJob},
   ok : SUBSET Nat, bad : SUBSET Nat, owed : SUBSET Nat]

Types ==
  /\ queue \in [Queues -> Seq(Jobs)]
  /\ worker \in [Workers -> WorkerState]
  /\ executed \in [Chunks -> Seq(Requests)]
  /\ before \in [Handles -> SUBSET Handles]

\* Where a submitter is while it works on a batch, and anywhere.
AtWork == {"acquire", "count", "fail", "uncount", "tell"}
Places == AtWork \cup {"ready", "refused", "finished"}

SubmitSound ==
  /\ pc \in [Submitters -> Places]
  /\ batch \in [Submitters -> Nat]
  /\ sent \in [Submitters -> SUBSET Nat]
  /\ \A s \in Submitters : /\ batch[s] \in 1 .. Len(Program[s])
                           /\ sent[s] \subseteq KeysOf(cur(s))
                           /\ pc[s] = "ready" => sent[s] = {}

\* Only submits that have returned come before another one.
BeforeSound ==
  /\ handle = [h \in Handles |-> handle[h]]
  /\ \A h \in Handles : /\ "known" \in DOMAIN handle[h]
                        /\ handle[h].known => Past(h)
                        /\ h \notin before[h]
                        /\ \A g \in before[h] : handle[g].known

\* A queue holds tasks of its key, each behind those ahead of it.
QueueSound ==
  \A q \in Queues : \A m \in 1 .. Len(queue[q]) :
    /\ queue[q][m][2] = q /\ Started(queue[q][m])
    /\ \A n \in 1 .. Len(queue[q]) : m < n => Follows(queue[q][n], queue[q][m])

\* A worker runs a task of its queue, item by item, and what is queued stands
\* behind it.
RunSound(w) ==
  Runs(w) =>
    /\ worker[w].job \in Jobs /\ worker[w].job[2] = w[1] /\ Started(worker[w].job)
    /\ \A x \in DoneBy(w) : \A y \in GroupOf(worker[w].job) : y < x => y \in DoneBy(w)
    /\ \A n \in 1 .. Len(queue[w[1]]) : Follows(queue[w[1]][n], worker[w].job)

\* What is queued, and what runs, stands behind the task of a request r that was
\* executed, or runs it and has noted r.
Behind(r) ==
  /\ Started(JobOf(r))
  /\ \A n \in 1 .. Len(queue[Key(r[1], r[2])]) : Follows(queue[Key(r[1], r[2])][n], JobOf(r))
  /\ \A w \in Workers : Runs(w) /\ w[1] = Key(r[1], r[2]) =>
       \/ worker[w].job = JobOf(r) /\ r[2] \in DoneBy(w)
       \/ Follows(worker[w].job, JobOf(r))

ExecutedSound ==
  \A c \in Chunks : \A n \in 1 .. Len(executed[c]) :
    Chunk(executed[c][n]) = c /\ Behind(executed[c][n])

\* The line of every queue: the inductive invariant, with several queues.
LineInv ==
  /\ NumQueues > 1 /\ Types /\ SubmitSound /\ BeforeSound /\ QueueSound
  /\ \A w \in Workers : RunSound(w)
  /\ ExecutedSound /\ FifoPerChunk

-------------------------------------------------------------------------------
(* Handles, requests and tasks                                               *)

LEMMA LeastNat ==
  ASSUME NEW T, T \subseteq Nat, T # {}
  PROVE  Least(T) \in T /\ \A y \in T : Least(T) <= y
<1>1. PICK x \in T : \A y \in T : ~ (<<y, x>> \in OpToRel(<, Nat))
  BY ZenonT(20), NatLessThanWellFounded, WFMin
<1>2. ASSUME NEW y \in T PROVE x <= y
  <2>1. x \in Nat /\ y \in Nat
    OBVIOUS
  <2>2. ~ (<<y, x>> \in OpToRel(<, Nat))
    BY ZenonT(20), <1>1
  <2>3. ~ (y < x)
    BY <2>1, <2>2 DEF OpToRel
  <2>. QED
    BY <2>1, <2>3
<1>. QED
  BY <1>2 DEF Least

LEMMA HandleShape ==
  /\ \A h \in Handles : /\ h = <<h[1], h[2]>> /\ h[1] \in Submitters
                        /\ h[2] \in 1 .. Len(Program[h[1]]) /\ h[2] \in Nat
                        /\ Req(h) \in Seq(Nat) /\ Len(Req(h)) \in Nat
  /\ \A s \in Submitters : \A b \in 1 .. Len(Program[s]) : <<s, b>> \in Handles
<1>1. ASSUME NEW h \in Handles
      PROVE  /\ h = <<h[1], h[2]>> /\ h[1] \in Submitters
             /\ h[2] \in 1 .. Len(Program[h[1]]) /\ h[2] \in Nat
             /\ Req(h) \in Seq(Nat) /\ Len(Req(h)) \in Nat
  <2>1. PICK s \in Submitters : h \in {s} \X (1 .. Len(Program[s]))
    BY DEF Handles
  <2>2. Program[s] \in Seq(Seq(Nat))
    BY EngineConstants
  <2>. QED
    BY <2>1, <2>2 DEF Req
<1>2. ASSUME NEW s \in Submitters, NEW b \in 1 .. Len(Program[s])
      PROVE  <<s, b>> \in Handles
  BY DEF Handles
<1>. QED
  BY <1>1, <1>2

LEMMA KeyShape ==
  ASSUME NumQueues > 1, NEW h \in Handles, NEW i \in Items(h)
  PROVE  /\ i \in Nat /\ Key(h, i) \in Queues /\ Key(h, i) \in KeysOf(h) /\ Key(h, i) \in Nat
         /\ Key(h, i) = Chunk(<<h, i>>) % NumQueues
<1>1. i \in Nat \ {0} /\ Req(h)[i] \in Nat
  BY HandleShape DEF Items
<1>2. Key(h, i) = Req(h)[i] % NumQueues /\ Req(h)[i] % NumQueues \in 0 .. (NumQueues - 1)
  BY <1>1, EngineConstants DEF Key
<1>. QED
  BY <1>1, <1>2, EngineConstants DEF Queues, KeysOf, Chunk

LEMMA RequestShape ==
  /\ \A r \in Requests : r = <<r[1], r[2]>> /\ r[1] \in Handles /\ r[2] \in Items(r[1])
  /\ \A h \in Handles : \A i \in Items(h) : <<h, i>> \in Requests
<1>1. ASSUME NEW r \in Requests
      PROVE  r = <<r[1], r[2]>> /\ r[1] \in Handles /\ r[2] \in Items(r[1])
  <2>1. PICK h \in Handles : r \in {h} \X Items(h)
    BY DEF Requests
  <2>. QED
    BY <2>1
<1>2. ASSUME NEW h \in Handles, NEW i \in Items(h) PROVE <<h, i>> \in Requests
  BY DEF Requests
<1>. QED
  BY <1>1, <1>2

LEMMA JobShape ==
  ASSUME NumQueues > 1
  PROVE  /\ \A j \in Jobs : /\ j = <<j[1], j[2]>> /\ j[1] \in Handles /\ j[2] \in KeysOf(j[1])
                            /\ j[2] \in Queues
                            /\ GroupOf(j) \subseteq Items(j[1]) /\ GroupOf(j) \subseteq Nat
         /\ \A h \in Handles : \A k \in KeysOf(h) : <<h, k>> \in Jobs
<1>1. ASSUME NEW j \in Jobs
      PROVE  /\ j = <<j[1], j[2]>> /\ j[1] \in Handles /\ j[2] \in KeysOf(j[1])
             /\ j[2] \in Queues
             /\ GroupOf(j) \subseteq Items(j[1]) /\ GroupOf(j) \subseteq Nat
  <2>1. PICK h \in Handles : j \in {h} \X KeysOf(h)
    BY DEF Jobs
  <2>2. j = <<j[1], j[2]>> /\ j[1] = h /\ j[2] \in KeysOf(h)
    BY <2>1
  <2>3. PICK i \in Items(h) : j[2] = Key(h, i)
    BY <2>2 DEF KeysOf
  <2>4. GroupOf(j) \subseteq Items(h)
    BY <2>2 DEF GroupOf, Group
  <2>. QED
    BY <2>2, <2>3, <2>4, KeyShape
<1>2. ASSUME NEW h \in Handles, NEW k \in KeysOf(h) PROVE <<h, k>> \in Jobs
  BY DEF Jobs
<1>. QED
  BY <1>1, <1>2

LEMMA JobOfShape ==
  ASSUME NumQueues > 1, NEW r \in Requests
  PROVE  /\ JobOf(r) \in Jobs /\ JobOf(r)[1] = r[1] /\ JobOf(r)[2] = Key(r[1], r[2])
         /\ r[1] \in Handles /\ Chunk(r) \in Chunks
         /\ Key(r[1], r[2]) \in Queues /\ Key(r[1], r[2]) = Chunk(r) % NumQueues
<1>1. r = <<r[1], r[2]>> /\ r[1] \in Handles /\ r[2] \in Items(r[1])
  BY RequestShape
<1>2. /\ Key(r[1], r[2]) \in KeysOf(r[1]) /\ Key(r[1], r[2]) \in Queues
      /\ Key(r[1], r[2]) = Chunk(r) % NumQueues
  BY <1>1, KeyShape
<1>. QED
  BY <1>1, <1>2, JobShape DEF JobOf, Chunks

\* With several queues each has one worker.
LEMMA WorkerShape ==
  ASSUME NumQueues > 1
  PROVE  /\ \A w \in Workers : w[1] \in Queues
         /\ \A v, w \in Workers : v[1] = w[1] => v = w
  BY DEF Workers

LEMMA CurShape ==
  ASSUME LineInv, NEW s \in Submitters
  PROVE  /\ cur(s) \in Handles /\ cur(s)[1] = s /\ cur(s)[2] = batch[s]
         /\ batch[s] \in Nat /\ batch[s] \in 1 .. Len(Program[s]) /\ Len(Program[s]) \in Nat
<1>1. batch[s] \in 1 .. Len(Program[s]) /\ Len(Program[s]) \in Nat
  BY EngineConstants DEF LineInv, SubmitSound
<1>. QED
  BY <1>1, HandleShape DEF cur

\* What is in the line has been started.
LEMMA LineShape ==
  ASSUME LineInv
  PROVE  /\ \A q \in Queues : \A n \in 1 .. Len(queue[q]) :
              /\ queue[q][n] \in Jobs /\ queue[q][n][1] \in Handles
              /\ queue[q][n][2] = q /\ Started(queue[q][n])
         /\ \A w \in Workers : Runs(w) =>
              /\ worker[w].job \in Jobs /\ worker[w].job[1] \in Handles
              /\ worker[w].job[2] = w[1] /\ Started(worker[w].job)
         /\ \A c \in Chunks : \A n \in 1 .. Len(executed[c]) :
              /\ executed[c][n] \in Requests /\ JobOf(executed[c][n]) \in Jobs
              /\ Started(JobOf(executed[c][n])) /\ Behind(executed[c][n])
              /\ Key(executed[c][n][1], executed[c][n][2]) \in Queues
              /\ Key(executed[c][n][1], executed[c][n][2]) = c % NumQueues
<1>1. NumQueues > 1 /\ Types
  BY DEF LineInv
<1>2. ASSUME NEW q \in Queues, NEW n \in 1 .. Len(queue[q])
      PROVE  /\ queue[q][n] \in Jobs /\ queue[q][n][1] \in Handles
             /\ queue[q][n][2] = q /\ Started(queue[q][n])
  <2>1. queue[q] \in Seq(Jobs)
    BY <1>1 DEF Types
  <2>2. queue[q][n] \in Jobs
    BY <2>1
  <2>. QED
    BY <1>1, <2>2, JobShape DEF LineInv, QueueSound
<1>3. ASSUME NEW w \in Workers, Runs(w)
      PROVE  /\ worker[w].job \in Jobs /\ worker[w].job[1] \in Handles
             /\ worker[w].job[2] = w[1] /\ Started(worker[w].job)
  BY <1>1, <1>3, JobShape DEF LineInv, RunSound
<1>4. ASSUME NEW c \in Chunks, NEW n \in 1 .. Len(executed[c])
      PROVE  /\ executed[c][n] \in Requests /\ JobOf(executed[c][n]) \in Jobs
             /\ Started(JobOf(executed[c][n])) /\ Behind(executed[c][n])
             /\ Key(executed[c][n][1], executed[c][n][2]) \in Queues
             /\ Key(executed[c][n][1], executed[c][n][2]) = c % NumQueues
  <2>1. executed[c] \in Seq(Requests)
    BY <1>1 DEF Types
  <2>2. executed[c][n] \in Requests
    BY <2>1
  <2>3. Chunk(executed[c][n]) = c /\ Behind(executed[c][n])
    BY DEF LineInv, ExecutedSound
  <2>. QED
    BY <1>1, <2>2, <2>3, JobOfShape DEF Behind
<1>. QED
  BY <1>2, <1>3, <1>4

LEMMA ExecutedKept ==
  ASSUME LineInv, UNCHANGED executed,
         \A r \in Requests : JobOf(r) \in Jobs /\ Behind(r) => Behind(r)'
  PROVE  ExecutedSound'
<1>1. ASSUME NEW c \in Chunks, NEW n \in 1 .. Len(executed[c])
      PROVE  Chunk(executed[c][n]) = c /\ Behind(executed[c][n])'
  <2>1. /\ executed[c][n] \in Requests /\ JobOf(executed[c][n]) \in Jobs
        /\ Behind(executed[c][n]) /\ Chunk(executed[c][n]) = c
    BY LineShape DEF LineInv, ExecutedSound
  <2>2. PICK r \in Requests : r = executed[c][n] /\ r = executed'[c][n]
    BY <2>1
  <2>. QED
    BY <2>1, <2>2
<1>. QED
  BY <1>1 DEF ExecutedSound

LEMMA InitLine ==
  ASSUME Init, NumQueues > 1
  PROVE  LineInv
<1>1. Types
  BY EngineConstants DEF Init, Types, WorkerState, Idle, NoJob
<1>2. SubmitSound
  <2>1. \A s \in Submitters : Program[s] \in Seq(Seq(Nat)) /\ Program[s] # << >>
    BY EngineConstants
  <2>2. \A s \in Submitters : batch[s] = 1 /\ 1 \in 1 .. Len(Program[s])
    BY <2>1 DEF Init
  <2>. QED
    BY <2>2 DEF Init, SubmitSound, Places, AtWork
<1>3. BeforeSound
  BY DEF Init, BeforeSound
<1>4. QueueSound /\ ExecutedSound /\ FifoPerChunk
  BY DEF Init, QueueSound, ExecutedSound, FifoPerChunk
<1>5. \A w \in Workers : RunSound(w)
  BY DEF Init, RunSound, Runs, Idle
<1>. QED
  BY <1>1, <1>2, <1>3, <1>4, <1>5 DEF LineInv

-------------------------------------------------------------------------------
(* The line grows, moves and is executed                                     *)

\* A worker executes the next item of its task: what was executed on the chunk
\* before is of tasks ahead of it, or an earlier item of the same one.
LEMMA ExecuteLine ==
  ASSUME LineInv, NEW w \in Workers, Execute(w)
  PROVE  LineInv'
<1>1. NumQueues > 1 /\ w[1] \in Queues /\ \A v \in Workers : v[1] = w[1] => v = w
  BY WorkerShape DEF LineInv
<1>2. Runs(w) /\ RunSound(w) /\ Pending(w) # {} /\ worker[w] \in WorkerState
  BY DEF Execute, Runs, LineInv, Types
<1>3. PICK j \in Jobs : j = worker[w].job
  BY <1>2 DEF RunSound
<1>4. /\ j[2] = w[1] /\ Started(j) /\ j[1] \in Handles /\ j = <<j[1], j[2]>>
      /\ GroupOf(j) \subseteq Items(j[1]) /\ GroupOf(j) \subseteq Nat
      /\ \A x \in DoneBy(w) : \A y \in GroupOf(j) : y < x => y \in DoneBy(w)
      /\ \A n \in 1 .. Len(queue[w[1]]) : Follows(queue[w[1]][n], j)
  BY <1>1, <1>2, <1>3, JobShape DEF RunSound
<1>5. Pending(w) = GroupOf(j) \ DoneBy(w)
  BY <1>3 DEF Pending, GroupOf, DoneBy
<1>6. PICK i \in Pending(w) : i = Least(Pending(w)) /\ \A x \in Pending(w) : i <= x
  BY <1>2, <1>4, <1>5, LeastNat
<1>7. PICK r : r = <<j[1], i>>
  OBVIOUS
<1>8. r \in Requests /\ JobOf(r) = j /\ r[1] = j[1] /\ r[2] = i /\ Key(r[1], r[2]) = w[1]
  <2>1. i \in GroupOf(j)
    BY <1>5
  <2>2. i \in Items(j[1]) /\ Key(j[1], i) = j[2]
    BY <2>1 DEF GroupOf, Group
  <2>. QED
    BY <1>4, <1>7, <2>2, RequestShape DEF JobOf
<1>9. PICK c \in Chunks : c = Chunk(r)
  BY <1>1, <1>8, JobOfShape
<1> DEFINE O == [worker[w] EXCEPT !.ok = @ \cup {i}]
           B == [worker[w] EXCEPT !.bad = @ \cup {i}]
<1>10. /\ worker' = [worker EXCEPT ![w] = O] \/ worker' = [worker EXCEPT ![w] = B]
       /\ executed' = [executed EXCEPT ![c] = Append(@, r)]
       /\ UNCHANGED <<pc, batch, sent, before, queue, handle>>
  BY <1>3, <1>6, <1>7, <1>9 DEF Execute, subs
<1>11. i \in Nat
  BY <1>4, <1>5
<1>12. /\ O \in WorkerState /\ O.job = j /\ O.ok = worker[w].ok \cup {i} /\ O.bad = worker[w].bad
       /\ B \in WorkerState /\ B.job = j /\ B.ok = worker[w].ok /\ B.bad = worker[w].bad \cup {i}
  BY <1>2, <1>3, <1>11 DEF WorkerState
<1>. HIDE DEF O, B
<1>13. PICK V \in {O, B} : worker' = [worker EXCEPT ![w] = V]
  BY <1>10
<1>14. /\ worker' \in [Workers -> WorkerState] /\ worker'[w] = V
       /\ \A v \in Workers \ {w} : worker'[v] = worker[v]
  BY <1>12, <1>13 DEF LineInv, Types
<1>15. /\ DoneBy(w)' = DoneBy(w) \cup {i} /\ worker'[w].job = j
       /\ \A v \in Workers \ {w} : DoneBy(v)' = DoneBy(v) /\ (Runs(v)' <=> Runs(v))
  BY <1>12, <1>13, <1>14 DEF DoneBy, Runs
<1>16. /\ executed[c] \in Seq(Requests) /\ executed' \in [Chunks -> Seq(Requests)]
       /\ executed'[c] = Append(executed[c], r)
       /\ \A d \in Chunks \ {c} : executed'[d] = executed[d]
  BY <1>8, <1>10 DEF LineInv, Types
<1>17. \A d \in Chunks : \A n \in 1 .. Len(executed'[d]) :
         \/ n \in 1 .. Len(executed[d]) /\ executed'[d][n] = executed[d][n]
         \/ d = c /\ n = Len(executed[c]) + 1 /\ executed'[d][n] = r
  BY <1>16
<1>18. /\ \A u, x : Follows(u, x)' <=> Follows(u, x)
       /\ \A h : Past(h)' <=> Past(h)
       /\ \A x : Started(x)' <=> Started(x)
  BY <1>10 DEF Follows, Past, Started, cur
<1>19. Types'
  BY <1>10, <1>14, <1>16 DEF LineInv, Types
<1>20. SubmitSound' /\ BeforeSound' /\ QueueSound'
  BY <1>10, <1>18 DEF LineInv, SubmitSound, cur, BeforeSound, QueueSound
<1>21. ASSUME NEW v \in Workers PROVE RunSound(v)'
  <2>1. CASE v = w
    <3>1. \A x \in DoneBy(w) \cup {i} : \A y \in GroupOf(j) : y < x => y \in DoneBy(w) \cup {i}
      <4>1. ASSUME NEW y \in GroupOf(j), y < i PROVE y \in DoneBy(w)
        <5>1. y \in Nat /\ ~ (i <= y)
          BY <1>4, <1>11, <4>1
        <5>. QED
          BY <1>5, <1>6, <5>1
      <4>. QED
        BY <1>4, <4>1
    <3>. QED
      BY <1>4, <1>10, <1>15, <1>18, <2>1, <3>1 DEF RunSound
  <2>2. CASE v # w
    BY <1>10, <1>14, <1>15, <1>18, <2>2 DEF LineInv, RunSound
  <2>. QED
    BY <2>1, <2>2
<1>22. ASSUME NEW x \in Requests, Behind(x) PROVE Behind(x)'
  <2>1. ASSUME NEW v \in Workers, Runs(v)', v[1] = Key(x[1], x[2])
        PROVE  \/ worker'[v].job = JobOf(x) /\ x[2] \in DoneBy(v)'
               \/ Follows(worker'[v].job, JobOf(x))
    <3>1. /\ Runs(v) /\ worker'[v].job = worker[v].job /\ DoneBy(v) \subseteq DoneBy(v)'
      BY <1>2, <1>3, <1>14, <1>15, <2>1
    <3>. QED
      BY <1>22, <2>1, <3>1 DEF Behind
  <2>. QED
    BY <1>10, <1>18, <1>22, <2>1 DEF Behind
<1>23. Behind(r)'
  <2>1. \A v \in Workers : v[1] = w[1] => worker'[v].job = j /\ i \in DoneBy(v)'
    BY <1>1, <1>15
  <2>. QED
    BY <1>4, <1>8, <1>10, <1>18, <2>1 DEF Behind
<1>24. ExecutedSound'
  <2>1. ASSUME NEW d \in Chunks, NEW n \in 1 .. Len(executed'[d])
        PROVE  Chunk(executed'[d][n]) = d /\ Behind(executed[d][n])'
    <3>1. PICK x \in Requests : x = executed'[d][n] /\ Chunk(x) = d /\ (Behind(x) \/ x = r)
      BY <1>8, <1>9, <1>17, LineShape DEF LineInv, ExecutedSound
    <3>2. Behind(x)'
      BY <1>22, <1>23, <3>1
    <3>. QED
      BY <3>1, <3>2
  <2>. QED
    BY <2>1 DEF ExecutedSound
<1>25. ASSUME NEW m \in 1 .. Len(executed[c]) PROVE ~Precedes(r, executed[c][m])
  <2>1. PICK x \in Requests : x = executed[c][m] /\ Behind(x) /\ Chunk(x) = c
    BY LineShape DEF LineInv, ExecutedSound
  <2>2. Key(x[1], x[2]) = w[1] /\ JobOf(x)[1] = x[1] /\ x[1] \in Handles
    BY <1>1, <1>8, <1>9, <2>1, JobOfShape
  <2>3. x[1] \notin before[x[1]]
    BY <2>2 DEF LineInv, BeforeSound
  <2>4. \/ j = JobOf(x) /\ x[2] \in DoneBy(w)
        \/ Follows(j, JobOf(x))
    BY <1>2, <1>3, <2>1, <2>2 DEF Behind
  <2>5. CASE j = JobOf(x) /\ x[2] \in DoneBy(w)
    <3>1. ~ (i < x[2])
      BY <1>4, <1>5, <2>5
    <3>. QED
      BY <1>8, <2>1, <2>2, <2>3, <2>5, <3>1 DEF Precedes
  <2>6. CASE Follows(j, JobOf(x))
    <3>1. r[1] \notin before[x[1]] /\ j # JobOf(x)
      BY <1>8, <2>2, <2>6 DEF Follows
    <3>2. r[1] # x[1]
      BY <1>4, <1>8, <2>2, <3>1 DEF JobOf
    <3>. QED
      BY <2>1, <3>1, <3>2 DEF Precedes
  <2>. QED
    BY <2>4, <2>5, <2>6
<1>26. FifoPerChunk'
  <2>1. \A d \in Chunks : /\ DOMAIN executed[d] = 1 .. Len(executed[d]) /\ Len(executed[d]) \in Nat
                          /\ DOMAIN executed'[d] = 1 .. Len(executed'[d])
    BY <1>16 DEF LineInv, Types
  <2>2. ASSUME NEW d \in Chunks, NEW m \in 1 .. Len(executed'[d]), NEW n \in 1 .. Len(executed'[d]),
               m < n
        PROVE  ~Precedes(executed'[d][n], executed'[d][m])
    <3>1. Len(executed'[c]) = Len(executed[c]) + 1
      BY <1>16
    <3>2. m \in 1 .. Len(executed[d]) /\ executed'[d][m] = executed[d][m]
      BY <1>16, <1>17, <2>1, <2>2, <3>1
    <3>3. CASE n \in 1 .. Len(executed[d]) /\ executed'[d][n] = executed[d][n]
      BY <1>1, <2>1, <2>2, <3>2, <3>3 DEF LineInv, FifoPerChunk
    <3>4. CASE d = c /\ executed'[d][n] = r
      BY <1>25, <3>2, <3>4
    <3>. QED
      BY <1>17, <3>3, <3>4
  <2>3. \A x, y : Precedes(x, y)' <=> Precedes(x, y)
    BY <1>10 DEF Precedes
  <2>. QED
    BY <2>1, <2>2, <2>3 DEF FifoPerChunk
<1>. QED
  BY <1>1, <1>19, <1>20, <1>21, <1>24, <1>26 DEF LineInv

LEMMA FifoKept ==
  ASSUME FifoPerChunk, UNCHANGED <<executed, before>>
  PROVE  FifoPerChunk'
  BY DEF FifoPerChunk, Precedes

\* A worker takes the task that is first in its queue: the line stays as it is.
LEMMA TakeLine ==
  ASSUME LineInv, NEW w \in Workers, Take(w)
  PROVE  LineInv'
<1>1. NumQueues > 1 /\ w[1] \in Queues /\ \A v \in Workers : v[1] = w[1] => v = w
  BY WorkerShape DEF LineInv
<1>2. PICK q \in Queues : q = w[1]
  BY <1>1
<1>3. queue[q] \in Seq(Jobs) /\ queue[q] # << >> /\ queue \in [Queues -> Seq(Jobs)]
  BY <1>2 DEF LineInv, Types, Take
<1>4. PICK y \in Jobs : y = queue[q][1] /\ Head(queue[q]) = y
  <2>1. Len(queue[q]) \in Nat /\ Len(queue[q]) # 0
    BY <1>3
  <2>2. Head(queue[q]) = queue[q][1] /\ queue[q][1] \in Jobs
    BY <1>3, <2>1
  <2>. QED
    BY <2>2
<1> DEFINE V == [pc |-> "run", job |-> y, ok |-> {}, bad |-> {}, owed |-> GroupOf(y)]
<1>5. /\ worker' = [worker EXCEPT ![w] = V] /\ queue' = [queue EXCEPT ![q] = Tail(@)]
      /\ UNCHANGED <<pc, batch, sent, before, handle, executed>>
  BY <1>2, <1>4 DEF Take, subs, GroupOf
<1>6. V \in WorkerState /\ V.pc = "run" /\ V.job = y /\ V.ok = {} /\ V.bad = {}
  BY <1>1, JobShape DEF WorkerState
<1>. HIDE DEF V
<1>7. /\ worker' \in [Workers -> WorkerState] /\ worker'[w] = V
      /\ \A v \in Workers \ {w} : worker'[v] = worker[v]
  BY <1>5, <1>6 DEF LineInv, Types
<1>8. /\ queue' \in [Queues -> Seq(Jobs)] /\ queue'[q] = Tail(queue[q])
      /\ \A p \in Queues \ {q} : queue'[p] = queue[p]
  BY <1>3, <1>5
<1>9. /\ 1 \in 1 .. Len(queue[q])
      /\ \A n \in 1 .. Len(queue'[q]) :
           n + 1 \in 1 .. Len(queue[q]) /\ 1 < n + 1 /\ queue'[q][n] = queue[q][n + 1]
  BY <1>3, <1>8
<1>10. /\ \A u, x : Follows(u, x)' <=> Follows(u, x)
       /\ \A h : Past(h)' <=> Past(h)
       /\ \A j : Started(j)' <=> Started(j)
  BY <1>5 DEF Follows, Past, Started, cur
<1>11. ASSUME NEW p \in Queues, NEW x, \A n \in 1 .. Len(queue[p]) : Follows(queue[p][n], x)
       PROVE  \A n \in 1 .. Len(queue'[p]) : Follows(queue'[p][n], x)
  BY <1>8, <1>9, <1>11
<1>12. Types'
  BY <1>5, <1>7, <1>8 DEF LineInv, Types
<1>13. SubmitSound' /\ BeforeSound'
  BY <1>5, <1>10 DEF LineInv, SubmitSound, cur, BeforeSound
<1>14. QueueSound'
  <2>1. ASSUME NEW p \in Queues, NEW m \in 1 .. Len(queue'[p])
        PROVE  /\ queue'[p][m][2] = p /\ Started(queue'[p][m])
               /\ \A n \in 1 .. Len(queue'[p]) : m < n => Follows(queue'[p][n], queue'[p][m])
    <3>1. CASE p # q
      BY <1>8, <3>1 DEF LineInv, QueueSound
    <3>2. CASE p = q
      <4>1. m + 1 \in 1 .. Len(queue[q]) /\ queue'[q][m] = queue[q][m + 1]
        BY <1>9, <3>2
      <4>2. /\ queue[q][m + 1][2] = q /\ Started(queue[q][m + 1])
            /\ \A n \in 1 .. Len(queue[q]) : m + 1 < n => Follows(queue[q][n], queue[q][m + 1])
        BY <4>1 DEF LineInv, QueueSound
      <4>3. ASSUME NEW n \in 1 .. Len(queue'[q]), m < n
            PROVE  Follows(queue'[q][n], queue'[q][m])
        <5>1. n + 1 \in 1 .. Len(queue[q]) /\ queue'[q][n] = queue[q][n + 1] /\ m + 1 < n + 1
          BY <1>9, <3>2, <4>3
        <5>. QED
          BY <4>1, <4>2, <5>1
      <4>. QED
        BY <3>2, <4>1, <4>2, <4>3
    <3>. QED
      BY <3>1, <3>2
  <2>. QED
    BY <1>10, <2>1 DEF QueueSound
<1>15. ASSUME NEW v \in Workers PROVE RunSound(v)'
  <2>1. CASE v = w
    <3>1. y[2] = q /\ Started(y) /\ \A n \in 1 .. Len(queue'[q]) : Follows(queue'[q][n], y)
      BY <1>4, <1>9 DEF LineInv, QueueSound
    <3>2. DoneBy(w)' = {} /\ worker'[w].job = y
      BY <1>6, <1>7 DEF DoneBy
    <3>. QED
      BY <1>2, <1>10, <2>1, <3>1, <3>2 DEF RunSound
  <2>2. CASE v # w
    <3>1. RunSound(v) /\ worker'[v] = worker[v] /\ v[1] \in Queues \ {q}
      BY <1>1, <1>2, <1>7, <2>2, WorkerShape DEF LineInv
    <3>2. DoneBy(v)' = DoneBy(v) /\ (Runs(v)' <=> Runs(v)) /\ queue'[v[1]] = queue[v[1]]
      BY <1>8, <3>1 DEF DoneBy, Runs
    <3>. QED
      BY <1>10, <3>1, <3>2 DEF RunSound
  <2>. QED
    BY <2>1, <2>2
<1>16. ASSUME NEW r \in Requests, Behind(r) PROVE Behind(r)'
  <2> DEFINE k == Key(r[1], r[2])
  <2>1. k \in Queues
    BY <1>1, JobOfShape
  <2>2. \A n \in 1 .. Len(queue'[k]) : Follows(queue'[k][n], JobOf(r))
    BY <1>11, <1>16, <2>1 DEF Behind
  <2>3. ASSUME NEW v \in Workers, Runs(v)', v[1] = k
        PROVE  \/ worker'[v].job = JobOf(r) /\ r[2] \in DoneBy(v)'
               \/ Follows(worker'[v].job, JobOf(r))
    <3>1. CASE v = w
      <4>1. k = q /\ worker'[v].job = y
        BY <1>2, <1>6, <1>7, <2>3, <3>1
      <4>. QED
        BY <1>4, <1>9, <1>16, <4>1 DEF Behind
    <3>2. CASE v # w
      BY <1>7, <1>16, <2>3, <3>2 DEF Behind, Runs, DoneBy
    <3>. QED
      BY <3>1, <3>2
  <2>. HIDE DEF k
  <2>. QED
    BY <1>10, <1>16, <2>2, <2>3 DEF Behind, k
<1>17. ExecutedSound'
  BY <1>5, <1>16, ExecutedKept
<1>18. FifoPerChunk'
  BY <1>5, FifoKept DEF LineInv
<1>. QED
  BY <1>12, <1>13, <1>14, <1>15, <1>17, <1>18 DEF LineInv

\* A task joins the line at the end of its queue.
LEMMA JoinLine ==
  ASSUME LineInv, NEW q \in Queues, NEW y \in Jobs, y[2] = q, Started(y)',
         queue' = [queue EXCEPT ![q] = Append(@, y)], UNCHANGED <<worker, executed, before>>,
         \A x \in Jobs : Started(x) => Started(x)' /\ Follows(y, x),
         SubmitSound', BeforeSound'
  PROVE  LineInv'
<1>1. queue[q] \in Seq(Jobs) /\ queue \in [Queues -> Seq(Jobs)]
  BY DEF LineInv, Types
<1>2. queue'[q] = Append(queue[q], y) /\ \A p \in Queues \ {q} : queue'[p] = queue[p]
  BY <1>1
<1>3. queue' \in [Queues -> Seq(Jobs)]
  BY <1>1
<1>4. Len(queue[q]) \in Nat /\ Len(queue'[q]) = Len(queue[q]) + 1
  BY <1>1, <1>2
<1>5. \A n \in 1 .. Len(queue'[q]) :
        \/ n \in 1 .. Len(queue[q]) /\ queue'[q][n] = queue[q][n]
        \/ n = Len(queue[q]) + 1 /\ queue'[q][n] = y
  BY <1>1, <1>2, <1>4
<1>6. \A u, x : Follows(u, x)' <=> Follows(u, x)
  BY DEF Follows
<1>7. \A p \in Queues : \A n \in 1 .. Len(queue'[p]) :
        \/ n \in 1 .. Len(queue[p]) /\ queue'[p][n] = queue[p][n]
        \/ p = q /\ n = Len(queue[q]) + 1 /\ queue'[p][n] = y
  BY <1>2, <1>5
<1>8. ASSUME NEW x \in Jobs, Started(x), NEW p \in Queues,
             \A n \in 1 .. Len(queue[p]) : Follows(queue[p][n], x)
      PROVE  \A n \in 1 .. Len(queue'[p]) : Follows(queue[p][n], x)'
  BY <1>6, <1>7, <1>8
<1>9. Types'
  BY <1>3 DEF LineInv, Types
<1>10. QueueSound'
  <2> SUFFICES ASSUME NEW p \in Queues, NEW m \in 1 .. Len(queue'[p])
               PROVE  /\ queue'[p][m][2] = p /\ Started(queue[p][m])'
                      /\ \A n \in 1 .. Len(queue'[p]) : m < n => Follows(queue[p][n], queue[p][m])'
    BY DEF QueueSound
  <2>1. CASE m \in 1 .. Len(queue[p]) /\ queue'[p][m] = queue[p][m]
    <3>1. /\ queue[p][m] \in Jobs /\ queue[p][m][2] = p /\ Started(queue[p][m])
          /\ \A n \in 1 .. Len(queue[p]) : m < n => Follows(queue[p][n], queue[p][m])
      BY <2>1, LineShape DEF LineInv, QueueSound
    <3>2. PICK x \in Jobs : x = queue[p][m] /\ x = queue'[p][m]
      BY <2>1, <3>1
    <3>3. Started(x)' /\ Follows(y, x)
      BY <3>1, <3>2
    <3>4. \A n \in 1 .. Len(queue'[p]) : m < n => Follows(queue'[p][n], x)
      BY <1>7, <3>1, <3>2, <3>3
    <3>. QED
      BY <1>6, <3>1, <3>2, <3>3, <3>4
  <2>2. CASE p = q /\ m = Len(queue[q]) + 1 /\ queue'[p][m] = y
    BY <1>4, <2>2
  <2>. QED
    BY <1>7, <2>1, <2>2
<1>11. ASSUME NEW w \in Workers PROVE RunSound(w)'
  <2> SUFFICES ASSUME Runs(w)' PROVE RunSound(w)'
    BY DEF RunSound
  <2>1. Runs(w) /\ worker'[w] = worker[w] /\ RunSound(w) /\ DoneBy(w)' = DoneBy(w) /\ w[1] \in Queues
    BY WorkerShape DEF LineInv, Runs, DoneBy
  <2>2. PICK x \in Jobs : x = worker[w].job
    BY <2>1 DEF RunSound
  <2>3. /\ x[2] = w[1] /\ Started(x)
        /\ \A n \in 1 .. Len(queue[w[1]]) : Follows(queue[w[1]][n], x)
    BY <2>1, <2>2 DEF RunSound
  <2>4. \A n \in 1 .. Len(queue'[w[1]]) : Follows(queue[w[1]][n], x)'
    BY <1>8, <2>1, <2>3
  <2>. QED
    BY <2>1, <2>2, <2>3, <2>4 DEF RunSound
<1>12. ASSUME NEW r \in Requests, JobOf(r) \in Jobs, Behind(r) PROVE Behind(r)'
  <2>1. Key(r[1], r[2]) \in Queues
    BY JobOfShape DEF LineInv
  <2>2. \A n \in 1 .. Len(queue'[Key(r[1], r[2])]) : Follows(queue[Key(r[1], r[2])][n], JobOf(r))'
    BY <1>8, <1>12, <2>1 DEF Behind
  <2>3. \A w \in Workers : (Runs(w)' <=> Runs(w)) /\ DoneBy(w)' = DoneBy(w)
    BY DEF Runs, DoneBy
  <2>. QED
    BY <1>6, <1>12, <2>2, <2>3 DEF Behind
<1>13. ExecutedSound'
  BY <1>12, ExecutedKept
<1>14. FifoPerChunk'
  BY FifoKept DEF LineInv
<1>. QED
  BY <1>9, <1>10, <1>11, <1>13, <1>14 DEF LineInv

\* A step that leaves the queues, the running tasks and what was executed alone,
\* and what comes before the tasks that were started.
LEMMA QuietLine ==
  ASSUME LineInv, Types', SubmitSound', BeforeSound', UNCHANGED <<queue, executed>>,
         \A j \in Jobs : Started(j) => Started(j)' /\ before'[j[1]] = before[j[1]],
         \A w \in Workers : Runs(w)' => Runs(w) /\ worker'[w] = worker[w]
  PROVE  LineInv'
<1>1. \A x \in Jobs : \A y : Started(x) /\ Follows(y, x) => Follows(y, x)'
  BY DEF Follows
<1>2. QueueSound'
  <2>1. ASSUME NEW q \in Queues, NEW m \in 1 .. Len(queue[q])
        PROVE  /\ queue[q][m][2] = q /\ Started(queue[q][m])'
               /\ \A n \in 1 .. Len(queue[q]) : m < n => Follows(queue[q][n], queue[q][m])'
    <3>1. PICK x \in Jobs : x = queue[q][m] /\ Started(x) /\ x[2] = q
      BY LineShape
    <3>2. \A n \in 1 .. Len(queue[q]) : m < n => Follows(queue[q][n], x)
      BY <3>1 DEF LineInv, QueueSound
    <3>. QED
      BY <1>1, <3>1, <3>2
  <2>. QED
    BY <2>1 DEF QueueSound
<1>3. ASSUME NEW w \in Workers PROVE RunSound(w)'
  <2> SUFFICES ASSUME Runs(w)' PROVE RunSound(w)'
    BY DEF RunSound
  <2>1. Runs(w) /\ worker'[w] = worker[w] /\ RunSound(w) /\ DoneBy(w)' = DoneBy(w)
    BY DEF LineInv, DoneBy
  <2>. QED
    BY <1>1, <2>1 DEF RunSound
<1>4. ASSUME NEW r \in Requests, JobOf(r) \in Jobs, Behind(r) PROVE Behind(r)'
  <2>1. Started(JobOf(r))' /\ \A y : Follows(y, JobOf(r)) => Follows(y, JobOf(r))'
    BY <1>1, <1>4 DEF Behind
  <2>2. ASSUME NEW w \in Workers, Runs(w)'
        PROVE  Runs(w) /\ worker'[w].job = worker[w].job /\ DoneBy(w)' = DoneBy(w)
    BY <2>2 DEF DoneBy
  <2>. QED
    BY <1>4, <2>1, <2>2 DEF Behind
<1>5. ExecutedSound'
  BY <1>4, ExecutedKept
<1>6. FifoPerChunk'
  <2>1. NumQueues > 1 /\ executed \in [Chunks -> Seq(Requests)]
    BY DEF LineInv, Types
  <2> SUFFICES ASSUME NEW c \in Chunks, NEW m \in DOMAIN executed[c], NEW n \in DOMAIN executed[c],
                      m < n
               PROVE  ~ Precedes(executed[c][n], executed[c][m])'
    BY DEF FifoPerChunk
  <2>2. ~ Precedes(executed[c][n], executed[c][m])
    BY <2>1 DEF LineInv, FifoPerChunk
  <2>3. DOMAIN executed[c] = 1 .. Len(executed[c])
    BY <2>1
  <2>4. JobOf(executed[c][m]) \in Jobs /\ Started(JobOf(executed[c][m])) /\ executed[c][m] \in Requests
    BY <2>3, LineShape
  <2>5. JobOf(executed[c][m])[1] = executed[c][m][1]
    BY <2>1, <2>4, JobOfShape
  <2>6. before'[executed[c][m][1]] = before[executed[c][m][1]]
    BY <2>4, <2>5
  <2>. QED
    BY <2>2, <2>6 DEF Precedes
<1>. QED
  BY <1>2, <1>3, <1>5, <1>6 DEF LineInv

\* The handles may change as long as nothing is made known.
KnownSame ==
  /\ handle' = [h \in Handles |-> handle'[h]]
  /\ \A h \in Handles : "known" \in DOMAIN handle'[h] /\ handle'[h].known = handle[h].known

LEMMA KeepBefore ==
  ASSUME LineInv, UNCHANGED before, KnownSame, \A h \in Handles : Past(h) => Past(h)'
  PROVE  BeforeSound'
<1>1. before \in [Handles -> SUBSET Handles] /\ BeforeSound
  BY DEF LineInv, Types
<1>. QED
  BY <1>1 DEF BeforeSound, KnownSame

LEMMA HandleSame ==
  ASSUME LineInv, UNCHANGED handle
  PROVE  KnownSame
  BY DEF LineInv, BeforeSound, KnownSame

LEMMA HandleUpdate ==
  ASSUME LineInv, NEW h \in Handles, NEW H, "known" \in DOMAIN H, H.known = handle[h].known,
         handle' = [handle EXCEPT ![h] = H]
  PROVE  KnownSame
<1>1. handle = [g \in Handles |-> handle[g]] /\ \A g \in Handles : "known" \in DOMAIN handle[g]
  BY DEF LineInv, BeforeSound
<1>2. handle' = [g \in Handles |-> handle'[g]] /\ \A g \in Handles : handle'[g] = IF g = h THEN H ELSE handle[g]
  BY <1>1
<1>. QED
  BY <1>1, <1>2 DEF KnownSame

LEMMA SetManyUpdate ==
  ASSUME LineInv, NEW h, NEW ok, NEW bad,
         handle' = [handle EXCEPT ![h] = SetMany(h, ok, bad)]
  PROVE  KnownSame
<1>0. CASE h \notin Handles
  <2>1. handle = [g \in Handles |-> handle[g]]
    BY DEF LineInv, BeforeSound
  <2>2. UNCHANGED handle
    BY <1>0, <2>1
  <2>. QED
    BY <2>2, HandleSame
<1>. SUFFICES ASSUME h \in Handles PROVE KnownSame
  BY <1>0
<1> DEFINE H == SetMany(h, ok, bad)
<1>1. "known" \in DOMAIN handle[h]
  BY DEF LineInv, BeforeSound
<1>2. "known" \in DOMAIN H /\ H.known = handle[h].known
  BY <1>1 DEF SetMany
<1>. HIDE DEF H
<1>3. handle' = [handle EXCEPT ![h] = H]
  BY DEF H
<1>. QED
  BY <1>2, <1>3, HandleUpdate

-------------------------------------------------------------------------------
(* Steps of a submitter                                                      *)

\* A batch that begins has no task yet, and nothing of its own before it.
LEMMA BeginLine ==
  ASSUME LineInv, NEW s \in Submitters, Begin(s)
  PROVE  LineInv'
<1> DEFINE B == IF engine.closed THEN {} ELSE Returned
<1>1. /\ pc[s] = "ready" /\ pc'[s] \in {"refused", "acquire"}
      /\ pc' = [pc EXCEPT ![s] = pc'[s]] /\ before' = [before EXCEPT ![cur(s)] = B]
      /\ UNCHANGED <<batch, sent, queue, worker, handle, executed>>
  BY DEF Begin, LineInv, SubmitSound
<1>2. cur(s) \in Handles /\ cur(s)[1] = s /\ cur(s)[2] = batch[s] /\ batch[s] \in Nat
  BY CurShape
<1>3. \A h \in Handles : h = <<h[1], h[2]>> /\ h[1] \in Submitters /\ h[2] \in Nat
  BY HandleShape
<1>4. \A t : cur(t)' = cur(t)
  BY <1>1 DEF cur
<1>5. ~Past(cur(s)) /\ \A h \in Handles : Past(h)' <=> Past(h)
  <2>1. \A t \in Submitters : pc'[t] = "finished" <=> pc[t] = "finished"
    BY <1>1 DEF LineInv, SubmitSound
  <2>. QED
    BY <1>1, <1>2, <1>3, <2>1 DEF Past
<1>6. B \subseteq Returned /\ cur(s) \notin B /\ Returned \subseteq Handles
  BY <1>2, <1>5 DEF Returned, LineInv, BeforeSound
<1>. HIDE DEF B
<1>7. /\ before' \in [Handles -> SUBSET Handles] /\ before'[cur(s)] = B
      /\ \A h \in Handles \ {cur(s)} : before'[h] = before[h]
  BY <1>1, <1>2, <1>6 DEF LineInv, Types
<1>8. Types'
  BY <1>1, <1>7 DEF LineInv, Types
<1>9. SubmitSound'
  <2>1. /\ pc' \in [Submitters -> Places]
        /\ \A t \in Submitters : pc'[t] = "ready" => pc[t] = "ready"
    BY <1>1 DEF LineInv, SubmitSound, Places, AtWork
  <2>. QED
    BY <1>1, <1>4, <2>1 DEF LineInv, SubmitSound
<1>10. BeforeSound'
  <2>1. \A h \in Handles : h \notin before'[h] /\ \A g \in before'[h] : handle[g].known
    BY <1>6, <1>7 DEF LineInv, BeforeSound, Returned
  <2>. QED
    BY <1>1, <1>5, <2>1 DEF LineInv, BeforeSound
<1>11. ASSUME NEW j \in Jobs, Started(j)
       PROVE  Started(j)' /\ before'[j[1]] = before[j[1]]
  <2>1. j[1] \in Handles
    BY JobShape DEF LineInv
  <2>2. sent[s] = {}
    BY <1>1 DEF LineInv, SubmitSound
  <2>3. j[1] # cur(s)
    BY <1>2, <1>5, <1>11, <2>2 DEF Started
  <2>. QED
    BY <1>1, <1>4, <1>5, <1>7, <1>11, <2>1, <2>3 DEF Started
<1>. QED
  BY <1>1, <1>8, <1>9, <1>10, <1>11, QuietLine DEF Runs

\* The submit of a batch returns when all its tasks were started.
LEMMA ReturnLine ==
  ASSUME LineInv, NEW s \in Submitters, Return(s)
  PROVE  LineInv'
<1>1. /\ pc[s] = "acquire" /\ sent[s] = KeysOf(cur(s))
      /\ handle' = [handle EXCEPT ![cur(s)].known = TRUE]
      /\ \/ /\ batch[s] < Len(Program[s])
            /\ batch' = [batch EXCEPT ![s] = @ + 1]
            /\ pc' = [pc EXCEPT ![s] = "ready"]
         \/ /\ batch[s] = Len(Program[s])
            /\ pc' = [pc EXCEPT ![s] = "finished"]
            /\ UNCHANGED batch
      /\ sent' = [sent EXCEPT ![s] = {}]
      /\ UNCHANGED <<queue, worker, executed, before>>
  BY DEF Return
<1>2. /\ cur(s) \in Handles /\ batch[s] \in Nat /\ batch[s] \in 1 .. Len(Program[s])
      /\ Len(Program[s]) \in Nat /\ cur(s)[1] = s /\ cur(s)[2] = batch[s]
  BY CurShape
<1>3. /\ sent'[s] = {}
      /\ \/ batch'[s] = batch[s] + 1 /\ pc'[s] = "ready" /\ batch[s] < Len(Program[s])
         \/ batch'[s] = batch[s] /\ pc'[s] = "finished"
      /\ \A t \in Submitters \ {s} : pc'[t] = pc[t] /\ sent'[t] = sent[t] /\ batch'[t] = batch[t]
  BY <1>1 DEF LineInv, SubmitSound
<1>4. Types'
  BY <1>1 DEF LineInv, Types
<1>5. SubmitSound'
  <2>1. batch \in [Submitters -> Nat] /\ batch[s] + 1 \in Nat
    BY <1>2 DEF LineInv, SubmitSound
  <2>2. batch' = batch \/ batch' = [batch EXCEPT ![s] = batch[s] + 1]
    BY <1>1
  <2>3. batch' \in [Submitters -> Nat]
    BY <2>1, <2>2
  <2>4. /\ sent' \in [Submitters -> SUBSET Nat]
        /\ pc' \in [Submitters -> Places]
    BY <1>1 DEF LineInv, SubmitSound, Places, AtWork
  <2>5. ASSUME NEW t \in Submitters \ {s}
        PROVE  /\ batch'[t] \in 1 .. Len(Program[t]) /\ sent'[t] \subseteq KeysOf(cur(t)')
               /\ pc'[t] = "ready" => sent'[t] = {}
    <3>1. /\ batch[t] \in 1 .. Len(Program[t]) /\ sent[t] \subseteq KeysOf(cur(t))
          /\ pc[t] = "ready" => sent[t] = {}
      BY DEF LineInv, SubmitSound
    <3>2. cur(t)' = cur(t)
      BY <1>3 DEF cur
    <3>. QED
      BY <1>3, <3>1, <3>2
  <2>6. batch'[s] \in 1 .. Len(Program[s])
    BY <1>2, <1>3
  <2>. QED
    BY <1>3, <2>3, <2>4, <2>5, <2>6 DEF SubmitSound
<1>6. ASSUME NEW h \in Handles
      PROVE  (Past(h) => Past(h)') /\ (h = cur(s) => Past(h)')
  <2>1. h = <<h[1], h[2]>> /\ h[1] \in Submitters /\ h[2] \in Nat
    BY HandleShape
  <2>2. CASE h[1] = s
    BY <1>1, <1>2, <1>3, <2>1, <2>2 DEF Past
  <2>3. CASE h[1] # s
    BY <1>2, <1>3, <2>1, <2>3 DEF Past
  <2>. QED
    BY <2>2, <2>3
<1>7. BeforeSound'
  <2> DEFINE H == [handle[cur(s)] EXCEPT !.known = TRUE]
  <2>1. handle = [h \in Handles |-> handle[h]] /\ \A h \in Handles : "known" \in DOMAIN handle[h]
    BY DEF LineInv, BeforeSound
  <2>2. "known" \in DOMAIN H /\ H.known = TRUE
    BY <1>2, <2>1
  <2>3. handle' = [handle EXCEPT ![cur(s)] = H]
    BY <1>1
  <2>. HIDE DEF H
  <2>4. /\ handle' = [h \in Handles |-> handle'[h]]
        /\ \A h \in Handles : handle'[h] = IF h = cur(s) THEN H ELSE handle[h]
    BY <2>1, <2>3
  <2>5. before \in [Handles -> SUBSET Handles]
    BY DEF LineInv, Types
  <2>. QED
    BY <1>1, <1>6, <2>2, <2>4, <2>5 DEF LineInv, BeforeSound
<1>8. ASSUME NEW j \in Jobs, Started(j) PROVE Started(j)'
  <2>1. j[1] \in Handles /\ j[1][1] \in Submitters
    BY JobShape, HandleShape DEF LineInv
  <2>2. CASE Past(j[1]) \/ j[1] = cur(s)
    BY <1>6, <2>1, <2>2 DEF Started
  <2>3. CASE ~Past(j[1]) /\ j[1] # cur(s)
    <3>1. j[1] = cur(j[1][1]) /\ j[1][1] # s /\ j[2] \in sent[j[1][1]]
      BY <1>8, <2>3 DEF Started
    <3>. QED
      BY <1>3, <2>1, <3>1 DEF Started, cur
  <2>. QED
    BY <2>2, <2>3
<1>. QED
  BY <1>1, <1>4, <1>5, <1>7, <1>8, QuietLine DEF Runs

\* A submitter at work on its batch.
LEMMA SubmitterGoesOn ==
  ASSUME LineInv, NEW s \in Submitters, NEW p \in AtWork,
         pc[s] \in AtWork, pc' = [pc EXCEPT ![s] = p],
         NEW K, sent[s] \subseteq K, K \subseteq KeysOf(cur(s)), K \subseteq Nat,
         sent' = [sent EXCEPT ![s] = K], UNCHANGED <<batch, before>>, KnownSame
  PROVE  /\ SubmitSound' /\ BeforeSound' /\ sent'[s] = K /\ cur(s)' = cur(s)
         /\ \A j \in Jobs : Started(j) => Started(j)'
<1>1. \A t : cur(t)' = cur(t)
  BY DEF cur
<1>2. /\ pc' \in [Submitters -> Places]
      /\ sent' \in [Submitters -> SUBSET Nat] /\ sent'[s] = K /\ pc'[s] = p
      /\ \A t \in Submitters \ {s} : pc'[t] = pc[t] /\ sent'[t] = sent[t]
  BY DEF LineInv, SubmitSound, Places, AtWork
<1>3. SubmitSound'
  BY <1>1, <1>2 DEF LineInv, SubmitSound, Places, AtWork
<1>4. \A h \in Handles : Past(h) => Past(h)'
  BY <1>2, HandleShape DEF Past, Places, AtWork
<1>5. \A t \in Submitters : sent[t] \subseteq sent'[t]
  BY <1>2
<1>6. \A j \in Jobs : Started(j) => Started(j)'
  <2>1. \A j \in Jobs : j[1] \in Handles /\ j[1][1] \in Submitters
    BY JobShape, HandleShape DEF LineInv
  <2>. QED
    BY <1>1, <1>4, <1>5, <2>1 DEF Started
<1>7. BeforeSound'
  BY <1>4, KeepBefore
<1>. QED
  BY <1>1, <1>2, <1>3, <1>6, <1>7

LEMMA SubmitterQuiet ==
  ASSUME LineInv, NEW s \in Submitters, NEW p \in AtWork,
         pc[s] \in AtWork, pc' = [pc EXCEPT ![s] = p],
         UNCHANGED <<batch, sent, queue, worker, executed, before>>, KnownSame
  PROVE  LineInv'
<1>1. /\ sent[s] \subseteq KeysOf(cur(s)) /\ sent[s] \subseteq Nat
      /\ sent' = [sent EXCEPT ![s] = sent[s]]
  BY DEF LineInv, SubmitSound
<1>2. UNCHANGED <<batch, before>> /\ sent[s] \subseteq sent[s]
  OBVIOUS
<1>3. SubmitSound' /\ BeforeSound' /\ \A j \in Jobs : Started(j) => Started(j)'
  BY <1>1, <1>2, SubmitterGoesOn
<1>4. Types'
  BY DEF LineInv, Types
<1>. QED
  BY <1>3, <1>4, QuietLine DEF Runs

LEMMA AcquireLine ==
  ASSUME LineInv, NEW s \in Submitters,
         \/ Acquire(s) \/ CountIn(s)
         \/ FailRelease(s) \/ FailUncount(s) \/ FailOne(s) \/ FailedGroup(s)
  PROVE  LineInv'
<1>1. CASE Acquire(s)
  BY <1>1, HandleSame, SubmitterQuiet DEF Acquire, AtWork
<1>2. CASE CountIn(s)
  BY <1>2, HandleSame, SubmitterQuiet DEF CountIn, AtWork
<1>3. CASE FailRelease(s)
  BY <1>3, HandleSame, SubmitterQuiet DEF FailRelease, AtWork
<1>4. CASE FailUncount(s)
  BY <1>4, HandleSame, SubmitterQuiet DEF FailUncount, AtWork
<1>5. CASE FailOne(s)
  <2>1. /\ pc[s] = "tell" /\ pc' = [pc EXCEPT ![s] = "fail"]
        /\ UNCHANGED <<batch, sent, queue, worker, executed, before>>
        /\ \E i : handle' = [handle EXCEPT ![cur(s)] = SetMany(cur(s), {}, {i})]
    BY <1>5 DEF FailOne
  <2>2. KnownSame
    BY <2>1, CurShape, SetManyUpdate
  <2>. QED
    BY <2>1, <2>2, SubmitterQuiet DEF AtWork
<1>6. CASE FailedGroup(s)
  BY <1>6, HandleSame, SubmitterQuiet DEF FailedGroup, AtWork
<1>. QED
  BY <1>1, <1>2, <1>3, <1>4, <1>5, <1>6

NextKey(s) == Key(cur(s), Least({ i \in Items(cur(s)) : Key(cur(s), i) \notin sent[s] }))

\* The task submitted next was not started, and may stand behind all that were.
LEMMA NextKeyFresh ==
  ASSUME LineInv, NEW s \in Submitters, pc[s] = "acquire", sent[s] # KeysOf(cur(s))
  PROVE  /\ NextKey(s) \in KeysOf(cur(s)) /\ NextKey(s) \in Nat
         /\ <<cur(s), NextKey(s)>> \in Jobs /\ NextKey(s) \in Queues
         /\ \A x \in Jobs : Started(x) => Follows(<<cur(s), NextKey(s)>>, x)
<1> DEFINE T == { i \in Items(cur(s)) : Key(cur(s), i) \notin sent[s] }
           k == NextKey(s)
<1>1. NumQueues > 1 /\ cur(s) \in Handles /\ sent[s] \subseteq KeysOf(cur(s)) /\ cur(s)[1] = s
  BY CurShape DEF LineInv, SubmitSound
<1>2. T # {} /\ T \subseteq Nat
  BY <1>1, KeyShape DEF KeysOf
<1>3. Least(T) \in T
  BY <1>2, LeastNat
<1>4. k = Key(cur(s), Least(T))
  BY DEF NextKey
<1>5. k \in KeysOf(cur(s)) /\ k \notin sent[s] /\ k \in Nat /\ k \in Queues
  BY <1>1, <1>3, <1>4, KeyShape
<1>6. <<cur(s), k>> \in Jobs
  BY <1>1, <1>5, JobShape
<1>. HIDE DEF T, k
<1>7. ~Past(cur(s))
  BY CurShape DEF Past
<1>8. ASSUME NEW x \in Jobs, Started(x) PROVE Follows(<<cur(s), k>>, x)
  <2>1. x[1] \in Handles
    BY <1>1, JobShape
  <2>2. cur(s) \notin before[x[1]]
    BY <1>1, <1>7, <2>1 DEF LineInv, BeforeSound
  <2>3. x # <<cur(s), k>>
    BY <1>1, <1>5, <1>7, <1>8 DEF Started
  <2>. QED
    BY <2>2, <2>3 DEF Follows
<1>. QED
  BY <1>5, <1>6, <1>8 DEF k

LEMMA ScheduleLine ==
  ASSUME LineInv, NEW s \in Submitters, Schedule(s)
  PROVE  LineInv'
<1> DEFINE k == NextKey(s)
           y == <<cur(s), k>>
           K == sent[s] \cup {k}
<1>1. /\ pc[s] = "acquire" /\ sent[s] # KeysOf(cur(s))
      /\ sent' = [sent EXCEPT ![s] = K]
      /\ UNCHANGED <<batch, worker, handle, executed, before>>
      /\ \/ queue' = [queue EXCEPT ![k] = Append(@, y)] /\ UNCHANGED pc
         \/ pc' = [pc EXCEPT ![s] = "fail"] /\ UNCHANGED queue
  <2>1. QueueOf(k) = k
    BY DEF LineInv, QueueOf
  <2>. QED
    BY <2>1 DEF Schedule, NextKey
<1>2. /\ k \in KeysOf(cur(s)) /\ k \in Nat /\ y \in Jobs /\ k \in Queues
      /\ \A x \in Jobs : Started(x) => Follows(y, x)
  BY <1>1, NextKeyFresh
<1>3. y[1] = cur(s) /\ y[2] = k /\ cur(s)[1] = s
  BY CurShape
<1>. HIDE DEF k, y
<1>4. sent[s] \subseteq K /\ K \subseteq KeysOf(cur(s)) /\ K \subseteq Nat /\ k \in K
  BY <1>2 DEF LineInv, SubmitSound
<1>. HIDE DEF K
<1>5. PICK p \in AtWork : pc' = [pc EXCEPT ![s] = p]
  BY <1>1 DEF LineInv, SubmitSound, AtWork
<1>6. /\ KnownSame /\ UNCHANGED <<batch, before>>
      /\ pc[s] \in AtWork /\ sent' = [sent EXCEPT ![s] = K]
  BY <1>1, HandleSame DEF AtWork
<1>7. /\ SubmitSound' /\ BeforeSound' /\ sent'[s] = K /\ cur(s)' = cur(s)
      /\ \A j \in Jobs : Started(j) => Started(j)'
  BY <1>4, <1>5, <1>6, SubmitterGoesOn
<1>8. PICK u \in Jobs, q \in Queues : u = y /\ q = k /\ Started(u)'
  <2>1. PICK u \in Jobs : u = y
    BY <1>2
  <2>2. Started(u)'
    BY <1>3, <1>4, <1>7, <2>1 DEF Started
  <2>. QED
    BY <1>2, <2>1, <2>2
<1>9. CASE queue' = [queue EXCEPT ![k] = Append(@, y)]
  BY <1>1, <1>2, <1>3, <1>7, <1>8, <1>9, JoinLine
<1>10. CASE UNCHANGED queue
  <2>1. Types'
    BY <1>1, <1>10 DEF LineInv, Types
  <2>. QED
    BY <1>1, <1>7, <1>10, <2>1, QuietLine DEF Runs
<1>. QED
  BY ZenonT(20), <1>1, <1>9, <1>10

-------------------------------------------------------------------------------
(* The other steps of a worker, wait_any and close                           *)

\* A step that leaves the submitters and the queues alone.
LEMMA WorkerQuiet ==
  ASSUME LineInv, NEW w \in Workers, NEW V \in WorkerState, V.pc # "run",
         worker' = [worker EXCEPT ![w] = V],
         UNCHANGED <<pc, batch, sent, before, queue, executed>>, KnownSame
  PROVE  LineInv'
<1>1. /\ worker' \in [Workers -> WorkerState]
      /\ \A v \in Workers : worker'[v] = IF v = w THEN V ELSE worker[v]
  BY DEF LineInv, Types
<1>2. Types'
  BY <1>1 DEF LineInv, Types
<1>3. (\A h : Past(h)' <=> Past(h)) /\ (\A j : Started(j)' <=> Started(j))
  BY DEF Past, Started, cur
<1>4. BeforeSound'
  BY <1>3, KeepBefore
<1>5. SubmitSound'
  BY DEF LineInv, SubmitSound, cur
<1>6. \A v \in Workers : Runs(v)' => Runs(v) /\ worker'[v] = worker[v]
  BY <1>1 DEF Runs
<1>. QED
  BY <1>2, <1>3, <1>4, <1>5, <1>6, QuietLine

LEMMA CountOutLine ==
  ASSUME LineInv, NEW w \in Workers, CountOut(w) \/ Release(w) \/ SetResults(w) \/ Fire(w)
  PROVE  LineInv'
<1>1. worker[w] \in WorkerState
  BY DEF LineInv, Types
<1>2. Idle \in WorkerState /\ Idle.pc = "idle"
  BY DEF Idle, WorkerState
<1>3. CASE CountOut(w)
  <2> DEFINE V == [worker[w] EXCEPT !.pc = "release"]
  <2>1. worker' = [worker EXCEPT ![w] = V] /\ UNCHANGED <<subs, handle, queue, executed>>
    BY <1>3 DEF CountOut
  <2>2. V \in WorkerState /\ V.pc = "release"
    BY <1>1 DEF WorkerState
  <2>. HIDE DEF V
  <2>. QED
    BY <2>1, <2>2, HandleSame, WorkerQuiet DEF subs
<1>4. CASE Release(w)
  <2> DEFINE V == [worker[w] EXCEPT !.owed = @ \ {Least(@)}]
  <2>1. /\ worker' = [worker EXCEPT ![w] = V] /\ UNCHANGED <<subs, handle, queue, executed>>
        /\ worker[w].pc = "release"
    BY <1>4 DEF Release
  <2>2. V \in WorkerState /\ V.pc = "release"
    BY <1>1, <2>1 DEF WorkerState
  <2>. HIDE DEF V
  <2>. QED
    BY <2>1, <2>2, HandleSame, WorkerQuiet DEF subs
<1>5. CASE Fire(w)
  BY <1>2, <1>5, HandleSame, WorkerQuiet DEF Fire, subs
<1>6. CASE SetResults(w)
  <2>1. /\ handle' = [handle EXCEPT ![worker[w].job[1]] =
                      SetMany(worker[w].job[1], worker[w].ok, worker[w].bad)]
        /\ \E V \in {Idle, [Idle EXCEPT !.pc = "fire"]} : worker' = [worker EXCEPT ![w] = V]
        /\ UNCHANGED <<subs, queue, executed>>
    BY <1>6 DEF SetResults
  <2>2. KnownSame
    BY <2>1, SetManyUpdate
  <2>3. PICK V \in {Idle, [Idle EXCEPT !.pc = "fire"]} : worker' = [worker EXCEPT ![w] = V]
    BY <2>1
  <2>4. V \in WorkerState /\ V.pc # "run"
    BY DEF Idle, WorkerState
  <2>. QED
    BY <2>1, <2>2, <2>3, <2>4, WorkerQuiet DEF subs
<1>. QED
  BY <1>3, <1>4, <1>5, <1>6

\* wait_any and close() touch the callbacks and nothing of the line.
LEMMA ElsewhereLine ==
  ASSUME LineInv, WaitAny \/ Close \/ CloseStep \/ UNCHANGED vars
  PROVE  LineInv'
<1>1. ASSUME UNCHANGED <<subs, queue, worker, executed>>, KnownSame PROVE LineInv'
  <2>1. UNCHANGED <<pc, batch, sent, before, queue, worker, executed>>
    BY <1>1 DEF subs
  <2>2. Types' /\ SubmitSound'
    BY <2>1 DEF LineInv, Types, SubmitSound, cur
  <2>3. /\ \A h : Past(h)' <=> Past(h)
        /\ \A j : Started(j)' <=> Started(j)
        /\ \A w : Runs(w)' <=> Runs(w)
    BY <2>1 DEF cur, Past, Started, Runs
  <2>4. BeforeSound'
    BY <1>1, <2>1, <2>3, KeepBefore
  <2>. QED
    BY <2>1, <2>2, <2>3, <2>4, QuietLine
<1>2. CASE UNCHANGED <<subs, queue, worker, executed, handle>>
  BY <1>1, <1>2, HandleSame
<1>3. ASSUME NEW h \in WaitOn, AddCallback(h) PROVE LineInv'
  <2>1. CASE UNCHANGED handle
    BY <1>2, <1>3, <2>1 DEF AddCallback
  <2>2. CASE handle' = [handle EXCEPT ![h].callbacks = @ + 1]
    <3> DEFINE H == [handle[h] EXCEPT !.callbacks = @ + 1]
    <3>1. h \in Handles
      BY <1>3 DEF AddCallback, Returned
    <3>2. "known" \in DOMAIN handle[h]
      BY <3>1 DEF LineInv, BeforeSound
    <3>3. "known" \in DOMAIN H /\ H.known = handle[h].known
      BY <3>2
    <3>4. handle' = [handle EXCEPT ![h] = H]
      BY <2>2
    <3>. HIDE DEF H
    <3>5. KnownSame
      BY <3>1, <3>3, <3>4, HandleUpdate
    <3>. QED
      BY <1>1, <1>3, <3>5 DEF AddCallback
  <2>. QED
    BY <1>3, <2>1, <2>2 DEF AddCallback
<1>4. CASE \/ \E h \in WaitOn : Check(h)
           \/ Registered \/ AwaitEvent \/ ClearEvent
  BY <1>2, <1>4 DEF Check, Registered, AwaitEvent, ClearEvent
<1>5. CASE Close \/ CloseStep
  BY <1>2, <1>5 DEF Close, CloseStep, Join, Shutdown
<1>6. CASE UNCHANGED vars
  BY <1>2, <1>6 DEF vars, subs
<1>. QED
  BY <1>3, <1>4, <1>5, <1>6 DEF WaitAny

LEMMA NextLine ==
  ASSUME LineInv, [Next]_vars
  PROVE  LineInv'
<1>1. ASSUME NEW s \in Submitters, Submit(s) PROVE LineInv'
  BY <1>1, BeginLine, AcquireLine, ScheduleLine, ReturnLine DEF Submit
<1>2. ASSUME NEW w \in Workers, Work(w) PROVE LineInv'
  BY <1>2, TakeLine, ExecuteLine, CountOutLine DEF Work
<1>3. CASE WaitAny \/ Close \/ CloseStep \/ UNCHANGED vars
  BY <1>3, ElsewhereLine
<1>. QED
  BY <1>1, <1>2, <1>3 DEF Next

\* With several queues the requests on one chunk are executed in the order of
\* submission, whichever threads submit them and whatever close() refuses: in a
\* batch by position, and batch after batch when one submit returned before the
\* other began.  The workers and _submit of concurrent_io.py keep this with no
\* lock that spans a chunk.
THEOREM EngineFifoPerChunk == Spec => []FifoPerChunk
<1>1. CASE NumQueues > 1
  <2>1. Init => LineInv
    BY <1>1, InitLine
  <2>2. LineInv /\ [Next]_vars => LineInv'
    BY NextLine
  <2>3. LineInv => FifoPerChunk
    BY DEF LineInv
  <2>. QED
    BY <2>1, <2>2, <2>3, PTL DEF Spec
<1>2. CASE ~ (NumQueues > 1)
  <2>1. FifoPerChunk
    BY <1>2 DEF FifoPerChunk
  <2>. QED
    BY <2>1, PTL
<1>. QED
  BY <1>1, <1>2

===============================================================================
