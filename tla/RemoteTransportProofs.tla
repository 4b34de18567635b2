------------------------ MODULE RemoteTransportProofs ------------------------
(***************************************************************************)
(* Theorems about remote I/O on the chunks of client processes, on top of  *)
(* what ChunkLifecycleProofs shows of the chunks: for every set of clients *)
(* and pages, any number of lost calls and crashes, and pages of any       *)
(* number of pieces.                                                       *)
(***************************************************************************)
EXTENDS RemoteTransport, ChunkLifecycleProofs

Running == {"connect", "piece"}

IOState == [pc : {"rest", "connect", "piece", "ok", "refused", "gave_up"},
            page : Pages \cup {NoPage}, write : BOOLEAN,
            val : Values \cup {Unknown}, attempt : {0, 1}, done : Nat,
            got : [Pieces -> Values \cup {Unknown}], hit : Causes]

TransportTypes ==
  /\ io \in [Clients -> IOState]
  /\ sock \in [Clients -> {"none", "open", "stale"}]
  /\ data \in [SsdPages -> [Pieces -> Values]]
  /\ stored \in [SsdPages -> [Pieces -> Values \cup {Unknown, Overrun}]]
  /\ \A q \in late : q.op = "write" =>
       q.page \in SsdPages /\ q.piece \in Pieces /\ q.val \in Values

StoredIntact ==
  \A p \in SsdPages, u \in Pieces : stored[p][u] \in Values => data[p][u] = stored[p][u]

\* An I/O is on a page its client holds, so on nobody else's.
OnHeldPage(c) ==
  io[c].pc # "rest" =>
    /\ cl[c].pc = "idle" /\ io[c].page \in SsdPages
    /\ \E d \in held[c] : d.page = io[c].page
    /\ io[c].write => io[c].val \in Values
    /\ io[c].pc = "piece" => io[c].done < NumPieces

\* The pieces of the current attempt are on the page, unless overrun.
WriteProgress(c) ==
  io[c].write /\ io[c].pc \in Running =>
    \A u \in Pieces :
      /\ stored[io[c].page][u] \notin Values
      /\ io[c].pc = "piece" /\ u <= io[c].done /\ stored[io[c].page][u] # Overrun =>
           data[io[c].page][u] = io[c].val

ReadProgress(c) ==
  ~io[c].write /\ io[c].pc \in {"piece", "ok"} =>
    \A u \in Pieces :
      (io[c].pc = "piece" => u <= io[c].done) /\ stored[io[c].page][u] \in Values =>
        io[c].got[u] = stored[io[c].page][u]

\* Only a fault spoils the second attempt: it does not start on a connection
\* the server has closed.
RetryFresh(c) ==
  /\ io[c].pc \in Running /\ io[c].attempt = 1 /\ io[c].hit = "none" => sock[c] # "stale"
  /\ io[c].pc \in {"refused", "gave_up"} => io[c].hit # "none"

Session(c) == OnHeldPage(c) /\ WriteProgress(c) /\ ReadProgress(c) /\ RetryFresh(c)

TInv == TransportTypes /\ StoredIntact /\ \A c \in Clients : Session(c)

RInv == LInv /\ TInv

-----------------------------------------------------------------------------
\* The remote I/O.  Its steps leave the life of the chunks alone.

LEMMA IOStepLInv ==
  ASSUME LInv, UNCHANGED <<mem, reg, nextId, cl, held>>, faults' \in Nat,
         faults' = 0 => faults = 0 /\ late' \subseteq late,
         \A q \in late' : q \in late \/ q.op = "write"
  PROVE  LInv'
<1>1. LifecycleTypes'
  BY DEF LInv, LifecycleTypes, Busy
<1>2. HeldClaims' /\ BusyClaims' /\ FreeClaims' /\ IdsSound'
  BY DEF LInv, HeldClaims, BusyClaims, FreeClaims, IdsSound, Busy
<1>3. Accounted'
  BY DEF LInv, Accounted, Busy
<1>. QED
  BY <1>1, <1>2, <1>3 DEF LInv

\* What an assignment to one piece of one page does.
LEMMA PieceUpdate ==
  ASSUME NEW A, NEW B, NEW C, NEW f \in [A -> [B -> C]],
         NEW a \in A, NEW b \in B, NEW v \in C
  PROVE  /\ [f EXCEPT ![a][b] = v] \in [A -> [B -> C]]
         /\ \A p \in A, u \in B :
              [f EXCEPT ![a][b] = v][p][u] = IF p = a /\ u = b THEN v ELSE f[p][u]
  OBVIOUS

\* What `stored` records of a page once a piece of it has been acknowledged.
LEMMA AcknowledgedFacts ==
  ASSUME NEW j, j.val \in Values,
         NEW s \in [Pieces -> Values \cup {Unknown, Overrun}]
  PROVE  /\ Acknowledged(j, s) \in [Pieces -> Values \cup {Unknown, Overrun}]
         /\ j.done + 1 < NumPieces => Acknowledged(j, s) = s
         /\ ~(j.done + 1 < NumPieces) =>
              \A w \in Pieces :
                Acknowledged(j, s)[w] = IF s[w] = Overrun THEN Overrun ELSE j.val
  BY DEF Acknowledged

LEMMA RestSession ==
  ASSUME NEW x \in Clients, io'[x].pc = "rest"
  PROVE  Session(x)'
<1>1. OnHeldPage(x)' /\ RetryFresh(x)'
  BY DEF OnHeldPage, RetryFresh, Running
<1>2. WriteProgress(x)' /\ ReadProgress(x)'
  BY DEF WriteProgress, ReadProgress, Running
<1>. QED
  BY <1>1, <1>2 DEF Session

LEMMA SameRequest ==
  ASSUME NEW x \in Clients, Session(x), io'[x] = io[x], sock'[x] = sock[x],
         cl'[x] = cl[x], held'[x] = held[x]
  PROVE  OnHeldPage(x)' /\ RetryFresh(x)'
<1>1. OnHeldPage(x)'
  BY DEF Session, OnHeldPage
<1>2. RetryFresh(x)'
  BY DEF Session, RetryFresh
<1>. QED
  BY <1>1, <1>2

\* An I/O of which nothing changes, nor its page.
LEMMA OtherSession ==
  ASSUME NEW x \in Clients, Session(x), io'[x] = io[x], sock'[x] = sock[x],
         cl'[x] = cl[x], held'[x] = held[x],
         io[x].pc # "rest" => /\ data'[io[x].page] = data[io[x].page]
                              /\ stored'[io[x].page] = stored[io[x].page]
  PROVE  Session(x)'
<1>1. CASE io[x].pc = "rest"
  BY <1>1, RestSession
<1>2. CASE io[x].pc # "rest"
  <2>1. OnHeldPage(x)' /\ RetryFresh(x)'
    BY SameRequest
  <2>2. WriteProgress(x)' /\ ReadProgress(x)'
    BY <1>2 DEF Session, WriteProgress, ReadProgress
  <2>. QED
    BY ZenonT(20), <2>1, <2>2 DEF Session
<1>. QED
  BY <1>1, <1>2

LEMMA OtherPage ==
  ASSUME LInv, NEW c \in Clients, NEW d \in held[c], NEW x \in Clients, x # c,
         Session(x), io[x].pc # "rest"
  PROVE  io[x].page # d.page
  BY SMTT(20) DEF LInv, HeldClaims, Session, OnHeldPage

\* A step of a client in the life of a chunk touches no other client, and adds
\* no data request.
LEMMA ClientStepLocal ==
  ASSUME LInv, NEW c \in Clients, ClientStep(c)
  PROVE  /\ \A x \in Clients : x # c => cl'[x] = cl[x] /\ held'[x] = held[x]
         /\ \A q \in late' : q \in late \/ q.op # "write"
<1>. DEFINE Local == /\ \A x \in Clients : x # c => cl'[x] = cl[x] /\ held'[x] = held[x]
                    /\ \A q \in late' : q \in late \/ q.op # "write"
<1>. SUFFICES Local
  OBVIOUS
<1>. USE DEF LInv, LifecycleTypes
<1>1. ASSUME NEW kind \in Kinds, NEW page \in Pages, AllocMemory(c, kind, page) PROVE Local
  BY SMTT(20), <1>1 DEF AllocMemory
<1>2. ASSUME NEW kind \in Kinds, AllocRefused(c, kind) PROVE Local
  BY ZenonT(20), <1>2 DEF AllocRefused, vars
<1>3. ASSUME NEW kind \in Kinds, AllocBroken(c, kind) PROVE Local
  BY SMTT(20), <1>3 DEF AllocBroken, Broken
<1>4. CASE Register(c)
  BY <1>4 DEF Register
<1>5. CASE RegisterFails(c)
  BY <1>5 DEF RegisterFails
<1>6. CASE RegisterBroken(c)
  BY <1>6 DEF RegisterBroken, Broken
<1>7. CASE Rollback(c) \/ Free(c)
  BY <1>7 DEF Rollback, Free
<1>8. CASE FreeBroken(c)
  BY <1>8 DEF FreeBroken, Broken
<1>9. ASSUME NEW d \in held[c], Unregister(c, d) PROVE Local
  BY <1>9 DEF Unregister
<1>10. ASSUME NEW d \in held[c], UnregisterBroken(c, d) PROVE Local
  BY <1>10 DEF UnregisterBroken, Broken
<1>. HIDE DEF Local, LInv, LifecycleTypes
<1>. QED
  BY ZenonT(20), <1>1, <1>2, <1>3, <1>4, <1>5, <1>6, <1>7, <1>8, <1>9, <1>10 DEF ClientStep

\* A client that is at rest or busy with a chunk, and requests that arrive late.
LEMMA LifecycleTInv ==
  ASSUME LInv, TInv, UNCHANGED rvars,
         \/ \E q \in late : LateRequest(q)
         \/ \E c \in Clients : io[c].pc = "rest" /\ ClientStep(c)
  PROVE  TInv'
<1>1. \A q \in late' : q \in late \/ q.op # "write"
  <2>1. CASE \E q \in late : LateRequest(q)
    BY <2>1 DEF LateRequest
  <2>. QED
    BY <2>1, ClientStepLocal
<1>2. \A x \in Clients : io[x].pc # "rest" => cl'[x] = cl[x] /\ held'[x] = held[x]
  <2>1. CASE \E q \in late : LateRequest(q)
    BY <2>1 DEF LateRequest
  <2>. QED
    BY <2>1, ClientStepLocal
<1>3. TransportTypes' /\ StoredIntact'
  BY <1>1 DEF TInv, TransportTypes, StoredIntact, rvars
<1>4. ASSUME NEW x \in Clients PROVE Session(x)'
  <2>1. CASE io[x].pc = "rest"
    BY <1>1, <2>1, RestSession DEF rvars
  <2>2. CASE io[x].pc # "rest"
    BY <1>2, <2>2, OtherSession DEF TInv, rvars
  <2>. QED
    BY <2>1, <2>2
<1>. QED
  BY <1>3, <1>4 DEF TInv

LEMMA InitTInv == RemoteInit => TInv
<1> SUFFICES ASSUME RemoteInit PROVE TInv
  OBVIOUS
<1>1. /\ NoIO \in IOState /\ NoIO.pc = "rest"
      /\ \A c \in Clients : io[c] = NoIO
  BY DEF RemoteInit, NoIO, IOState, Causes
<1>2. TransportTypes /\ StoredIntact
  BY <1>1, TransportConstants DEF RemoteInit, Init, TransportTypes, StoredIntact
<1>3. \A c \in Clients : Session(c)
  BY <1>1 DEF Session, OnHeldPage, WriteProgress, ReadProgress, RetryFresh, Running
<1>. QED
  BY <1>2, <1>3 DEF TInv

-----------------------------------------------------------------------------
LEMMA StartTInv ==
  ASSUME LInv, TInv, NEW c \in Clients, NEW d \in held[c], NEW write \in BOOLEAN,
         NEW val, IF write THEN val \in Values ELSE val = Unknown,
         StartIO(c, d, write, val)
  PROVE  TInv'
<1> DEFINE i == [NoIO EXCEPT !.pc = "connect", !.page = d.page,
                             !.write = write, !.val = val]
<1>1. d.page \in SsdPages /\ d.page \in Pages /\ cl[c].pc = "idle"
  BY DEF StartIO, SsdPages
<1>2. /\ i \in IOState /\ i.pc = "connect" /\ i.page = d.page
      /\ i.write = write /\ i.val = val /\ i.attempt = 0
  BY ZenonT(20), <1>1 DEF NoIO, IOState, Causes
<1>3. /\ io' = [io EXCEPT ![c] = i]
      /\ stored' = IF write THEN [stored EXCEPT ![d.page] = [u \in Pieces |-> Unknown]]
                   ELSE stored
      /\ UNCHANGED <<mem, reg, nextId, cl, held, late, faults, sock, data>>
  BY DEF StartIO, vars
<1>. HIDE DEF i
<1>4. \A x \in Clients : io'[x] = IF x = c THEN i ELSE io[x]
  BY <1>3 DEF TInv, TransportTypes
<1>5. \A p \in SsdPages : stored'[p] = IF write /\ p = d.page THEN [u \in Pieces |-> Unknown]
                                       ELSE stored[p]
  BY <1>3 DEF TInv, TransportTypes
<1>6. TransportTypes'
  BY ZenonT(20), <1>2, <1>3 DEF TInv, TransportTypes
<1>7. StoredIntact'
  BY <1>3, <1>5, TransportConstants DEF TInv, StoredIntact
<1>8. Session(c)'
  <2>1. io'[c] = i /\ cl'[c].pc = "idle" /\ d \in held'[c]
    BY <1>1, <1>3, <1>4
  <2>2. write => \A u \in Pieces : stored'[d.page][u] \notin Values
    BY <1>1, <1>5, TransportConstants
  <2>3. OnHeldPage(c)' /\ RetryFresh(c)'
    BY <1>1, <1>2, <2>1 DEF OnHeldPage, RetryFresh
  <2>4. WriteProgress(c)' /\ ReadProgress(c)'
    BY SMTT(20), <1>1, <1>2, <2>1, <2>2 DEF WriteProgress, ReadProgress
  <2>. QED
    BY <2>3, <2>4 DEF Session
<1>9. ASSUME NEW x \in Clients, x # c PROVE Session(x)'
  <2>1. io[x].pc # "rest" => io[x].page # d.page /\ io[x].page \in SsdPages
    BY <1>9, OtherPage DEF TInv, Session, OnHeldPage
  <2>2. io[x].pc # "rest" => stored'[io[x].page] = stored[io[x].page]
    BY <1>5, <2>1
  <2>. QED
    BY SMTT(20), <1>3, <1>4, <1>9, <2>2, OtherSession DEF TInv
<1>. QED
  BY <1>6, <1>7, <1>8, <1>9 DEF TInv

\* A step of an I/O that writes nothing: the page and what is known of it stay,
\* the I/O goes on as i over connection k.
LEMMA QuietIOTInv ==
  ASSUME LInv, TInv, NEW c \in Clients, NEW i \in IOState,
         NEW k \in {"none", "open", "stale"},
         io' = [io EXCEPT ![c] = i], sock' = [sock EXCEPT ![c] = k],
         UNCHANGED <<cl, held, data, stored>>,
         \A q \in late' : \/ q \in late \/ q.op # "write"
                          \/ q.page \in SsdPages /\ q.piece \in Pieces /\ q.val \in Values,
         Session(c)'
  PROVE  TInv'
<1>1. \A x \in Clients : /\ io'[x] = IF x = c THEN i ELSE io[x]
                         /\ sock'[x] = IF x = c THEN k ELSE sock[x]
  BY DEF TInv, TransportTypes
<1>2. TransportTypes' /\ StoredIntact'
  BY DEF TInv, TransportTypes, StoredIntact
<1>3. ASSUME NEW x \in Clients, x # c PROVE Session(x)'
  BY <1>1, <1>3, OtherSession DEF TInv
<1>. QED
  BY <1>2, <1>3 DEF TInv

LEMMA ConnectTInv ==
  ASSUME LInv, TInv, NEW c \in Clients, Connect(c)
  PROVE  TInv'
<1> DEFINE i == [io[c] EXCEPT !.pc = "piece", !.done = 0]
           k == IF sock[c] = "none" THEN "open" ELSE sock[c]
<1>1. /\ io[c] \in IOState /\ io[c].pc = "connect" /\ sock[c] \in {"none", "open", "stale"}
      /\ Session(c)
  BY DEF Connect, TInv, TransportTypes
<1>2. /\ i \in IOState /\ i.pc = "piece" /\ i.done = 0 /\ i.page = io[c].page
      /\ i.write = io[c].write /\ i.val = io[c].val /\ i.attempt = io[c].attempt
      /\ i.hit = io[c].hit /\ i.got = io[c].got
  BY ZenonT(20), <1>1 DEF IOState
<1>3. /\ io' = [io EXCEPT ![c] = i] /\ sock' = [sock EXCEPT ![c] = k]
      /\ UNCHANGED <<mem, reg, nextId, cl, held, late, faults, data, stored>>
  BY ZenonT(20) DEF Connect, vars
<1>4. io'[c] = i /\ sock'[c] = k
  BY <1>3 DEF TInv, TransportTypes
<1>. HIDE DEF i
<1>5. OnHeldPage(c)' /\ RetryFresh(c)'
  <2>1. OnHeldPage(c)'
    BY <1>1, <1>2, <1>3, <1>4, TransportConstants DEF Session, OnHeldPage
  <2>2. RetryFresh(c)'
    BY <1>1, <1>2, <1>4 DEF Session, RetryFresh, Running
  <2>. QED
    BY <2>1, <2>2
<1>6. WriteProgress(c)' /\ ReadProgress(c)'
  <2>1. \A u \in Pieces : ~(u <= 0)
    BY DEF Pieces
  <2>. QED
    BY ZenonT(20), <1>1, <1>2, <1>3, <1>4, <2>1 DEF Session, WriteProgress, ReadProgress, Running
<1>7. Session(c)'
  BY <1>5, <1>6 DEF Session
<1>8. k \in {"none", "open", "stale"}
  BY <1>1
<1>. QED
  BY ZenonT(20), <1>2, <1>3, <1>7, <1>8, QuietIOTInv

\* One more attempt, or none, on a connection that is not a closed one.
LEMMA AgainTInv ==
  ASSUME LInv, TInv, NEW c \in Clients, NEW h \in Causes,
         io[c].pc \in Running,
         io[c].attempt = 1 => h # "none",
         io' = [io EXCEPT ![c] = [Again(@) EXCEPT !.hit = h]],
         sock' = [sock EXCEPT ![c] = "none"],
         UNCHANGED <<cl, held, data, stored>>,
         \A q \in late' : \/ q \in late \/ q.op # "write"
                          \/ q.page \in SsdPages /\ q.piece \in Pieces /\ q.val \in Values
  PROVE  TInv'
<1> DEFINE i == [Again(io[c]) EXCEPT !.hit = h]
<1>1. io[c] \in IOState /\ Session(c)
  BY DEF TInv, TransportTypes
<1>2. /\ i \in IOState /\ i.page = io[c].page /\ i.write = io[c].write
      /\ i.val = io[c].val /\ i.hit = h
      /\ i.pc = IF io[c].attempt = 0 THEN "connect" ELSE "gave_up"
  BY ZenonT(20), <1>1 DEF IOState, Again
<1>3. io' = [io EXCEPT ![c] = i]
  OBVIOUS
<1>. HIDE DEF i
<1>4. io'[c] = i /\ sock'[c] = "none" /\ io[c].attempt \in {0, 1}
  BY <1>1, <1>3 DEF TInv, TransportTypes, IOState
<1>5. OnHeldPage(c)' /\ RetryFresh(c)'
  BY ZenonT(20), <1>1, <1>2, <1>4 DEF Session, OnHeldPage, RetryFresh, Running
<1>6. WriteProgress(c)' /\ ReadProgress(c)'
  BY ZenonT(20), <1>1, <1>2, <1>4 DEF Session, WriteProgress, ReadProgress, Running
<1>7. Session(c)'
  BY <1>5, <1>6 DEF Session
<1>. QED
  BY ZenonT(20), <1>2, <1>3, <1>7, QuietIOTInv

LEMMA ConnectFailsTInv ==
  ASSUME LInv, TInv, NEW c \in Clients, ConnectFails(c)
  PROVE  TInv'
<1>1. /\ io[c].pc \in Running /\ sock[c] = "none"
      /\ io' = [io EXCEPT ![c] = [Again(@) EXCEPT !.hit = "link"]]
      /\ UNCHANGED <<cl, held, late, sock, data, stored>>
  BY DEF ConnectFails, Running
<1>2. sock' = [sock EXCEPT ![c] = "none"]
  BY <1>1 DEF TInv, TransportTypes
<1>. QED
  BY ZenonT(20), <1>1, <1>2, AgainTInv DEF Causes

LEMMA PieceLostTInv ==
  ASSUME LInv, TInv, NEW c \in Clients, PieceLost(c)
  PROVE  TInv'
<1> DEFINE q == [op |-> "write", page |-> io[c].page, piece |-> io[c].done + 1,
                 val |-> io[c].val]
<1>1. /\ io[c].pc = "piece"
      /\ io' = [io EXCEPT ![c] = [Again(@) EXCEPT !.hit = "link"]]
      /\ sock' = [sock EXCEPT ![c] = "none"]
      /\ late' = IF io[c].write THEN late \cup {q} ELSE late
      /\ UNCHANGED <<cl, held, data, stored>>
  BY DEF PieceLost, Working
<1>2. io[c].write => q.page \in SsdPages /\ q.piece \in Pieces /\ q.val \in Values
  <2>1. io[c] \in IOState /\ Session(c)
    BY DEF TInv, TransportTypes
  <2>. QED
    BY <1>1, <2>1, TransportConstants DEF Session, OnHeldPage, IOState, Pieces
<1>. HIDE DEF q
<1>. QED
  BY ZenonT(20), <1>1, <1>2, AgainTInv DEF Running, Causes

LEMMA PieceStaleTInv ==
  ASSUME LInv, TInv, NEW c \in Clients, PieceStale(c)
  PROVE  TInv'
<1>1. /\ io[c].pc = "piece" /\ sock[c] = "stale" /\ io' = [io EXCEPT ![c] = Again(@)]
      /\ sock' = [sock EXCEPT ![c] = "none"]
      /\ UNCHANGED <<cl, held, late, data, stored>>
  BY DEF PieceStale, vars
<1>2. io[c] \in IOState /\ Session(c)
  BY DEF TInv, TransportTypes
<1>3. io[c].hit \in Causes /\ [Again(io[c]) EXCEPT !.hit = io[c].hit] = Again(io[c])
  BY ZenonT(20), <1>2 DEF IOState, Again
<1>4. io[c].attempt = 1 => io[c].hit # "none"
  BY <1>1, <1>2 DEF Session, RetryFresh, Running
<1>5. io' = [io EXCEPT ![c] = [Again(@) EXCEPT !.hit = io[c].hit]]
  BY ZenonT(20), <1>1, <1>3
<1>. QED
  BY ZenonT(20), <1>1, <1>3, <1>4, <1>5, AgainTInv DEF Running

LEMMA ReturnTInv ==
  ASSUME LInv, TInv, NEW c \in Clients, Return(c)
  PROVE  TInv'
<1>1. NoIO \in IOState /\ NoIO.pc = "rest"
  BY DEF NoIO, IOState, Causes
<1>2. /\ io' = [io EXCEPT ![c] = NoIO]
      /\ UNCHANGED <<cl, held, late, sock, data, stored>>
  BY DEF Return, vars
<1>3. /\ io'[c] = NoIO /\ sock' = [sock EXCEPT ![c] = sock[c]]
      /\ sock[c] \in {"none", "open", "stale"}
  BY <1>2 DEF TInv, TransportTypes
<1>4. Session(c)'
  BY <1>1, <1>3 DEF Session, OnHeldPage, WriteProgress, ReadProgress, RetryFresh, Running
<1>. QED
  BY ZenonT(20), <1>1, <1>2, <1>3, <1>4, QuietIOTInv

LEMMA CrashRemoteTInv ==
  ASSUME LInv, TInv, NEW c \in Clients, CrashRemote(c)
  PROVE  TInv'
<1>1. NoIO \in IOState /\ NoIO.pc = "rest"
  BY DEF NoIO, IOState, Causes
<1>2. /\ io' = [io EXCEPT ![c] = NoIO] /\ sock' = [sock EXCEPT ![c] = "none"]
      /\ cl' = [cl EXCEPT ![c] = Idle] /\ held' = [held EXCEPT ![c] = {}]
      /\ UNCHANGED <<late, data, stored>>
  BY DEF CrashRemote, Crash
<1>3. /\ \A x \in Clients : x # c => /\ io'[x] = io[x] /\ sock'[x] = sock[x]
                                     /\ cl'[x] = cl[x] /\ held'[x] = held[x]
      /\ io'[c] = NoIO
  BY <1>2 DEF TInv, TransportTypes, LInv, LifecycleTypes
<1>4. TransportTypes' /\ StoredIntact'
  BY <1>1, <1>2 DEF TInv, TransportTypes, StoredIntact
<1>5. Session(c)'
  BY SMTT(20), <1>1, <1>3 DEF Session, OnHeldPage, WriteProgress, ReadProgress, RetryFresh, Running
<1>6. ASSUME NEW x \in Clients, x # c PROVE Session(x)'
  BY <1>2, <1>3, <1>6, OtherSession DEF TInv
<1>. QED
  BY <1>4, <1>5, <1>6 DEF TInv

LEMMA AdvanceFacts ==
  ASSUME NEW j \in IOState
  PROVE  LET i == Advance(j)
         IN /\ i \in IOState /\ i.page = j.page /\ i.write = j.write
            /\ i.val = j.val /\ i.hit = j.hit /\ i.attempt = j.attempt
            /\ i.got = j.got /\ i.done = j.done + 1
            /\ i.pc = (IF j.done + 1 = NumPieces THEN "ok" ELSE "piece")
<1> DEFINE n == j.done + 1
           pc == IF j.done + 1 = NumPieces THEN "ok" ELSE "piece"
<1>1. Advance(j) = [j EXCEPT !.done = n, !.pc = pc]
  BY DEF Advance
<1>2. n \in Nat /\ pc \in {"ok", "piece"}
  BY DEF IOState
<1>. HIDE DEF n, pc
<1>3. LET i == [j EXCEPT !.done = n, !.pc = pc]
      IN /\ i \in IOState /\ i.page = j.page /\ i.write = j.write
         /\ i.val = j.val /\ i.hit = j.hit /\ i.attempt = j.attempt
         /\ i.got = j.got /\ i.done = n /\ i.pc = pc
  BY ZenonT(20), <1>2 DEF IOState
<1>. QED
  BY <1>1, <1>3 DEF n, pc

LEMMA ReadTInv ==
  ASSUME LInv, TInv, NEW c \in Clients, rpc_data_read(c)
  PROVE  TInv'
<1> DEFINE u == io[c].done + 1
           j == [io[c] EXCEPT !.got[u] = data[io[c].page][u]]
           i == Advance(j)
<1>1. /\ io[c] \in IOState /\ Session(c) /\ io[c].pc = "piece" /\ ~io[c].write
      /\ sock[c] = "open" /\ io' = [io EXCEPT ![c] = i]
      /\ UNCHANGED <<cl, held, late, sock, data, stored>>
  BY DEF rpc_data_read, Working, TInv, TransportTypes, vars
<1>2. /\ io[c].page \in SsdPages /\ u \in Pieces /\ io[c].done \in Nat
      /\ data[io[c].page] \in [Pieces -> Values]
  BY <1>1, TransportConstants
     DEF Session, OnHeldPage, IOState, Pieces, TInv, TransportTypes
<1>3. /\ i \in IOState /\ i.page = io[c].page /\ i.write = io[c].write
      /\ i.val = io[c].val /\ i.hit = io[c].hit /\ i.attempt = io[c].attempt
      /\ i.done = u /\ i.pc = (IF u = NumPieces THEN "ok" ELSE "piece")
      /\ \A w \in Pieces : i.got[w] = IF w = u THEN data[io[c].page][u] ELSE io[c].got[w]
  <2> DEFINE g == [io[c].got EXCEPT ![u] = data[io[c].page][u]]
  <2>1. /\ g \in [Pieces -> Values \cup {Unknown}]
        /\ \A w \in Pieces : g[w] = IF w = u THEN data[io[c].page][u] ELSE io[c].got[w]
    BY <1>1, <1>2 DEF IOState
  <2>2. j = [io[c] EXCEPT !.got = g]
    BY <1>1 DEF IOState
  <2>. HIDE DEF g, j
  <2>3. /\ j \in IOState /\ j.page = io[c].page /\ j.write = io[c].write
        /\ j.val = io[c].val /\ j.hit = io[c].hit /\ j.attempt = io[c].attempt
        /\ j.done = io[c].done /\ j.got = g
    BY <1>1, <2>1, <2>2 DEF IOState
  <2>4. /\ i \in IOState /\ i.page = j.page /\ i.write = j.write
        /\ i.val = j.val /\ i.hit = j.hit /\ i.attempt = j.attempt /\ i.got = j.got
        /\ i.done = j.done + 1
        /\ i.pc = (IF j.done + 1 = NumPieces THEN "ok" ELSE "piece")
    BY <2>3, AdvanceFacts
  <2>. QED
    BY <2>1, <2>3, <2>4
<1>. HIDE DEF i, u
<1>4. /\ io'[c] = i /\ sock' = [sock EXCEPT ![c] = sock[c]]
      /\ sock[c] \in {"none", "open", "stale"}
  BY <1>1 DEF TInv, TransportTypes
<1>5. OnHeldPage(c)' /\ RetryFresh(c)' /\ WriteProgress(c)'
  BY <1>1, <1>2, <1>3, <1>4, TransportConstants
     DEF Session, OnHeldPage, RetryFresh, WriteProgress, Running, Pieces
<1>6. ReadProgress(c)'
  <2>1. ASSUME NEW w \in Pieces, w <= u \/ u = NumPieces,
               stored[io[c].page][w] \in Values
        PROVE  i.got[w] = stored[io[c].page][w]
    <3>1. CASE w = u
      BY <1>2, <1>3, <2>1, <3>1 DEF TInv, StoredIntact
    <3>2. CASE w # u
      <4>1. w <= io[c].done
        BY <1>2, <2>1, <3>2, TransportConstants DEF u, Pieces
      <4>2. io[c].got[w] = stored[io[c].page][w]
        BY <1>1, <2>1, <4>1 DEF Session, ReadProgress
      <4>. QED
        BY <1>3, <3>2, <4>2
    <3>. QED
      BY ZenonT(20), <3>1, <3>2
  <2>. QED
    BY <1>1, <1>3, <1>4, <2>1 DEF ReadProgress
<1>7. Session(c)'
  BY <1>5, <1>6 DEF Session
<1>. QED
  BY ZenonT(20), <1>1, <1>3, <1>4, <1>7, QuietIOTInv

\* A step of a write: only the page of the I/O changes.
LEMMA WritingTInv ==
  ASSUME LInv, TInv, NEW c \in Clients, io[c].pc # "rest",
         TransportTypes', StoredIntact', Session(c)',
         \A x \in Clients : x # c => io'[x] = io[x] /\ sock'[x] = sock[x],
         UNCHANGED <<cl, held>>,
         \A p \in SsdPages : p # io[c].page => data'[p] = data[p] /\ stored'[p] = stored[p]
  PROVE  TInv'
<1>1. PICK d \in held[c] : d.page = io[c].page
  BY SMTT(20) DEF TInv, Session, OnHeldPage
<1>2. ASSUME NEW x \in Clients, x # c PROVE Session(x)'
  <2>1. io[x].pc # "rest" => io[x].page # d.page /\ io[x].page \in SsdPages
    BY <1>2, OtherPage DEF TInv, Session, OnHeldPage
  <2>. QED
    BY SMTT(20), <1>1, <1>2, <2>1, OtherSession DEF TInv
<1>. QED
  BY <1>2 DEF TInv

LEMMA WriteTInv ==
  ASSUME LInv, TInv, NEW c \in Clients, rpc_data_write(c)
  PROVE  TInv'
<1> DEFINE u == io[c].done + 1
           P == io[c].page
           i == Advance(io[c])
           s == [stored[P] EXCEPT ![u] = Unknown]
<1>1. /\ io[c] \in IOState /\ Session(c) /\ io[c].pc = "piece" /\ io[c].write
      /\ io' = [io EXCEPT ![c] = i] /\ data' = [data EXCEPT ![P][u] = io[c].val]
      /\ stored' = [stored EXCEPT ![P] = Acknowledged(io[c], s)]
      /\ UNCHANGED <<cl, held, late, sock>>
  BY DEF rpc_data_write, Working, TInv, TransportTypes, vars
<1>2. /\ P \in SsdPages /\ u \in Pieces /\ io[c].done \in Nat /\ io[c].val \in Values
      /\ data[P] \in [Pieces -> Values]
      /\ stored[P] \in [Pieces -> Values \cup {Unknown, Overrun}]
  <2>1. P \in SsdPages /\ io[c].val \in Values /\ io[c].done < NumPieces
    BY <1>1 DEF Session, OnHeldPage
  <2>2. io[c].done \in Nat
    BY <1>1 DEF IOState
  <2>3. u \in Pieces
    BY <2>1, <2>2, TransportConstants DEF Pieces
  <2>4. /\ data[P] \in [Pieces -> Values]
        /\ stored[P] \in [Pieces -> Values \cup {Unknown, Overrun}]
    BY <2>1 DEF TInv, TransportTypes
  <2>. QED
    BY <2>1, <2>2, <2>3, <2>4
<1>3. /\ i \in IOState /\ i.page = P /\ i.write /\ i.val = io[c].val
      /\ i.hit = io[c].hit /\ i.attempt = io[c].attempt /\ i.done = u
      /\ i.pc = (IF u = NumPieces THEN "ok" ELSE "piece")
  BY <1>1, AdvanceFacts
<1>4. /\ s \in [Pieces -> Values \cup {Unknown, Overrun}]
      /\ \A w \in Pieces : s[w] = IF w = u THEN Unknown ELSE stored[P][w]
  BY SMTT(20), <1>2
<1>. HIDE DEF i, s
<1>5. /\ io'[c] = i /\ \A x \in Clients : x # c => io'[x] = io[x]
      /\ \A p \in SsdPages : p # P => data'[p] = data[p] /\ stored'[p] = stored[p]
      /\ data'[P] = [data[P] EXCEPT ![u] = io[c].val]
      /\ stored'[P] = Acknowledged(io[c], s)
  <2>1. io'[c] = i /\ \A x \in Clients : x # c => io'[x] = io[x]
    BY ZenonT(20), <1>1 DEF TInv, TransportTypes
  <2>2. /\ \A p \in SsdPages : p # P => data'[p] = data[p]
        /\ data'[P] = [data[P] EXCEPT ![u] = io[c].val]
    BY ZenonT(20), <1>1, <1>2 DEF TInv, TransportTypes
  <2>3. /\ \A p \in SsdPages : p # P => stored'[p] = stored[p]
        /\ stored'[P] = Acknowledged(io[c], s)
    BY ZenonT(20), <1>1, <1>2 DEF TInv, TransportTypes
  <2>. QED
    BY <2>1, <2>2, <2>3
<1>6. /\ data'[P] \in [Pieces -> Values]
      /\ \A w \in Pieces : data'[P][w] = IF w = u THEN io[c].val ELSE data[P][w]
  <2>1. data'[P] = [data[P] EXCEPT ![u] = io[c].val]
    BY <1>5
  <2>. QED
    BY <1>2, <2>1
<1>7. /\ stored'[P] \in [Pieces -> Values \cup {Unknown, Overrun}]
      /\ u < NumPieces => stored'[P] = s
      /\ ~(u < NumPieces) =>
           \A w \in Pieces : stored'[P][w] = IF s[w] = Overrun THEN Overrun ELSE io[c].val
  BY <1>2, <1>4, <1>5, AcknowledgedFacts
<1>8. /\ \A w \in Pieces : stored[P][w] \notin Values
      /\ \A w \in Pieces : w <= io[c].done /\ stored[P][w] # Overrun => data[P][w] = io[c].val
  BY <1>1 DEF Session, WriteProgress, Running
<1>9. \A w \in Pieces : w <= u /\ s[w] # Overrun => data'[P][w] = io[c].val
  <2> SUFFICES ASSUME NEW w \in Pieces, w <= u, s[w] # Overrun, w # u
               PROVE  data'[P][w] = io[c].val
    BY <1>6
  <2>1. w <= io[c].done /\ stored[P][w] # Overrun
    BY SMTT(20), <1>2, <1>4 DEF Pieces
  <2>. QED
    BY <1>6, <1>8, <2>1
<1>. HIDE DEF u, P
<1>10. TransportTypes'
  <2>1. io' \in [Clients -> IOState] /\ sock' \in [Clients -> {"none", "open", "stale"}]
    BY SMTT(20), <1>1, <1>3 DEF TInv, TransportTypes
  <2>2. data' \in [SsdPages -> [Pieces -> Values]]
    BY SMTT(20), <1>1, <1>2, <1>5, <1>6 DEF TInv, TransportTypes
  <2>3. stored' \in [SsdPages -> [Pieces -> Values \cup {Unknown, Overrun}]]
    BY <1>1, <1>2, <1>5, <1>7 DEF TInv, TransportTypes
  <2>. QED
    BY SMTT(20), <1>1, <2>1, <2>2, <2>3 DEF TInv, TransportTypes
<1>11. StoredIntact'
  <2> SUFFICES ASSUME NEW p \in SsdPages, NEW w \in Pieces, stored'[p][w] \in Values
               PROVE  data'[p][w] = stored'[p][w]
    BY DEF StoredIntact
  <2>1. CASE p # P
    <3>1. stored'[p] = stored[p] /\ data'[p] = data[p]
      BY <1>5, <2>1
    <3>2. stored[p][w] \in Values => data[p][w] = stored[p][w]
      BY DEF TInv, StoredIntact
    <3>. QED
      BY <3>1, <3>2
  <2>2. CASE p = P /\ u < NumPieces
    <3>1. stored'[p][w] = IF w = u THEN Unknown ELSE stored[P][w]
      BY <1>4, <1>7, <2>2
    <3>. QED
      BY <1>8, <3>1, TransportConstants
  <2>3. CASE p = P /\ ~(u < NumPieces)
    <3>1. w <= u
      BY <1>2, <2>3, TransportConstants DEF Pieces
    <3>. QED
      BY <1>7, <1>9, <2>3, <3>1, TransportConstants
  <2>. QED
    BY <2>1, <2>2, <2>3
<1>12. Session(c)'
  <2>1. OnHeldPage(c)' /\ RetryFresh(c)' /\ ReadProgress(c)'
    <3>1. OnHeldPage(c)'
      BY <1>1, <1>2, <1>3, <1>5, TransportConstants DEF Session, OnHeldPage, Pieces, P
    <3>2. RetryFresh(c)'
      BY <1>1, <1>3, <1>5 DEF Session, RetryFresh, Running
    <3>3. ReadProgress(c)'
      BY <1>3, <1>5 DEF ReadProgress
    <3>. QED
      BY <3>1, <3>2, <3>3
  <2>2. WriteProgress(c)'
    <3> SUFFICES ASSUME u # NumPieces PROVE WriteProgress(c)'
      BY ZenonT(20), <1>3, <1>5 DEF WriteProgress, Running
    <3>1. u < NumPieces /\ stored'[P] = s
      BY <1>2, <1>7, TransportConstants DEF Pieces
    <3>2. \A w \in Pieces : s[w] \notin Values
      BY <1>4, <1>8, TransportConstants
    <3>. QED
      BY ZenonT(20), <1>3, <1>5, <1>9, <3>1, <3>2 DEF WriteProgress
  <2>. QED
    BY SMTT(20), <2>1, <2>2 DEF Session
<1>. QED
  BY SMTT(20), <1>1, <1>5, <1>10, <1>11, <1>12, WritingTInv DEF P

LEMMA PieceRefusedTInv ==
  ASSUME LInv, TInv, NEW c \in Clients, PieceRefused(c)
  PROVE  TInv'
<1> DEFINE i == [io[c] EXCEPT !.pc = "refused", !.hit = "status"]
           k == IF io[c].write THEN "stale" ELSE sock[c]
<1>1. /\ io[c] \in IOState /\ Session(c) /\ io[c].pc = "piece"
      /\ sock[c] \in {"none", "open", "stale"}
      /\ io' = [io EXCEPT ![c] = i] /\ sock' = [sock EXCEPT ![c] = k]
      /\ UNCHANGED <<cl, held, late, data, stored>>
  BY ZenonT(20) DEF PieceRefused, Working, TInv, TransportTypes
<1>2. /\ i \in IOState /\ i.page = io[c].page /\ i.write = io[c].write
      /\ i.val = io[c].val /\ i.hit = "status" /\ i.pc = "refused"
  BY ZenonT(20), <1>1 DEF IOState, Causes
<1>3. k \in {"none", "open", "stale"}
  BY <1>1
<1>. HIDE DEF i, k
<1>4. io'[c] = i
  BY <1>1 DEF TInv, TransportTypes
<1>5. OnHeldPage(c)'
  BY <1>1, <1>2, <1>4 DEF Session, OnHeldPage
<1>6. Session(c)'
  BY <1>2, <1>4, <1>5 DEF Session, RetryFresh, WriteProgress, ReadProgress, Running
<1>. QED
  BY ZenonT(20), <1>1, <1>2, <1>3, <1>6, QuietIOTInv

\* A device error after the piece was written: only a write has such a step.
LEMMA PieceWrittenFailsTInv ==
  ASSUME LInv, TInv, NEW c \in Clients, PieceFails(c), io[c].write,
         data' = [data EXCEPT ![io[c].page][io[c].done + 1] = io[c].val]
  PROVE  TInv'
<1> DEFINE u == io[c].done + 1
           P == io[c].page
           i == [Again(io[c]) EXCEPT !.hit = "status"]
<1>1. /\ io[c] \in IOState /\ Session(c) /\ io[c].pc = "piece"
      /\ io' = [io EXCEPT ![c] = i] /\ sock' = [sock EXCEPT ![c] = "none"]
      /\ UNCHANGED <<cl, held, late, stored>>
  BY ZenonT(20) DEF PieceFails, Working, TInv, TransportTypes
<1>2. /\ P \in SsdPages /\ u \in Pieces /\ io[c].val \in Values
      /\ \A w \in Pieces : stored[P][w] \notin Values
  BY <1>1, TransportConstants
     DEF Session, OnHeldPage, WriteProgress, Running, IOState, Pieces
<1>3. /\ i \in IOState /\ i.page = P /\ i.write /\ i.val = io[c].val /\ i.hit = "status"
      /\ i.pc = IF io[c].attempt = 0 THEN "connect" ELSE "gave_up"
  BY ZenonT(20), <1>1 DEF IOState, Again, Causes
<1>4. /\ data' \in [SsdPages -> [Pieces -> Values]]
      /\ \A p \in SsdPages : p # P => data'[p] = data[p]
  BY <1>2 DEF TInv, TransportTypes
<1>. HIDE DEF i, u, P
<1>5. /\ io'[c] = i /\ io' \in [Clients -> IOState] /\ sock'[c] = "none"
      /\ sock' \in [Clients -> {"none", "open", "stale"}]
      /\ \A x \in Clients : x # c => io'[x] = io[x] /\ sock'[x] = sock[x]
  BY <1>1, <1>3 DEF TInv, TransportTypes
<1>6. TransportTypes'
  BY <1>1, <1>4, <1>5 DEF TInv, TransportTypes
<1>7. StoredIntact'
  BY SMTT(20), <1>1, <1>2, <1>4 DEF TInv, StoredIntact
<1>8. Session(c)'
  <2>1. OnHeldPage(c)'
    BY <1>1, <1>3, <1>5 DEF Session, OnHeldPage, P
  <2>2. RetryFresh(c)' /\ ReadProgress(c)'
    BY <1>3, <1>5 DEF RetryFresh, ReadProgress, Running
  <2>3. WriteProgress(c)'
    BY <1>1, <1>2, <1>3, <1>5 DEF WriteProgress, Running
  <2>. QED
    BY <2>1, <2>2, <2>3 DEF Session
<1>. QED
  BY <1>1, <1>4, <1>5, <1>6, <1>7, <1>8, WritingTInv DEF P

LEMMA PieceFailsTInv ==
  ASSUME LInv, TInv, NEW c \in Clients, PieceFails(c)
  PROVE  TInv'
<1>1. /\ io[c].pc = "piece"
      /\ io' = [io EXCEPT ![c] = [Again(@) EXCEPT !.hit = "status"]]
      /\ sock' = [sock EXCEPT ![c] = "none"]
      /\ UNCHANGED <<cl, held, late, stored>>
  BY DEF PieceFails, Working
<1>2. CASE data' = data
  BY ZenonT(20), <1>1, <1>2, AgainTInv DEF Running, Causes
<1>3. CASE data' # data
  <2>1. /\ io[c].write
        /\ data' = [data EXCEPT ![io[c].page][io[c].done + 1] = io[c].val]
    BY ZenonT(20), <1>3 DEF PieceFails
  <2>. QED
    BY <2>1, PieceWrittenFailsTInv
<1>. QED
  BY <1>2, <1>3

\* A late write may hit any page, also one that is being read or written; what
\* it overwrites is no longer counted as stored.
LEMMA LateWriteTInv ==
  ASSUME LInv, TInv, NEW q \in late, LateWrite(q)
  PROVE  TInv'
<1>1. /\ q.page \in SsdPages /\ q.piece \in Pieces /\ q.val \in Values
      /\ data' = [data EXCEPT ![q.page][q.piece] = q.val]
      /\ stored' = [stored EXCEPT ![q.page][q.piece] = Overrun]
      /\ late' = late \ {q} /\ UNCHANGED <<cl, held, io, sock>>
  BY ZenonT(20) DEF LateWrite, TInv, TransportTypes
<1>. /\ data \in [SsdPages -> [Pieces -> Values]]
     /\ stored \in [SsdPages -> [Pieces -> Values \cup {Unknown, Overrun}]]
  BY DEF TInv, TransportTypes
<1>2. /\ data' \in [SsdPages -> [Pieces -> Values]]
      /\ \A p \in SsdPages, u \in Pieces :
           data'[p][u] = IF p = q.page /\ u = q.piece THEN q.val ELSE data[p][u]
  BY <1>1, PieceUpdate
<1>3. /\ stored' \in [SsdPages -> [Pieces -> Values \cup {Unknown, Overrun}]]
      /\ \A p \in SsdPages, u \in Pieces :
           stored'[p][u] = IF p = q.page /\ u = q.piece THEN Overrun ELSE stored[p][u]
  BY <1>1, PieceUpdate
<1>4. TransportTypes'
  BY <1>1, <1>2, <1>3 DEF TInv, TransportTypes
<1>5. StoredIntact'
  BY <1>2, <1>3, TransportConstants DEF TInv, StoredIntact
<1>6. ASSUME NEW c \in Clients PROVE Session(c)'
  <2>1. Session(c)
    BY DEF TInv
  <2>2. OnHeldPage(c)' /\ RetryFresh(c)'
    BY <1>1, <2>1, SameRequest
  <2>3. io[c].pc # "rest" => io[c].page \in SsdPages
    BY SMTT(20), <2>1 DEF Session, OnHeldPage
  <2>4. WriteProgress(c)'
    <3> SUFFICES ASSUME io[c].write, io[c].pc \in Running, NEW u \in Pieces
                 PROVE  /\ stored'[io[c].page][u] \notin Values
                        /\ io[c].pc = "piece" /\ u <= io[c].done
                             /\ stored'[io[c].page][u] # Overrun =>
                               data'[io[c].page][u] = io[c].val
      BY <1>1 DEF WriteProgress
    <3>1. io[c].page \in SsdPages
      BY SMTT(20), <2>3 DEF Running
    <3>2. /\ stored[io[c].page][u] \notin Values
          /\ io[c].pc = "piece" /\ u <= io[c].done /\ stored[io[c].page][u] # Overrun =>
               data[io[c].page][u] = io[c].val
      BY <2>1 DEF Session, WriteProgress
    <3>3. CASE io[c].page = q.page /\ u = q.piece
      <4>1. stored'[io[c].page][u] = Overrun
        BY <1>3, <3>1, <3>3
      <4>. QED
        BY <4>1, TransportConstants
    <3>4. CASE ~(io[c].page = q.page /\ u = q.piece)
      <4>1. stored'[io[c].page][u] = stored[io[c].page][u]
        BY <1>3, <3>1, <3>4
      <4>2. data'[io[c].page][u] = data[io[c].page][u]
        BY <1>2, <3>1, <3>4
      <4>. QED
        BY <3>2, <4>1, <4>2
    <3>. QED
      BY <3>3, <3>4
  <2>5. ReadProgress(c)'
    <3> SUFFICES ASSUME ~io[c].write, io[c].pc \in {"piece", "ok"}, NEW u \in Pieces,
                        io[c].pc = "piece" => u <= io[c].done,
                        stored'[io[c].page][u] \in Values
                 PROVE  io[c].got[u] = stored'[io[c].page][u]
      BY <1>1 DEF ReadProgress
    <3>1. stored'[io[c].page][u] = stored[io[c].page][u]
      BY <1>1, <1>3, <2>3, TransportConstants
    <3>. QED
      BY <2>1, <3>1 DEF Session, ReadProgress
  <2>. QED
    BY <2>2, <2>4, <2>5 DEF Session
<1>. QED
  BY SMTT(20), <1>4, <1>5, <1>6 DEF TInv

-----------------------------------------------------------------------------
\* The steps of remote_io of client c.
RemoteStep(c) ==
  \/ \E d \in held[c] : \/ StartIO(c, d, FALSE, Unknown)
                        \/ \E v \in Values : StartIO(c, d, TRUE, v)
  \/ Connect(c) \/ ConnectFails(c) \/ rpc_data_write(c) \/ rpc_data_read(c)
  \/ PieceFails(c) \/ PieceRefused(c) \/ PieceLost(c) \/ PieceStale(c) \/ Return(c)

LEMMA RemoteStepLInv ==
  ASSUME LInv, NEW c \in Clients, RemoteStep(c)
  PROVE  LInv'
<1>1. faults \in Nat
  BY DEF LInv, LifecycleTypes
<1>2. CASE \E d \in held[c], w \in BOOLEAN, v \in Values \cup {Unknown} : StartIO(c, d, w, v)
  BY <1>1, <1>2, IOStepLInv DEF StartIO, vars
<1>3. CASE Connect(c) \/ rpc_data_write(c) \/ rpc_data_read(c) \/ PieceStale(c) \/ Return(c)
  BY <1>1, <1>3, IOStepLInv
     DEF Connect, rpc_data_write, rpc_data_read, PieceStale, Return, vars
<1>4. CASE ConnectFails(c) \/ PieceFails(c) \/ PieceRefused(c)
  <2>1. /\ UNCHANGED <<mem, reg, nextId, cl, held, late>> /\ faults' = faults + 1
    BY <1>4 DEF ConnectFails, PieceFails, PieceRefused, Fault
  <2>. QED
    BY <1>1, <2>1, IOStepLInv
<1>5. CASE PieceLost(c)
  <2>1. /\ UNCHANGED <<mem, reg, nextId, cl, held>> /\ faults' = faults + 1
        /\ \A q \in late' : q \in late \/ q.op = "write"
    BY SMTT(20), <1>5 DEF PieceLost, Fault
  <2>. QED
    BY <1>1, <2>1, IOStepLInv
<1>. QED
  BY ZenonT(20), <1>2, <1>3, <1>4, <1>5 DEF RemoteStep

LEMMA RemoteStepTInv ==
  ASSUME LInv, TInv, NEW c \in Clients, RemoteStep(c)
  PROVE  TInv'
<1>1. ASSUME NEW d \in held[c], StartIO(c, d, FALSE, Unknown) PROVE TInv'
  BY ZenonT(20), <1>1, StartTInv
<1>2. ASSUME NEW d \in held[c], NEW v \in Values, StartIO(c, d, TRUE, v) PROVE TInv'
  BY ZenonT(20), <1>2, StartTInv
<1>. QED
  BY ZenonT(20), <1>1, <1>2, ConnectTInv, ConnectFailsTInv, WriteTInv, ReadTInv, PieceFailsTInv, PieceRefusedTInv,
     PieceLostTInv, PieceStaleTInv, ReturnTInv DEF RemoteStep

LEMMA NextRInv == RInv /\ [RemoteNext]_allvars => RInv'
<1> SUFFICES ASSUME LInv, TInv, [RemoteNext]_allvars PROVE LInv' /\ TInv'
  BY DEF RInv
<1>1. CASE UNCHANGED allvars
  <2>1. UNCHANGED vars /\ UNCHANGED rvars
    BY <1>1 DEF allvars
  <2>2. TransportTypes' /\ StoredIntact'
    BY <2>1 DEF vars, rvars, TInv, TransportTypes, StoredIntact
  <2>3. ASSUME NEW c \in Clients PROVE Session(c)'
    <3>1. Session(c) /\ UNCHANGED <<cl, held, io, sock, data, stored>>
      BY <2>1 DEF TInv, vars, rvars
    <3>2. OnHeldPage(c)' /\ RetryFresh(c)'
      BY <3>1, SameRequest
    <3>3. WriteProgress(c)' /\ ReadProgress(c)'
      BY <3>1 DEF Session, WriteProgress, ReadProgress
    <3>. QED
      BY <3>2, <3>3 DEF Session
  <2>. QED
    BY <2>1, <2>2, <2>3, UnchangedLInv DEF TInv
<1>2. CASE \E q \in late : LateRequest(q) /\ UNCHANGED rvars
  BY <1>2, LateLInv, LifecycleTInv
<1>3. CASE \E q \in late : LateWrite(q)
  <2>1. PICK q \in late : LateWrite(q)
    BY <1>3
  <2>2. /\ UNCHANGED <<mem, reg, nextId, cl, held, faults>> /\ late' \subseteq late
        /\ faults \in Nat
    BY <2>1 DEF LateWrite, LInv, LifecycleTypes
  <2>. QED
    BY <2>1, <2>2, IOStepLInv, LateWriteTInv
<1>4. ASSUME NEW c \in Clients, io[c].pc = "rest", ClientStep(c), UNCHANGED rvars
      PROVE  LInv' /\ TInv'
  BY <1>4, ClientStepLInv, LifecycleTInv
<1>5. ASSUME NEW c \in Clients, RemoteStep(c) PROVE LInv' /\ TInv'
  BY <1>5, RemoteStepLInv, RemoteStepTInv
<1>6. ASSUME NEW c \in Clients, CrashRemote(c) PROVE LInv' /\ TInv'
  BY ZenonT(20), <1>6, CrashLInv, CrashRemoteTInv DEF CrashRemote
<1>. QED
  BY ZenonT(20), <1>1, <1>2, <1>3, <1>4, <1>5, <1>6 DEF RemoteNext, RemoteStep

LEMMA RInvSound == RInv => RemoteIOSound
<1> SUFFICES ASSUME LInv, TInv PROVE RemoteIOSound
  BY DEF RInv
<1>1. AckedIntact
  BY DEF AckedIntact, TInv, StoredIntact, Session, ReadProgress
<1>2. FailsOnlyOnFault
  BY DEF FailsOnlyOnFault, TInv, Session, RetryFresh
<1>. QED
  BY <1>1, <1>2 DEF RemoteIOSound

LEMMA RemoteInvariant == RemoteSpec => []RInv
<1>1. RemoteInit => RInv
  BY InitLInv, InitTInv DEF RInv, RemoteInit
<1>. QED
  BY <1>1, NextRInv, PTL DEF RemoteSpec

\* What remote_io reports as written stays on the page whole until the page is
\* written again or overrun by a late request, reads return it, and an I/O
\* fails only if something went wrong during it: for pages of any number of
\* pieces, any number of clients and any number of faults.
THEOREM RemoteTransportSound == RemoteSpec => []RemoteIOSound
  BY RemoteInvariant, RInvSound, PTL

LEMMA RInvLifecycle == RInv => HoldingsSound /\ NothingLeaks
  BY LInvSound DEF RInv

\* Remote I/O, its retries and its late writes included, does not disturb the
\* ownership of chunks.
THEOREM RemoteHoldingsSound == RemoteSpec => []HoldingsSound
  BY RInvLifecycle, RemoteInvariant, PTL

\* Nor does it disturb the accounting of memory and names.
THEOREM RemoteNothingLeaks == RemoteSpec => []NothingLeaks
  BY RInvLifecycle, RemoteInvariant, PTL

=============================================================================
