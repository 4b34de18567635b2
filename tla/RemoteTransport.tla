---------------------------- MODULE RemoteTransport ----------------------------
(***************************************************************************)
(* The remote data plane: transport_remote.c in each client of             *)
(* ChunkLifecycle, and the data requests that umms executes                *)
(* (handle_data_read, handle_data_write).                                  *)
(*                                                                         *)
(* An I/O on a held SSD page is cut into pieces of at most max_io bytes,   *)
(* one request each.  After a transport error the connection is closed and *)
(* the whole I/O is tried once more.  So it is after an error of the       *)
(* device: umms answers with UMM_E_IO, which umm.h:78 defines to be        *)
(* UMM_E_TRANSPORT_ERROR.  Any other error status ends the I/O.  A lock is *)
(* held throughout, so a process has one remote I/O at a time, and the     *)
(* process is single-threaded here.  A request whose connection broke may  *)
(* be executed later, by the handler thread of the old connection.         *)
(***************************************************************************)
EXTENDS ChunkLifecycle

CONSTANTS
  NumPieces,  \* pieces of a page: its size over max_io
  Values      \* contents of a piece

Pieces == 1 .. NumPieces

SsdPages == {p \in Pages : p[1] = "SSD"}

Unknown == "unknown"      \* a write is under way, or failed
Overrun == "overrun"      \* an unanswered write has arrived since

ASSUME TransportConstants ==
  /\ NumPieces \in Nat \ {0}
  /\ Unknown \notin Values /\ Overrun \notin Values

VARIABLES
  io,      \* the I/O of each client
  sock,    \* its connection: "none", "open", or "stale" when the server closed it
  data,    \* contents of the SSD pages
  stored   \* history: what successful writes have put there

rvars == <<io, sock, data, stored>>

\* What went wrong last during an I/O: nothing, the connection, or the server
\* answered with an error status.
Causes == {"none", "link", "status"}

allvars == <<vars, rvars>>

NoIO == [pc |-> "rest", page |-> NoPage, write |-> FALSE, val |-> Unknown,
         attempt |-> 0, done |-> 0, got |-> [u \in Pieces |-> Unknown], hit |-> "none"]

RemoteInit ==
  /\ Init
  /\ io = [c \in Clients |-> NoIO]
  /\ sock = [c \in Clients |-> "none"]
  /\ data \in [SsdPages -> [Pieces -> Values]]
  /\ stored = [p \in SsdPages |-> [u \in Pieces |-> Unknown]]

Fault == faults < MaxFaults /\ faults' = faults + 1
--------------------------------------------------------------------------------
(* remote_io                                                               *)

\* umm_read or umm_write of a whole page, routed to the remote transport.
StartIO(c, d, write, val) ==
  /\ cl[c].pc = "idle" /\ io[c].pc = "rest"
  /\ d \in held[c] /\ d.page \in SsdPages
  /\ io' = [io EXCEPT ![c] = [NoIO EXCEPT !.pc = "connect", !.page = d.page,
                                          !.write = write, !.val = val]]
  /\ stored' = IF write THEN [stored EXCEPT ![d.page] = [u \in Pieces |-> Unknown]]
               ELSE stored
  /\ UNCHANGED <<vars, sock, data>>

\* remote_ensure_connected; the I/O starts with its first piece.
Connect(c) ==
  /\ io[c].pc = "connect"
  /\ sock' = [sock EXCEPT ![c] = IF @ = "none" THEN "open" ELSE @]
  /\ io' = [io EXCEPT ![c].pc = "piece", ![c].done = 0]
  /\ UNCHANGED <<vars, data, stored>>

\* One more attempt after the first.
Again(i) ==
  IF i.attempt = 0 THEN [i EXCEPT !.attempt = 1, !.pc = "connect"]
  ELSE [i EXCEPT !.pc = "gave_up"]

ConnectFails(c) ==
  /\ io[c].pc = "connect" /\ sock[c] = "none"
  /\ Fault
  /\ io' = [io EXCEPT ![c] = [Again(@) EXCEPT !.hit = "link"]]
  /\ UNCHANGED <<mem, reg, nextId, cl, held, late, sock, data, stored>>

Working(c) == io[c].pc = "piece" /\ sock[c] = "open"

Advance(i) ==
  [i EXCEPT !.done = @ + 1, !.pc = IF i.done + 1 = NumPieces THEN "ok" ELSE "piece"]

\* The pieces of a finished write, unless an unanswered one has come over them.
Acknowledged(i, s) ==
  IF i.done + 1 < NumPieces THEN s
  ELSE [u \in Pieces |-> IF s[u] = Overrun THEN Overrun ELSE i.val]

\* Mutant: every piece goes to the address of the first.
rpc_data_write_unmoved(c) ==
  LET i == io[c] IN
  /\ Working(c) /\ i.write
  /\ data' = [data EXCEPT ![i.page][1] = i.val]
  /\ stored' = [stored EXCEPT ![i.page] =
       Acknowledged(i, [@ EXCEPT ![i.done + 1] = Unknown])]
  /\ io' = [io EXCEPT ![c] = Advance(i)]
  /\ UNCHANGED <<vars, sock>>

\* The server has stored a piece and answered.
rpc_data_write(c) ==
  LET i == io[c]
      u == i.done + 1
  IN /\ Working(c) /\ i.write
     /\ data' = [data EXCEPT ![i.page][u] = i.val]
     /\ stored' = [stored EXCEPT ![i.page] = Acknowledged(i, [@ EXCEPT ![u] = Unknown])]
     /\ io' = [io EXCEPT ![c] = Advance(i)]
     /\ UNCHANGED <<vars, sock>>

rpc_data_read(c) ==
  LET i == io[c]
      u == i.done + 1
  IN /\ Working(c) /\ ~i.write
     /\ io' = [io EXCEPT ![c] = Advance([i EXCEPT !.got[u] = data[i.page][u]])]
     /\ UNCHANGED <<vars, sock, data, stored>>

\* The device fails below the server, which answers UMM_E_IO: to remote_io a
\* transport error, so remote_disconnect, and once more.  The piece may or may
\* not have been written.
PieceFails(c) ==
  LET i == io[c] IN
  /\ Working(c) /\ Fault
  /\ data' \in {data} \cup (IF i.write THEN {[data EXCEPT ![i.page][i.done + 1] = i.val]} ELSE {})
  /\ sock' = [sock EXCEPT ![c] = "none"]
  /\ io' = [io EXCEPT ![c] = [Again(i) EXCEPT !.hit = "status"]]
  /\ UNCHANGED <<mem, reg, nextId, cl, held, late, stored>>

\* The server has no memory for the piece, and nothing is done.  The status is
\* passed on at once.  After a write the server then closes the connection,
\* after a read it goes on.
PieceRefused(c) ==
  LET i == io[c] IN
  /\ Working(c) /\ Fault
  /\ sock' = [sock EXCEPT ![c] = IF i.write THEN "stale" ELSE @]
  /\ io' = [io EXCEPT ![c].pc = "refused", ![c].hit = "status"]
  /\ UNCHANGED <<mem, reg, nextId, cl, held, late, data, stored>>

\* The connection breaks before the answer: remote_disconnect, and once more.
PieceLost(c) ==
  LET i == io[c] IN
  /\ Working(c) /\ Fault
  /\ late' = IF i.write
             THEN late \cup {[op |-> "write", page |-> i.page, piece |-> i.done + 1, val |-> i.val]}
             ELSE late
  /\ sock' = [sock EXCEPT ![c] = "none"]
  /\ io' = [io EXCEPT ![c] = [Again(i) EXCEPT !.hit = "link"]]
  /\ UNCHANGED <<mem, reg, nextId, cl, held, data, stored>>

\* The server had closed the connection; nobody reads the request.
PieceStale(c) ==
  /\ io[c].pc = "piece" /\ sock[c] = "stale"
  /\ sock' = [sock EXCEPT ![c] = "none"]
  /\ io' = [io EXCEPT ![c] = Again(@)]
  /\ UNCHANGED <<vars, data, stored>>

Return(c) ==
  /\ io[c].pc \in {"ok", "refused", "gave_up"}
  /\ io' = [io EXCEPT ![c] = NoIO]
  /\ UNCHANGED <<vars, sock, data, stored>>
--------------------------------------------------------------------------------
\* The handler of a broken connection executes the write it had received.
LateWrite(q) ==
  /\ q.op = "write"
  /\ data' = [data EXCEPT ![q.page][q.piece] = q.val]
  /\ stored' = [stored EXCEPT ![q.page][q.piece] = Overrun]
  /\ late' = late \ {q}
  /\ UNCHANGED <<mem, reg, nextId, cl, held, faults, io, sock>>

CrashRemote(c) ==
  /\ Crash(c)
  /\ io' = [io EXCEPT ![c] = NoIO]
  /\ sock' = [sock EXCEPT ![c] = "none"]
  /\ UNCHANGED <<data, stored>>

RemoteNext ==
  \/ \E q \in late : LateRequest(q) /\ UNCHANGED rvars
  \/ \E q \in late : LateWrite(q)
  \/ \E c \in Clients :
       \/ io[c].pc = "rest" /\ ClientStep(c) /\ UNCHANGED rvars
       \/ \E d \in held[c] :
            \/ StartIO(c, d, FALSE, Unknown)
            \/ \E v \in Values : StartIO(c, d, TRUE, v)
       \/ Connect(c) \/ ConnectFails(c)
       \/ rpc_data_write(c) \/ rpc_data_read(c)
       \/ PieceFails(c) \/ PieceRefused(c) \/ PieceLost(c) \/ PieceStale(c)
       \/ Return(c) \/ CrashRemote(c)

RemoteSpec == RemoteInit /\ [][RemoteNext]_allvars
--------------------------------------------------------------------------------
\* What remote_io has reported as written is on the page, whole, however many
\* attempts it took, until the page is written again or an unanswered earlier
\* write arrives; a read that succeeds returns it.
AckedIntact ==
  /\ \A p \in SsdPages, u \in Pieces :
       stored[p][u] \in Values => data[p][u] = stored[p][u]
  /\ \A c \in Clients : io[c].pc = "ok" /\ ~io[c].write =>
       \A u \in Pieces : stored[io[c].page][u] \in Values =>
         io[c].got[u] = stored[io[c].page][u]

\* An I/O fails only if something went wrong during it: a connection that an
\* earlier refused write has left closed costs the first attempt and no more.
FailsOnlyOnFault ==
  \A c \in Clients : io[c].pc \in {"refused", "gave_up"} => io[c].hit # "none"

\* The remote transport keeps what it reports.
RemoteIOSound == AckedIntact /\ FailsOnlyOnFault

\* Synchronous I/O is never reordered, as the empty remote_fence claims: the
\* contents change only while some client is in a write.
WritesInOrder ==
  [][data' # data => \E c \in Clients : io[c].pc = "piece" /\ io[c].write]_allvars

\* "An error status is passed on at once and not retried", as the comment at
\* transport_remote.c:7 says.
StatusPassedOn == \A c \in Clients : io[c].hit = "status" => io[c].pc = "refused"
================================================================================
