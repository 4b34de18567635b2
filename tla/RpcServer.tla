------------------------------- MODULE RpcServer -------------------------------
(***************************************************************************)
(* The thread-per-connection server of umms (server/mem_server.c) and ummd *)
(* (server/meta_server.c): the accept thread, a fixed table of handler     *)
(* threads, the thread that calls stop, and clients that connect, send     *)
(* requests and close.                                                     *)
(*                                                                         *)
(* The two servers differ in two steps.  Before it closes the listening    *)
(* socket the memory server shuts it down, which wakes a thread blocked in *)
(* accept(); the metadata server only closes it, and a blocked accept()    *)
(* keeps the socket alive.  Only the memory server has data writes, whose  *)
(* errors end the handler.  MemServer tells the two apart.                 *)
(***************************************************************************)
EXTENDS Integers, FiniteSets

CONSTANTS
  Conns,         \* connections clients make, each used once
  MaxThreads,    \* MEM_SERVER_MAX_THREADS, META_SERVER_MAX_THREADS
  MemServer,     \* TRUE for umms, FALSE for ummd
  ClientsLeave   \* every client closes its connection at some time

ASSUME ServerConstants ==
  MaxThreads \in Nat \ {0} /\ MemServer \in BOOLEAN /\ ClientsLeave \in BOOLEAN

Slots == 0 .. MaxThreads - 1

NoConn == "none"

VARIABLES
  running,        \* srv->running
  listening,      \* "open", "closed", or "shut" after shutdown()
  acc,            \* the accept thread
  placing,        \* the connection it has accepted and not placed yet
  active,         \* client_thread_active
  thread_count,
  handler,        \* the handler thread of a slot: [pc, conn]
  conn,           \* what became of each connection
  stopper         \* the thread in stop(): [pc, slot]

vars == <<running, listening, acc, placing, active, thread_count, handler, conn, stopper>>

\* create and start have returned.
Init ==
  /\ running = TRUE /\ listening = "open"
  /\ acc = "loop" /\ placing = NoConn
  /\ active = [s \in Slots |-> FALSE] /\ thread_count = 0
  /\ handler = [s \in Slots |-> [pc |-> "none", conn |-> NoConn]]
  /\ conn = [k \in Conns |-> "new"]
  /\ stopper = [pc |-> "idle", slot |-> 0]
--------------------------------------------------------------------------------
(* Clients and the kernel.  A connection is "new", "queued" in the backlog, *)
(* "abandoned" there by its client, "open", "left" when its client closed   *)
(* it, "closed" when the server did.                                        *)

\* A blocked accept() keeps a closed listening socket usable.
Reachable == listening = "open" \/ (listening = "closed" /\ acc = "blocked")

Connect(k) ==
  /\ conn[k] = "new" /\ Reachable
  /\ conn' = [conn EXCEPT ![k] = "queued"]
  /\ UNCHANGED <<running, listening, acc, placing, active, thread_count, handler, stopper>>

Leave(k) ==
  /\ conn[k] \in {"queued", "open"}
  /\ conn' = [conn EXCEPT ![k] = IF @ = "queued" THEN "abandoned" ELSE "left"]
  /\ UNCHANGED <<running, listening, acc, placing, active, thread_count, handler, stopper>>
--------------------------------------------------------------------------------
(* mem_accept_thread                                                       *)

\* while (srv->running)
AcceptLoop ==
  /\ acc = "loop"
  /\ acc' = IF running THEN "accept" ELSE "exited"
  /\ UNCHANGED <<running, listening, placing, active, thread_count, handler, conn, stopper>>

\* The call of accept(): it fails on a closed socket, otherwise it blocks.
AcceptCall ==
  /\ acc = "accept"
  /\ acc' = IF listening = "open" THEN "blocked" ELSE "loop"
  /\ UNCHANGED <<running, listening, placing, active, thread_count, handler, conn, stopper>>

\* accept() also returns a connection whose client has gone in the meantime.
AcceptReturns(k) ==
  /\ acc = "blocked" /\ conn[k] \in {"queued", "abandoned"}
  /\ acc' = "placing" /\ placing' = k
  /\ conn' = [conn EXCEPT ![k] = IF @ = "queued" THEN "open" ELSE "left"]
  /\ UNCHANGED <<running, listening, active, thread_count, handler, stopper>>

\* shutdown() makes a blocked accept() fail.
AcceptWoken ==
  /\ acc = "blocked" /\ listening = "shut"
  /\ acc' = "loop"
  /\ UNCHANGED <<running, listening, placing, active, thread_count, handler, conn, stopper>>

\* The server closes a connection unless its client has.
Closed(k) == [conn EXCEPT ![k] = IF @ = "open" THEN "closed" ELSE @]

\* The first slot whose thread was never started.
FreeSlot(s) == ~active[s] /\ \A i \in 0 .. s - 1 : active[i]

\* A handler thread is started for the connection, under client_list_lock.
Place(s) ==
  /\ acc = "placing" /\ thread_count < MaxThreads /\ FreeSlot(s)
  /\ active' = [active EXCEPT ![s] = TRUE]
  /\ thread_count' = thread_count + 1
  /\ handler' = [handler EXCEPT ![s] = [pc |-> "check", conn |-> placing]]
  /\ acc' = "loop" /\ placing' = NoConn
  /\ UNCHANGED <<running, listening, conn, stopper>>

\* The connection is closed and the loop goes on.
Refuse ==
  /\ acc = "placing"
  /\ conn' = Closed(placing)
  /\ acc' = "loop" /\ placing' = NoConn
  /\ UNCHANGED <<running, listening, active, thread_count, handler, stopper>>

\* Every slot is taken.
RejectFull == thread_count >= MaxThreads /\ Refuse

\* The address is not allowed (umms), or there is no memory or no thread.
RejectOther == (MemServer \/ thread_count < MaxThreads) /\ Refuse
--------------------------------------------------------------------------------
(* mem_client_thread, and how mem_service_rpc_handle ends                  *)

Exit(s) == [handler EXCEPT ![s].pc = "exited"]

\* while (srv->running)
HandlerLoop(s) ==
  /\ handler[s].pc = "check"
  /\ IF running
     THEN handler' = [handler EXCEPT ![s].pc = "recv"] /\ conn' = conn
     ELSE handler' = Exit(s) /\ conn' = Closed(handler[s].conn)
  /\ UNCHANGED <<running, listening, acc, placing, active, thread_count, stopper>>

\* A well-formed request has been read.
RecvRequest(s) ==
  /\ handler[s].pc = "recv" /\ conn[handler[s].conn] = "open"
  /\ handler' = [handler EXCEPT ![s].pc = "serve"]
  /\ UNCHANGED <<running, listening, acc, placing, active, thread_count, conn, stopper>>

\* A frame with a wrong magic, version or length ends the handler.
RecvMalformed(s) ==
  /\ handler[s].pc = "recv" /\ conn[handler[s].conn] = "open"
  /\ handler' = Exit(s) /\ conn' = Closed(handler[s].conn)
  /\ UNCHANGED <<running, listening, acc, placing, active, thread_count, stopper>>

\* The request is answered, its error included, and the loop goes on.
Answer(s) ==
  /\ handler[s].pc = "serve"
  /\ handler' = [handler EXCEPT ![s].pc = "check"]
  /\ UNCHANGED <<running, listening, acc, placing, active, thread_count, conn, stopper>>

\* handle_data_write has answered with an error, which it also returns.
AnswerFailedWrite(s) ==
  /\ MemServer /\ handler[s].pc = "serve"
  /\ handler' = Exit(s) /\ conn' = Closed(handler[s].conn)
  /\ UNCHANGED <<running, listening, acc, placing, active, thread_count, stopper>>

\* The client has gone: reading the request or its payload, or the answer, fails.
HandleGone(s) ==
  /\ handler[s].pc \in {"recv", "serve"} /\ conn[handler[s].conn] = "left"
  /\ handler' = Exit(s)
  /\ UNCHANGED <<running, listening, acc, placing, active, thread_count, conn, stopper>>
--------------------------------------------------------------------------------
(* mem_server_stop, meta_server_stop                                       *)

Stop ==
  /\ stopper.pc = "idle" /\ running
  /\ running' = FALSE
  /\ stopper' = [stopper EXCEPT !.pc = "signal"]
  /\ UNCHANGED <<listening, acc, placing, active, thread_count, handler, conn>>

\* Mutant: the listening socket is closed without a shutdown.
CloseListen_no_shutdown ==
  /\ stopper.pc = "signal"
  /\ listening' = "closed"
  /\ stopper' = [stopper EXCEPT !.pc = "join"]
  /\ UNCHANGED <<running, acc, placing, active, thread_count, handler, conn>>

\* The backlog goes with the listening socket, unless accept() still holds it.
CloseListen ==
  /\ stopper.pc = "signal"
  /\ listening' = IF MemServer THEN "shut" ELSE "closed"
  /\ conn' = IF ~MemServer /\ acc = "blocked" THEN conn
             ELSE [k \in Conns |-> IF conn[k] \in {"queued", "abandoned"} THEN "closed"
                                   ELSE conn[k]]
  /\ stopper' = [stopper EXCEPT !.pc = "join"]
  /\ UNCHANGED <<running, acc, placing, active, thread_count, handler>>

\* Mutant: the handler threads are joined while the accept thread still runs.
JoinAccept_skipped ==
  /\ stopper.pc = "join"
  /\ stopper' = [pc |-> "slots", slot |-> 0]
  /\ UNCHANGED <<running, listening, acc, placing, active, thread_count, handler, conn>>

JoinAccept ==
  /\ stopper.pc = "join" /\ acc = "exited"
  /\ stopper' = [pc |-> "slots", slot |-> 0]
  /\ UNCHANGED <<running, listening, acc, placing, active, thread_count, handler, conn>>

\* Joins the handler of one slot if it was started, and goes to the next slot.
JoinHandler ==
  /\ stopper.pc = "slots"
  /\ active[stopper.slot] => handler[stopper.slot].pc = "exited"
  /\ active' = [active EXCEPT ![stopper.slot] = FALSE]
  /\ thread_count' = IF active[stopper.slot] THEN thread_count - 1 ELSE thread_count
  /\ stopper' = IF stopper.slot = MaxThreads - 1 THEN [pc |-> "done", slot |-> 0]
                ELSE [stopper EXCEPT !.slot = @ + 1]
  /\ UNCHANGED <<running, listening, acc, placing, handler, conn>>

AcceptThread ==
  \/ AcceptLoop \/ AcceptCall \/ AcceptWoken \/ RejectFull \/ RejectOther
  \/ \E k \in Conns : AcceptReturns(k)
  \/ \E s \in Slots : Place(s)

Next ==
  \/ \E k \in Conns : Connect(k) \/ Leave(k)
  \/ AcceptThread
  \/ \E s \in Slots :
       HandlerLoop(s) \/ RecvRequest(s) \/ RecvMalformed(s) \/ Answer(s)
         \/ AnswerFailedWrite(s) \/ HandleGone(s)
  \/ Stop \/ CloseListen \/ JoinAccept \/ JoinHandler

Spec == Init /\ [][Next]_vars

\* The threads of the server run; its clients need not do anything, except
\* that with ClientsLeave each closes its connection at some time.
Fairness ==
  /\ WF_vars(AcceptThread)
  /\ \A s \in Slots : WF_vars(HandlerLoop(s) \/ Answer(s) \/ HandleGone(s))
  /\ WF_vars(CloseListen \/ JoinAccept \/ JoinHandler)
  /\ ClientsLeave => \A k \in Conns : WF_vars(Leave(k))

FairSpec == Spec /\ Fairness
--------------------------------------------------------------------------------
Running(s) == handler[s].pc \in {"check", "recv", "serve"}

\* When stop() has returned no thread of the server runs, and none is started
\* later: the caller destroys the service these threads use.
StoppedIsQuiet ==
  stopper.pc = "done" => acc = "exited" /\ \A s \in Slots : ~Running(s)

\* A client is refused for lack of threads only while that many handlers run:
\* the header promises a maximum of concurrent client threads.
RefusedOnlyWhenBusy == [][RejectFull => \A s \in Slots : Running(s)]_vars

\* A handler that has read a well-formed request ends without answering
\* further ones only when its client has gone: an error of the operation is
\* answered on a connection that stays usable.
ErrorsKeepConnection ==
  [][\A s \in Slots : handler[s].pc = "serve" /\ handler'[s].pc = "exited" =>
       conn[handler[s].conn] = "left"]_vars

\* A call of stop() returns: the accept thread and every handler end.
StopReturns == (stopper.pc = "signal") ~> (stopper.pc = "done")
================================================================================
