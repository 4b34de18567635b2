---------------------------- MODULE ChunkLifecycle ----------------------------
(***************************************************************************)
(* umm_alloc, umm_alloc_tiered and umm_free (client_lib/umm_api.c) of      *)
(* several client processes against one memory server (umms) and one       *)
(* metadata server (ummd).                                                 *)
(*                                                                         *)
(* An allocation takes memory from umms, registers a chunk named after its *)
(* offset with ummd and gives the memory back when the registration fails; *)
(* a free does it in the other order.  Each of these is one remote call:   *)
(* the client holds the lock of the connection and waits, the server runs  *)
(* the request under its own lock.  A connection may break while a client  *)
(* waits.  The client then sees an error, and its request, kept in late,   *)
(* is executed at any later time or never.  A client may also crash; the   *)
(* servers keep what it held.                                              *)
(*                                                                         *)
(* A chunk is one page: larger ones differ in the allocators only, which   *)
(* BitmapAllocator and SsdPool model.                                      *)
(***************************************************************************)
EXTENDS Integers, FiniteSets

CONSTANTS
  Clients,
  NodeOf,      \* my_node_id of a client
  Offsets,     \* pages of each tier
  MaxIds,      \* bound on the chunk ids handed out
  MaxFaults    \* bound on broken connections and crashes

ASSUME LifecycleConstants ==
  /\ NodeOf \in [Clients -> Nat]
  /\ Offsets \subseteq Nat
  /\ MaxIds \in Nat /\ MaxFaults \in Nat

\* The three entry points that differ in tier or in name.
Kinds == {"alloc", "tiered_cxl", "tiered_ssd"}

TierOf(kind) == IF kind = "tiered_ssd" THEN "SSD" ELSE "CXL"

\* The name of a chunk: chunk_<node>_<offset>, with _tier<t> for the tiered calls.
ChunkName(c, kind, off) ==
  <<NodeOf[c], off, IF kind = "alloc" THEN "none" ELSE TierOf(kind)>>

Pages == {"CXL", "SSD"} \X Offsets

VARIABLES
  mem,     \* umms: pages handed out
  reg,     \* ummd: registered chunks [cid, name, page]
  nextId,  \* ummd: next_chunk_id
  cl,      \* what each client is doing
  held,    \* descriptors each client holds [cid, page]
  late,    \* requests whose client has given up
  faults

vars == <<mem, reg, nextId, cl, held, late, faults>>

NoPage == <<"none", 0>>

Idle == [pc |-> "idle", kind |-> "alloc", page |-> NoPage, cid |-> 0]

Init ==
  /\ mem = {} /\ reg = {} /\ nextId = 1
  /\ cl = [c \in Clients |-> Idle]
  /\ held = [c \in Clients |-> {}]
  /\ late = {} /\ faults = 0
-------------------------------------------------------------------------------
(* The servers.                                                            *)

NameTaken(name) == \E e \in reg : e.name = name

Registered(name, page) ==
  /\ nextId <= MaxIds
  /\ nextId' = nextId + 1
  /\ reg' = reg \cup {[cid |-> nextId, name |-> name, page |-> page]}

\* An unanswered request reaches its server after all.
LateAlloc(q) ==
  /\ q.op = "alloc"
  /\ \E page \in {p \in Pages \ mem : p[1] = TierOf(q.kind)} : mem' = mem \cup {page}
  /\ UNCHANGED <<reg, nextId>>

LateRegister(q) ==
  /\ q.op = "register" /\ ~NameTaken(q.name)
  /\ Registered(q.name, q.page)
  /\ UNCHANGED mem

LateUnregister(q) ==
  /\ q.op = "unregister"
  /\ reg' = {e \in reg : e.cid # q.cid}
  /\ UNCHANGED <<mem, nextId>>

LateFree(q) ==
  /\ q.op = "free"
  /\ mem' = mem \ {q.page}
  /\ UNCHANGED <<reg, nextId>>

LateRequest(q) ==
  /\ LateAlloc(q) \/ LateRegister(q) \/ LateUnregister(q) \/ LateFree(q)
  /\ late' = late \ {q}
  /\ UNCHANGED <<cl, held, faults>>
-------------------------------------------------------------------------------
(* umm_alloc and alloc_tier_impl.                                          *)

\* The connection breaks while c waits for the answer to q.
Broken(q) ==
  /\ faults < MaxFaults
  /\ faults' = faults + 1
  /\ late' = late \cup {q}
  /\ UNCHANGED <<mem, reg, nextId>>

\* Step 1: memory from umms.
AllocMemory(c, kind, page) ==
  /\ cl[c].pc = "idle"
  /\ page \in Pages \ mem /\ page[1] = TierOf(kind)
  /\ mem' = mem \cup {page}
  /\ cl' = [cl EXCEPT ![c] = [Idle EXCEPT !.pc = "register", !.kind = kind, !.page = page]]
  /\ UNCHANGED <<reg, nextId, held, late, faults>>

\* umms has no page left: UMM_E_NO_MEMORY, and nothing has changed.
AllocRefused(c, kind) ==
  /\ cl[c].pc = "idle"
  /\ \A page \in Pages \ mem : page[1] # TierOf(kind)
  /\ UNCHANGED vars

AllocBroken(c, kind) ==
  /\ cl[c].pc = "idle"
  /\ Broken([op |-> "alloc", client |-> c, kind |-> kind])
  /\ UNCHANGED <<cl, held>>

\* Steps 3 and 4: registration, and the descriptor.
Register(c) ==
  LET me == cl[c]
      name == ChunkName(c, me.kind, me.page[2])
  IN /\ me.pc = "register" /\ ~NameTaken(name)
     /\ Registered(name, me.page)
     /\ held' = [held EXCEPT ![c] = @ \cup {[cid |-> nextId, page |-> me.page]}]
     /\ cl' = [cl EXCEPT ![c] = Idle]
     /\ UNCHANGED <<mem, late, faults>>

\* ummd refuses: the name exists, or it is out of memory.
RegisterFails(c) ==
  /\ cl[c].pc = "register"
  /\ cl' = [cl EXCEPT ![c].pc = "rollback"]
  /\ UNCHANGED <<mem, reg, nextId, held, late, faults>>

RegisterBroken(c) ==
  /\ cl[c].pc = "register"
  /\ Broken([op |-> "register", client |-> c, page |-> cl[c].page,
             name |-> ChunkName(c, cl[c].kind, cl[c].page[2])])
  /\ cl' = [cl EXCEPT ![c].pc = "rollback"]
  /\ UNCHANGED held

\* Mutant: a failed registration gives nothing back.
Rollback_none(c) ==
  /\ cl[c].pc = "rollback"
  /\ cl' = [cl EXCEPT ![c] = Idle]
  /\ UNCHANGED <<mem, reg, nextId, held, late, faults>>

\* The memory goes back; the result of that call is not looked at.
Rollback(c) ==
  /\ cl[c].pc = "rollback"
  /\ mem' = mem \ {cl[c].page}
  /\ cl' = [cl EXCEPT ![c] = Idle]
  /\ UNCHANGED <<reg, nextId, held, late, faults>>
-------------------------------------------------------------------------------
(* umm_free.                                                               *)

\* Step 1: unregister; a failure is remembered and the free goes on.
Unregister(c, d) ==
  /\ cl[c].pc = "idle" /\ d \in held[c]
  /\ reg' = {e \in reg : e.cid # d.cid}
  /\ held' = [held EXCEPT ![c] = @ \ {d}]
  /\ cl' = [cl EXCEPT ![c] = [Idle EXCEPT !.pc = "free", !.page = d.page, !.cid = d.cid]]
  /\ UNCHANGED <<mem, nextId, late, faults>>

UnregisterBroken(c, d) ==
  /\ cl[c].pc = "idle" /\ d \in held[c]
  /\ Broken([op |-> "unregister", client |-> c, cid |-> d.cid])
  /\ held' = [held EXCEPT ![c] = @ \ {d}]
  /\ cl' = [cl EXCEPT ![c] = [Idle EXCEPT !.pc = "free", !.page = d.page, !.cid = d.cid]]

\* Step 2: the memory; the descriptor is zeroed whatever the outcome.
Free(c) ==
  /\ cl[c].pc = "free"
  /\ mem' = mem \ {cl[c].page}
  /\ cl' = [cl EXCEPT ![c] = Idle]
  /\ UNCHANGED <<reg, nextId, held, late, faults>>

\* Mutant: the descriptor survives a failed free, and the caller frees again.
FreeBroken_keeps(c) ==
  /\ cl[c].pc \in {"free", "rollback"}
  /\ Broken([op |-> "free", client |-> c, page |-> cl[c].page])
  /\ cl' = [cl EXCEPT ![c] = Idle]
  /\ held' = [held EXCEPT ![c] = @ \cup {[cid |-> cl[c].cid, page |-> cl[c].page]}]

\* The last call of umm_free, or of a rollback, gets no answer.
FreeBroken(c) ==
  /\ cl[c].pc \in {"free", "rollback"}
  /\ Broken([op |-> "free", client |-> c, page |-> cl[c].page])
  /\ cl' = [cl EXCEPT ![c] = Idle]
  /\ UNCHANGED held

\* The process dies; nothing tells the servers.
Crash(c) ==
  /\ faults < MaxFaults
  /\ faults' = faults + 1
  /\ cl' = [cl EXCEPT ![c] = Idle]
  /\ held' = [held EXCEPT ![c] = {}]
  /\ UNCHANGED <<mem, reg, nextId, late>>

ClientStep(c) ==
  \/ \E kind \in Kinds :
       \/ \E page \in Pages : AllocMemory(c, kind, page)
       \/ AllocRefused(c, kind) \/ AllocBroken(c, kind)
  \/ Register(c) \/ RegisterFails(c) \/ RegisterBroken(c)
  \/ Rollback(c) \/ Free(c) \/ FreeBroken(c)
  \/ \E d \in held[c] : Unregister(c, d) \/ UnregisterBroken(c, d)

Next ==
  \/ \E q \in late : LateRequest(q)
  \/ \E c \in Clients : ClientStep(c) \/ Crash(c)

Spec == Init /\ [][Next]_vars
-------------------------------------------------------------------------------
\* The descriptors of all clients, with their holders.
AllHeld == UNION {{<<c, d>> : d \in held[c]} : c \in Clients}

Quiet == late = {} /\ \A c \in Clients : cl[c].pc = "idle"

\* No two descriptors in the hands of clients name the same page, whatever
\* calls were lost or executed late and whichever clients crashed.
HeldExclusive == \A g, h \in AllHeld : g[2].page = h[2].page => g = h

\* A page named by a descriptor is allocated at umms and registered at ummd
\* under the id of the descriptor: a lookup of its name leads to its holder.
HeldBacked ==
  \A h \in AllHeld :
    /\ h[2].page \in mem
    /\ \E e \in reg : e.cid = h[2].cid /\ e.page = h[2].page

\* What clients hold is theirs and real, through lost calls, late execution and
\* crashes of others.
HoldingsSound == HeldExclusive /\ HeldBacked

\* While no call is lost, a page fresh from umms has a name nobody uses:
\* umm_free unregisters a chunk before its memory can be handed out again.
NamesFollowMemory ==
  faults = 0 => \A c \in Clients : cl[c].pc = "register" =>
    ~NameTaken(ChunkName(c, cl[c].kind, cl[c].page[2]))

\* While no call is lost, idle clients hold exactly what umms has handed out
\* and what ummd has registered: failed allocations and frees leave nothing,
\* neither memory nor a name that refuses the next owner of a page.
NothingLeaks ==
  /\ NamesFollowMemory
  /\ faults = 0 /\ Quiet =>
       /\ mem = {h[2].page : h \in AllHeld}
       /\ {e.cid : e \in reg} = {h[2].cid : h \in AllHeld}

\* After a registration failed and was rolled back the memory is available
\* again: a free page has no registration left that would refuse its next owner.
AvailableAfterRollback ==
  Quiet => \A e \in reg : e.page \in mem
===============================================================================
