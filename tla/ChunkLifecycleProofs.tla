----------------------- MODULE ChunkLifecycleProofs -------------------------
(***************************************************************************)
(* Theorems about the chunks of client processes, for every set of         *)
(* clients, pages, contents and names, and any number of lost calls and    *)
(* crashes.                                                                *)
(***************************************************************************)
EXTENDS ChunkLifecycle, TLAPS

Steps == {"idle", "register", "rollback", "free"}

Descriptor == [cid : Nat, page : Pages]

ClientState == [pc : Steps, kind : Kinds, page : Pages \cup {NoPage}, cid : Nat]

Busy(c) == cl[c].pc # "idle"

\* A name tells tier and offset of its page.
NameFits(name, page) ==
  name[2] = page[2] /\ (name[3] = "SSD" <=> page[1] = "SSD")

LifecycleTypes ==
  /\ mem \subseteq Pages
  /\ nextId \in Nat /\ faults \in Nat
  /\ cl \in [Clients -> ClientState]
  /\ held \in [Clients -> SUBSET Descriptor]
  /\ \A c \in Clients : Busy(c) => cl[c].page \in Pages
  /\ \A c \in Clients : cl[c].pc = "register" => cl[c].page[1] = TierOf(cl[c].kind)
  /\ \A e \in reg : e.page \in Pages /\ NameFits(e.name, e.page)
  /\ \A q \in late : q.op = "register" => q.page \in Pages /\ NameFits(q.name, q.page)
  /\ \A q \in late : q.op = "free" => q.page \in Pages

\* A page may be claimed by a descriptor, by a call under way, and by a free
\* that has not arrived yet; no page has two claims, and a claimed page is
\* allocated.
HeldClaims ==
  /\ \A c, x \in Clients : \A d \in held[c], f \in held[x] :
       d.page = f.page \/ d.cid = f.cid => c = x /\ d = f
  /\ \A c \in Clients : \A d \in held[c] : d.page \in mem

BusyClaims ==
  \A c \in Clients : Busy(c) =>
    /\ cl[c].page \in mem
    /\ \A x \in Clients : \A d \in held[x] : d.page # cl[c].page
    /\ \A x \in Clients : Busy(x) /\ cl[x].page = cl[c].page => x = c

FreeClaims ==
  \A q \in late : q.op = "free" =>
    /\ q.page \in mem
    /\ \A x \in Clients : \A d \in held[x] : d.page # q.page
    /\ \A x \in Clients : Busy(x) => cl[x].page # q.page
    /\ \A r \in late : r.op = "free" /\ r.page = q.page => r = q

\* A descriptor is registered under its id, and no unregister that may still
\* arrive has that id.
IdsSound ==
  /\ \A c \in Clients : \A d \in held[c] :
       /\ d.cid < nextId
       /\ \E e \in reg : e.cid = d.cid /\ e.page = d.page
  /\ \A q \in late : q.op = "unregister" =>
       /\ q.cid \in Nat /\ q.cid < nextId
       /\ \A c \in Clients : \A d \in held[c] : d.cid # q.cid

\* While no call is lost every page and every registration has its claimant.
Accounted ==
  faults = 0 =>
    /\ late = {}
    /\ \A p \in mem : \/ \E c \in Clients : \E d \in held[c] : d.page = p
                      \/ \E c \in Clients : Busy(c) /\ cl[c].page = p
    /\ \A e \in reg : \E c \in Clients : \E d \in held[c] :
                        d.cid = e.cid /\ d.page = e.page

LInv == /\ LifecycleTypes /\ HeldClaims /\ BusyClaims /\ FreeClaims
        /\ IdsSound /\ Accounted

-----------------------------------------------------------------------------
LEMMA PageParts ==
  ASSUME NEW p \in Pages, NEW q \in Pages, p[1] = q[1], p[2] = q[2]
  PROVE  p = q
  BY DEF Pages

LEMMA PageTier == ASSUME NEW p \in Pages PROVE p[1] \in {"CXL", "SSD"}
  BY DEF Pages

LEMMA NameOfPage ==
  ASSUME NEW c \in Clients, NEW kind \in Kinds, NEW page \in Pages,
         page[1] = TierOf(kind)
  PROVE  NameFits(ChunkName(c, kind, page[2]), page)
  BY DEF ChunkName, NameFits, TierOf, Kinds

LEMMA InitLInv == Init => LInv
<1> SUFFICES ASSUME Init PROVE LInv
  OBVIOUS
<1>1. Idle \in ClientState
  BY DEF Idle, ClientState, Steps, Kinds
<1>2. \A c \in Clients : cl[c] = Idle /\ held[c] = {} /\ ~Busy(c) /\ cl[c].pc = "idle"
  BY DEF Init, Busy, Idle
<1>3. LifecycleTypes
  BY <1>1, <1>2 DEF Init, LifecycleTypes
<1>. QED
  BY <1>2, <1>3 DEF Init, LInv, HeldClaims, BusyClaims, FreeClaims, IdsSound, Accounted

\* What becomes of the invariant when only memory, registrations and late
\* requests change, as they do when a late request arrives.
LEMMA LateAllocLInv ==
  ASSUME LInv, NEW q \in late, LateAlloc(q), late' = late \ {q},
         UNCHANGED <<cl, held, faults>>
  PROVE  LInv'
<1>1. PICK page \in Pages : mem' = mem \cup {page}
  BY DEF LateAlloc
<1>2. reg' = reg /\ nextId' = nextId /\ faults # 0
  BY DEF LateAlloc, LInv, Accounted
<1>3. LifecycleTypes'
  BY <1>1, <1>2 DEF LInv, LifecycleTypes, Busy
<1>4. HeldClaims' /\ BusyClaims' /\ FreeClaims'
  BY <1>1 DEF LInv, HeldClaims, BusyClaims, FreeClaims, Busy
<1>5. IdsSound' /\ Accounted'
  BY <1>2 DEF LInv, IdsSound, Accounted
<1>. QED
  BY <1>3, <1>4, <1>5 DEF LInv

LEMMA LateRegisterLInv ==
  ASSUME LInv, NEW q \in late, LateRegister(q), late' = late \ {q},
         UNCHANGED <<cl, held, faults>>
  PROVE  LInv'
<1>1. /\ reg' = reg \cup {[cid |-> nextId, name |-> q.name, page |-> q.page]}
      /\ nextId' = nextId + 1 /\ mem' = mem /\ q.op = "register"
  BY DEF LateRegister, Registered
<1>2. faults # 0 /\ nextId \in Nat
  BY DEF LInv, Accounted, LifecycleTypes
<1>3. LifecycleTypes'
  BY <1>1 DEF LInv, LifecycleTypes, Busy
<1>4. HeldClaims' /\ BusyClaims' /\ FreeClaims'
  BY <1>1 DEF LInv, HeldClaims, BusyClaims, FreeClaims, Busy
<1>5. IdsSound'
  <2>1. \A c \in Clients : \A d \in held[c] : d.cid \in Nat
    BY DEF LInv, LifecycleTypes, Descriptor
  <2>. QED
    BY <1>1, <1>2, <2>1 DEF LInv, IdsSound
<1>. QED
  BY <1>2, <1>3, <1>4, <1>5 DEF LInv, Accounted

LEMMA LateUnregisterLInv ==
  ASSUME LInv, NEW q \in late, LateUnregister(q), late' = late \ {q},
         UNCHANGED <<cl, held, faults>>
  PROVE  LInv'
<1>1. /\ reg' = {e \in reg : e.cid # q.cid}
      /\ nextId' = nextId /\ mem' = mem /\ q.op = "unregister"
  BY DEF LateUnregister
<1>2. faults # 0
  BY DEF LInv, Accounted
<1>3. LifecycleTypes'
  BY <1>1 DEF LInv, LifecycleTypes, Busy
<1>4. HeldClaims' /\ BusyClaims' /\ FreeClaims'
  BY <1>1 DEF LInv, HeldClaims, BusyClaims, FreeClaims, Busy
<1>5. IdsSound'
  BY <1>1 DEF LInv, IdsSound
<1>. QED
  BY <1>2, <1>3, <1>4, <1>5 DEF LInv, Accounted

LEMMA LateFreeLInv ==
  ASSUME LInv, NEW q \in late, LateFree(q), late' = late \ {q},
         UNCHANGED <<cl, held, faults>>
  PROVE  LInv'
<1>1. mem' = mem \ {q.page} /\ reg' = reg /\ nextId' = nextId /\ q.op = "free"
  BY DEF LateFree
<1>2. faults # 0
  BY DEF LInv, Accounted
<1>3. LifecycleTypes'
  BY <1>1 DEF LInv, LifecycleTypes, Busy
<1>4. HeldClaims' /\ BusyClaims' /\ FreeClaims'
  BY <1>1 DEF LInv, HeldClaims, BusyClaims, FreeClaims, Busy
<1>5. IdsSound'
  BY <1>1 DEF LInv, IdsSound
<1>. QED
  BY <1>2, <1>3, <1>4, <1>5 DEF LInv, Accounted

LEMMA LateLInv ==
  ASSUME LInv, NEW q \in late, LateRequest(q)
  PROVE  LInv'
  BY LateAllocLInv, LateRegisterLInv, LateUnregisterLInv, LateFreeLInv DEF LateRequest

-----------------------------------------------------------------------------
\* The steps of a client.  In each, s is what the client does next.

LEMMA AllocMemoryLInv ==
  ASSUME LInv, NEW c \in Clients, NEW kind \in Kinds, NEW page \in Pages,
         AllocMemory(c, kind, page)
  PROVE  LInv'
<1> DEFINE s == [Idle EXCEPT !.pc = "register", !.kind = kind, !.page = page]
<1>1. /\ s \in ClientState /\ s.pc = "register" /\ s.kind = kind /\ s.page = page
  BY ZenonT(20) DEF Idle, ClientState, Steps
<1>2. /\ page \notin mem /\ page[1] = TierOf(kind) /\ mem' = mem \cup {page}
      /\ cl' = [cl EXCEPT ![c] = s]
      /\ UNCHANGED <<reg, nextId, held, late, faults>>
  BY DEF AllocMemory
<1>. HIDE DEF s
<1>3. \A x \in Clients : cl'[x] = IF x = c THEN s ELSE cl[x]
  BY <1>2 DEF LInv, LifecycleTypes
<1>4. \A x \in Clients : Busy(x)' <=> (x = c \/ Busy(x))
  BY <1>1, <1>3 DEF Busy
<1>5. LifecycleTypes'
  BY <1>1, <1>2, <1>3, <1>4 DEF LInv, LifecycleTypes
<1>6. HeldClaims' /\ BusyClaims' /\ FreeClaims'
  BY <1>1, <1>2, <1>3, <1>4 DEF LInv, HeldClaims, BusyClaims, FreeClaims
<1>7. IdsSound'
  BY <1>2 DEF LInv, IdsSound
<1>8. Accounted'
  <2>1. c \in Clients /\ Busy(c)' /\ cl'[c].page = page
    BY <1>1, <1>3, <1>4
  <2>2. ~Busy(c)
    BY DEF AllocMemory, Busy
  <2>. QED
    BY <1>2, <1>3, <1>4, <2>1, <2>2 DEF LInv, Accounted
<1>. QED
  BY <1>5, <1>6, <1>7, <1>8 DEF LInv

LEMMA RegisterLInv ==
  ASSUME LInv, NEW c \in Clients, Register(c)
  PROVE  LInv'
<1> DEFINE page == cl[c].page
           name == ChunkName(c, cl[c].kind, page[2])
           new == [cid |-> nextId, page |-> page]
           entry == [cid |-> nextId, name |-> name, page |-> page]
<1>1. /\ Busy(c) /\ page \in Pages /\ nextId \in Nat /\ cl[c].kind \in Kinds
      /\ page[1] = TierOf(cl[c].kind)
  BY DEF Register, LInv, LifecycleTypes, Busy, ClientState
<1>2. /\ reg' = reg \cup {entry} /\ nextId' = nextId + 1
      /\ held' = [held EXCEPT ![c] = @ \cup {new}]
      /\ cl' = [cl EXCEPT ![c] = Idle]
      /\ UNCHANGED <<mem, late, faults>>
  BY DEF Register, Registered
<1>3. NameFits(name, page)
  BY <1>1, NameOfPage
<1>4. /\ new \in Descriptor /\ new.cid = nextId /\ new.page = page
      /\ entry.cid = nextId /\ entry.page = page /\ entry.name = name
      /\ Idle \in ClientState /\ Idle.pc = "idle"
  BY <1>1 DEF Descriptor, Idle, ClientState, Steps, Kinds
<1>. HIDE DEF name, entry, new, page
<1>5. /\ \A x \in Clients : cl'[x] = IF x = c THEN Idle ELSE cl[x]
      /\ \A x \in Clients : held'[x] = IF x = c THEN held[x] \cup {new} ELSE held[x]
  BY ZenonT(20), <1>2 DEF LInv, LifecycleTypes
<1>6. \A x \in Clients : Busy(x)' <=> (x # c /\ Busy(x))
  BY <1>4, <1>5 DEF Busy
<1>7. LifecycleTypes'
  BY <1>1, <1>2, <1>3, <1>4, <1>5, <1>6 DEF LInv, LifecycleTypes
<1>8. \A x \in Clients : \A d \in held[x] : d.cid \in Nat /\ d.cid < nextId /\ d.page # page
  BY <1>1 DEF LInv, LifecycleTypes, IdsSound, BusyClaims, Descriptor, page
<1>9. HeldClaims'
  <2>1. page \in mem
    BY <1>1 DEF LInv, BusyClaims, page
  <2>. QED
    BY <1>1, <1>2, <1>4, <1>5, <1>8, <2>1 DEF LInv, HeldClaims
<1>10. BusyClaims'
  BY <1>1, <1>2, <1>4, <1>5, <1>6 DEF LInv, BusyClaims, page
<1>11. FreeClaims'
  BY <1>1, <1>2, <1>4, <1>5, <1>6 DEF LInv, FreeClaims, page
<1>12. IdsSound'
  BY <1>1, <1>2, <1>4, <1>5, <1>8 DEF LInv, IdsSound
<1>13. Accounted'
  <2>1. new \in held'[c]
    BY ZenonT(20), <1>5
  <2>2. \A x \in Clients : held[x] \subseteq held'[x]
    BY ZenonT(20), <1>5
  <2>3. \A x \in Clients : Busy(x) => x = c \/ (Busy(x)' /\ cl'[x] = cl[x])
    BY <1>5, <1>6
  <2>. QED
    BY <1>2, <1>4, <2>1, <2>2, <2>3 DEF LInv, Accounted, page
<1>. QED
  BY <1>7, <1>9, <1>10, <1>11, <1>12, <1>13 DEF LInv

\* The registration failed, whether ummd refused or its answer was lost.
LEMMA RegisterFailsLInv ==
  ASSUME LInv, NEW c \in Clients, RegisterFails(c) \/ RegisterBroken(c)
  PROVE  LInv'
<1> DEFINE s == [cl[c] EXCEPT !.pc = "rollback"]
<1>1. /\ cl[c].pc = "register" /\ Busy(c) /\ cl[c] \in ClientState
      /\ cl[c].page \in Pages /\ cl[c].page[1] = TierOf(cl[c].kind)
  BY DEF RegisterFails, RegisterBroken, Busy, LInv, LifecycleTypes
<1>2. /\ s \in ClientState /\ s.pc = "rollback" /\ s.page = cl[c].page
  BY <1>1 DEF ClientState, Steps
<1>3. cl' = [cl EXCEPT ![c] = s] /\ UNCHANGED <<mem, reg, nextId, held>>
  BY DEF RegisterFails, RegisterBroken, Broken
<1>. HIDE DEF s
<1>4. \A x \in Clients : cl'[x] = IF x = c THEN s ELSE cl[x]
  BY <1>3 DEF LInv, LifecycleTypes
<1>5. \A x \in Clients : /\ Busy(x)' <=> Busy(x)
                         /\ cl'[x].page = cl[x].page
  BY <1>1, <1>2, <1>4 DEF Busy
<1>6. /\ late' = late /\ faults' = faults
      \/ \E q : /\ late' = late \cup {q} /\ faults' = faults + 1 /\ q.op = "register"
                /\ NameFits(q.name, q.page) /\ q.page \in Pages
  <2>1. CASE RegisterFails(c)
    BY <2>1 DEF RegisterFails
  <2>2. CASE RegisterBroken(c)
    <3> DEFINE name == ChunkName(c, cl[c].kind, cl[c].page[2])
               q == [op |-> "register", client |-> c, page |-> cl[c].page, name |-> name]
    <3>1. late' = late \cup {q} /\ faults' = faults + 1
      BY <2>2 DEF RegisterBroken, Broken
    <3>2. NameFits(name, cl[c].page)
      BY <1>1, NameOfPage DEF ClientState
    <3>3. q.op = "register" /\ q.name = name /\ q.page = cl[c].page
      OBVIOUS
    <3>. HIDE DEF q, name
    <3>. QED
      BY <1>1, <3>1, <3>2, <3>3
  <2>. QED
    BY <2>1, <2>2
<1>7. LifecycleTypes'
  BY <1>2, <1>3, <1>4, <1>5, <1>6 DEF LInv, LifecycleTypes
<1>8. HeldClaims' /\ BusyClaims' /\ FreeClaims' /\ IdsSound'
  BY <1>3, <1>5, <1>6 DEF LInv, HeldClaims, BusyClaims, FreeClaims, IdsSound
<1>9. Accounted'
  BY <1>3, <1>5, <1>6 DEF LInv, LifecycleTypes, Accounted
<1>. QED
  BY <1>7, <1>8, <1>9 DEF LInv

LEMMA AllocBrokenLInv ==
  ASSUME LInv, NEW c \in Clients, NEW kind \in Kinds, AllocBroken(c, kind)
  PROVE  LInv'
<1> DEFINE q == [op |-> "alloc", client |-> c, kind |-> kind]
<1>1. /\ late' = late \cup {q} /\ faults' = faults + 1 /\ q.op = "alloc"
      /\ UNCHANGED <<mem, reg, nextId, cl, held>>
  BY DEF AllocBroken, Broken
<1>. HIDE DEF q
<1>2. LifecycleTypes' /\ faults' # 0
  BY <1>1 DEF LInv, LifecycleTypes, Busy
<1>3. HeldClaims' /\ BusyClaims' /\ FreeClaims' /\ IdsSound'
  BY <1>1 DEF LInv, HeldClaims, BusyClaims, FreeClaims, IdsSound, Busy
<1>. QED
  BY <1>2, <1>3 DEF LInv, Accounted

\* The memory of a client's call goes back.
LEMMA GiveBackLInv ==
  ASSUME LInv, NEW c \in Clients, Rollback(c) \/ Free(c)
  PROVE  LInv'
<1> DEFINE page == cl[c].page
<1>1. /\ Busy(c) /\ mem' = mem \ {page} /\ cl' = [cl EXCEPT ![c] = Idle]
      /\ UNCHANGED <<reg, nextId, held, late, faults>>
  BY DEF Rollback, Free, Busy
<1>2. Idle \in ClientState /\ Idle.pc = "idle"
  BY DEF Idle, ClientState, Steps, Kinds
<1>3. \A x \in Clients : cl'[x] = IF x = c THEN Idle ELSE cl[x]
  BY <1>1 DEF LInv, LifecycleTypes
<1>4. \A x \in Clients : Busy(x)' <=> (x # c /\ Busy(x))
  BY <1>2, <1>3 DEF Busy
<1>5. LifecycleTypes'
  BY <1>1, <1>2, <1>3, <1>4 DEF LInv, LifecycleTypes
<1>6. HeldClaims' /\ BusyClaims' /\ FreeClaims'
  BY <1>1, <1>3, <1>4 DEF LInv, HeldClaims, BusyClaims, FreeClaims
<1>7. IdsSound' /\ Accounted'
  BY <1>1, <1>3, <1>4 DEF LInv, IdsSound, Accounted
<1>. QED
  BY <1>5, <1>6, <1>7 DEF LInv

\* The claim passes from the client to the late request.
LEMMA FreeBrokenLInv ==
  ASSUME LInv, NEW c \in Clients, FreeBroken(c)
  PROVE  LInv'
<1> DEFINE page == cl[c].page
           q == [op |-> "free", client |-> c, page |-> page]
<1>1. /\ Busy(c) /\ late' = late \cup {q} /\ faults' = faults + 1
      /\ cl' = [cl EXCEPT ![c] = Idle]
      /\ UNCHANGED <<mem, reg, nextId, held>>
  BY DEF FreeBroken, Broken, Busy
<1>2. /\ Idle \in ClientState /\ Idle.pc = "idle"
      /\ q.op = "free" /\ q.page = page
  BY DEF Idle, ClientState, Steps, Kinds
<1>. HIDE DEF q
<1>3. \A x \in Clients : cl'[x] = IF x = c THEN Idle ELSE cl[x]
  BY <1>1 DEF LInv, LifecycleTypes
<1>4. \A x \in Clients : Busy(x)' <=> (x # c /\ Busy(x))
  BY <1>2, <1>3 DEF Busy
<1>5. LifecycleTypes' /\ faults' # 0
  BY <1>1, <1>2, <1>3, <1>4 DEF LInv, LifecycleTypes
<1>6. HeldClaims' /\ BusyClaims'
  BY <1>1, <1>3, <1>4 DEF LInv, HeldClaims, BusyClaims
<1>7. FreeClaims'
  BY <1>1, <1>2, <1>3, <1>4 DEF LInv, BusyClaims, FreeClaims
<1>8. IdsSound'
  BY <1>1, <1>2 DEF LInv, IdsSound
<1>. QED
  BY <1>5, <1>6, <1>7, <1>8 DEF LInv, Accounted

\* The first step of umm_free: the claim passes from the descriptor to the call.
LEMMA UnregisterLInv ==
  ASSUME LInv, NEW c \in Clients, NEW d \in held[c],
         Unregister(c, d) \/ UnregisterBroken(c, d)
  PROVE  LInv'
<1> DEFINE s == [Idle EXCEPT !.pc = "free", !.page = d.page, !.cid = d.cid]
           q == [op |-> "unregister", client |-> c, cid |-> d.cid]
<1>1. d \in Descriptor /\ d.cid \in Nat /\ d.page \in Pages
  BY DEF LInv, LifecycleTypes, Descriptor
<1>2. /\ ~Busy(c) /\ held' = [held EXCEPT ![c] = @ \ {d}]
      /\ cl' = [cl EXCEPT ![c] = s] /\ UNCHANGED <<mem, nextId>>
  BY DEF Unregister, UnregisterBroken, Broken, Busy
<1>3. \/ reg' = {e \in reg : e.cid # d.cid} /\ UNCHANGED <<late, faults>>
      \/ late' = late \cup {q} /\ faults' = faults + 1 /\ reg' = reg
  BY DEF Unregister, UnregisterBroken, Broken
<1>4. /\ s \in ClientState /\ s.pc = "free" /\ s.page = d.page
      /\ q.op = "unregister" /\ q.cid = d.cid
  BY ZenonT(20), <1>1 DEF Idle, ClientState, Steps, Kinds
<1>. HIDE DEF s, q
<1>5. /\ \A x \in Clients : cl'[x] = IF x = c THEN s ELSE cl[x]
      /\ \A x \in Clients : held'[x] = IF x = c THEN held[x] \ {d} ELSE held[x]
  BY ZenonT(20), <1>2 DEF LInv, LifecycleTypes
<1>6. \A x \in Clients : Busy(x)' <=> (x = c \/ Busy(x))
  BY <1>4, <1>5 DEF Busy
<1>7. LifecycleTypes'
  BY <1>1, <1>2, <1>3, <1>4, <1>5, <1>6 DEF LInv, LifecycleTypes
<1>8. HeldClaims'
  BY <1>2, <1>5 DEF LInv, HeldClaims
<1>9. \A x \in Clients : \A f \in held'[x] : f \in held[x] /\ f.page # d.page /\ f.cid # d.cid
  <2> TAKE x \in Clients
  <2> TAKE f \in held'[x]
  <2>1. f \in held[x] /\ (x = c => f # d)
    BY ZenonT(20), <1>5
  <2>. QED
    BY <2>1 DEF LInv, HeldClaims
<1>10. BusyClaims'
  <2>1. d.page \in mem
    BY DEF LInv, HeldClaims
  <2>2. \A x \in Clients : Busy(x) => cl[x].page # d.page
    BY DEF LInv, BusyClaims
  <2>. QED
    BY <1>2, <1>4, <1>5, <1>6, <1>9, <2>1, <2>2 DEF LInv, BusyClaims
<1>11. FreeClaims'
  BY <1>2, <1>3, <1>4, <1>5, <1>6, <1>9 DEF LInv, FreeClaims
<1>12. IdsSound'
  <2>1. d.cid < nextId
    BY DEF LInv, IdsSound
  <2>. QED
    BY <1>1, <1>2, <1>3, <1>4, <1>9, <2>1 DEF LInv, IdsSound
<1>13. Accounted'
  <2> SUFFICES ASSUME faults' = 0 PROVE Accounted'
    BY DEF Accounted
  <2>1. faults = 0 /\ late' = late /\ reg' = {e \in reg : e.cid # d.cid}
    BY <1>3 DEF LInv, LifecycleTypes
  <2>2. Busy(c)' /\ cl'[c].page = d.page
    BY <1>4, <1>5, <1>6
  <2>3. \A x \in Clients : Busy(x) => Busy(x)' /\ cl'[x] = cl[x]
    BY <1>2, <1>5, <1>6
  <2>4. \A x \in Clients : \A f \in held[x] : f \in held'[x] \/ f = d
    BY ZenonT(20), <1>5
  <2>. QED
    BY <1>2, <2>1, <2>2, <2>3, <2>4 DEF LInv, Accounted
<1>. QED
  BY <1>7, <1>8, <1>10, <1>11, <1>12, <1>13 DEF LInv

LEMMA CrashLInv ==
  ASSUME LInv, NEW c \in Clients, Crash(c)
  PROVE  LInv'
<1>1. /\ cl' = [cl EXCEPT ![c] = Idle] /\ held' = [held EXCEPT ![c] = {}]
      /\ faults' = faults + 1 /\ UNCHANGED <<mem, reg, nextId, late>>
  BY DEF Crash
<1>2. Idle \in ClientState /\ Idle.pc = "idle"
  BY DEF Idle, ClientState, Steps, Kinds
<1>3. /\ \A x \in Clients : cl'[x] = IF x = c THEN Idle ELSE cl[x]
      /\ \A x \in Clients : held'[x] = IF x = c THEN {} ELSE held[x]
  BY <1>1 DEF LInv, LifecycleTypes
<1>4. \A x \in Clients : Busy(x)' <=> (x # c /\ Busy(x))
  BY <1>2, <1>3 DEF Busy
<1>5. LifecycleTypes' /\ faults' # 0
  BY SMTT(20), <1>1, <1>2, <1>3, <1>4 DEF LInv, LifecycleTypes
<1>6. HeldClaims' /\ BusyClaims' /\ FreeClaims'
  BY <1>1, <1>3, <1>4 DEF LInv, HeldClaims, BusyClaims, FreeClaims
<1>7. IdsSound'
  BY SMTT(20), <1>1, <1>3 DEF LInv, IdsSound
<1>. QED
  BY <1>5, <1>6, <1>7 DEF LInv, Accounted

LEMMA UnchangedLInv == ASSUME LInv, UNCHANGED vars PROVE LInv'
<1>1. LifecycleTypes'
  BY DEF vars, LInv, LifecycleTypes, Busy
<1>2. HeldClaims' /\ BusyClaims' /\ FreeClaims'
  BY DEF vars, LInv, HeldClaims, BusyClaims, FreeClaims, Busy
<1>3. IdsSound' /\ Accounted'
  BY DEF vars, LInv, IdsSound, Accounted, Busy
<1>. QED
  BY <1>1, <1>2, <1>3 DEF LInv

LEMMA ClientStepLInv ==
  ASSUME LInv, NEW c \in Clients, ClientStep(c)
  PROVE  LInv'
<1>1. ASSUME NEW kind \in Kinds, AllocRefused(c, kind) PROVE LInv'
  BY <1>1, UnchangedLInv DEF AllocRefused
<1>. QED
  BY ZenonT(20), <1>1, AllocMemoryLInv, AllocBrokenLInv, RegisterLInv, RegisterFailsLInv,
     GiveBackLInv, FreeBrokenLInv, UnregisterLInv DEF ClientStep

LEMMA NextLInv == LInv /\ [Next]_vars => LInv'
  BY LateLInv, ClientStepLInv, CrashLInv, UnchangedLInv DEF Next

LEMMA LInvSound == LInv => HoldingsSound /\ NothingLeaks
<1> SUFFICES ASSUME LInv PROVE HoldingsSound /\ NothingLeaks
  OBVIOUS
<1>1. \A h \in AllHeld : h[1] \in Clients /\ h[2] \in held[h[1]] /\ h = <<h[1], h[2]>>
  BY DEF AllHeld
<1>2. HeldExclusive
  BY <1>1 DEF LInv, HeldClaims, HeldExclusive
<1>3. HeldBacked
  BY <1>1 DEF LInv, HeldClaims, IdsSound, HeldBacked
<1>4. NamesFollowMemory
  <2> SUFFICES ASSUME faults = 0, NEW c \in Clients, cl[c].pc = "register",
                      NEW e \in reg, e.name = ChunkName(c, cl[c].kind, cl[c].page[2])
               PROVE  FALSE
    BY SMTT(20) DEF NamesFollowMemory, NameTaken
  <2>1. /\ Busy(c) /\ cl[c].page \in Pages /\ cl[c].kind \in Kinds
        /\ cl[c].page[1] = TierOf(cl[c].kind)
    BY DEF LInv, LifecycleTypes, Busy, ClientState
  <2>2. NameFits(e.name, cl[c].page)
    BY <2>1, NameOfPage
  <2>3. e.page \in Pages /\ NameFits(e.name, e.page)
    BY DEF LInv, LifecycleTypes
  <2>4. e.page = cl[c].page
    BY ZenonT(20), <2>1, <2>2, <2>3, PageParts, PageTier DEF NameFits
  <2>5. PICK x \in Clients : \E d \in held[x] : d.page = e.page
    BY DEF LInv, Accounted
  <2>. QED
    BY <2>1, <2>4, <2>5 DEF LInv, BusyClaims
<1>5. ASSUME faults = 0, Quiet
      PROVE  /\ mem = {h[2].page : h \in AllHeld}
             /\ {e.cid : e \in reg} = {h[2].cid : h \in AllHeld}
  <2>1. \A c \in Clients : \A d \in held[c] : <<c, d>> \in AllHeld
    BY DEF AllHeld
  <2>2. \A p \in mem : \E h \in AllHeld : h[2].page = p
    <3>1. \A p \in mem : \E c \in Clients : \E d \in held[c] : d.page = p
      BY <1>5 DEF Quiet, Busy, LInv, Accounted
    <3>. QED
      BY ZenonT(20), <2>1, <3>1
  <2>3. \A e \in reg : \E h \in AllHeld : h[2].cid = e.cid
    BY ZenonT(20), <1>5, <2>1 DEF LInv, Accounted
  <2>4. \A h \in AllHeld : h[2].page \in mem /\ \E e \in reg : e.cid = h[2].cid
    BY <1>3 DEF HeldBacked
  <2>. QED
    BY <2>2, <2>3, <2>4
<1>. QED
  BY ZenonT(20), <1>2, <1>3, <1>4, <1>5 DEF HoldingsSound, NothingLeaks

\* What clients hold is theirs alone, allocated and registered, whatever calls
\* were lost or executed late and whichever clients crashed.
THEOREM LifecycleHoldingsSound == Spec => []HoldingsSound
  BY InitLInv, NextLInv, LInvSound, PTL DEF Spec

\* While no call is lost nothing leaks and no name refuses the next owner.
THEOREM LifecycleNothingLeaks == Spec => []NothingLeaks
  BY InitLInv, NextLInv, LInvSound, PTL DEF Spec
=============================================================================
