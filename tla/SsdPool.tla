------------------------------- MODULE SsdPool -------------------------------
(***************************************************************************)
(* The pool that joins up to 16 SSD devices into one virtual address space *)
(* (umm/src/transport/ssd_pool.c, second half): devices are added while    *)
(* extents are live, extents are allocated anywhere in the space or on one *)
(* device, and every access translates a virtual offset to a device and a  *)
(* physical offset.  Every call holds the pool's lock and is one action.   *)
(***************************************************************************)
EXTENDS FirstFit, FiniteSets, Sequences

CONSTANTS PageSize,    \* SSD_POOL_PAGE_SIZE
          WordSize,    \* 2^64 in the code
          MaxDevices,  \* SSD_POOL_MAX_DEVICES
          MaxBytes,    \* bound on the pool: what the devices can hold together
          Capacities,  \* the capacities callers configure, in bytes
          Requests     \* the byte counts callers pass

ASSUME PoolConstants ==
  /\ PageSize \in Nat \ {0}
  /\ WordSize \in Nat /\ MaxDevices \in Nat /\ MaxBytes \in Nat
  /\ MaxBytes < WordSize
  /\ Capacities \subseteq Nat
  /\ Requests \subseteq 0 .. (WordSize - 1)

VARIABLES devices,         \* pool->devices[0 .. num_devices - 1], as a sequence
          total_capacity,  \* pool->total_capacity
          total_pages,     \* pool->total_pages
          free_pages,      \* pool->free_pages
          bitmap,          \* the set of 1 bits: the allocated pages
          live,            \* the extents granted and not yet freed
          ret              \* the last call and its result

vars == <<devices, total_capacity, total_pages, free_pages, bitmap, live, ret>>

Pages == 0 .. (total_pages - 1)
Dev == 1 .. Len(devices)
AnyDevice == 0   \* the device of an extent that may lie anywhere

PageCount(n) == ((n + PageSize - 1) % WordSize) \div PageSize

\* (capacity + page - 1) & ~(page - 1), which a file backend then reports.
RoundUp(c) == ((c + PageSize - 1) \div PageSize) * PageSize

bm_find_free(start, end, npages) ==
  IF npages = 0 THEN end
  ELSE FirstFitFrom((0 .. (end - 1)) \ bitmap, start, end, npages)

ExtentPages(e) == Span(e.page, PageCount(e.bytes))

\* ssd_pool_translate: the first device whose window holds the offset, or
\* AnyDevice for INVALID_ARG.
Holding(voffset) ==
  { d \in Dev : /\ devices[d].virtual_base <= voffset
                /\ voffset < devices[d].virtual_base + devices[d].capacity }

ssd_pool_translate(voffset) ==
  IF voffset >= total_capacity \/ Holding(voffset) = {}
  THEN [dev |-> AnyDevice, poff |-> 0]
  ELSE LET d == CHOOSE d \in Holding(voffset) :
                  \A x \in Holding(voffset) : d <= x
       IN [dev |-> d, poff |-> voffset - devices[d].virtual_base]

\* ssd_pool_span_in_one_device: the mapped pointer may be used for len bytes.
ssd_pool_span_in_one_device(voffset, len) ==
  LET t == ssd_pool_translate(voffset)
  IN /\ len # 0 /\ t.dev # AnyDevice
     /\ len <= devices[t.dev].virtual_base + devices[t.dev].capacity - voffset

Init ==
  /\ devices = << >>
  /\ total_capacity = 0 /\ total_pages = 0 /\ free_pages = 0
  /\ bitmap = {} /\ live = {}
  /\ ret = [op |-> "create", dev |-> AnyDevice, bytes |-> 0, rc |-> "OK"]

-----------------------------------------------------------------------------
\* The fields add_device sets for a device of c bytes once its backend is open.
Install(base, c, gained) ==
  /\ devices' = Append(devices, [virtual_base |-> base, capacity |-> c])
  /\ total_capacity' = total_capacity + c
  /\ total_pages' = (total_capacity + c) \div PageSize
  /\ free_pages' = free_pages + gained
  /\ ret' = [op |-> "add", dev |-> AnyDevice, bytes |-> 0, rc |-> "OK"]
  /\ UNCHANGED live

\* A file needs a capacity.
Openable(c) == c > 0 /\ total_capacity + RoundUp(c) <= MaxBytes

\* Mutant: the grown bitmap starts empty.
ssd_pool_add_device_ok_fresh_bitmap(c) ==
  /\ Len(devices) < MaxDevices /\ Openable(c)
  /\ Install(total_capacity, RoundUp(c), RoundUp(c) \div PageSize)
  /\ bitmap' = {}

ssd_pool_add_device_ok(c) ==
  /\ Len(devices) < MaxDevices /\ Openable(c)
  /\ Install(total_capacity, RoundUp(c), RoundUp(c) \div PageSize)
  /\ UNCHANGED bitmap   \* the old bits are copied

\* Mutant: the rollback runs although the entry was not counted yet.
ssd_pool_add_device_rollback_early(c) ==
  /\ Len(devices) \in 1 .. (MaxDevices - 1) /\ Openable(c)
  /\ devices' = SubSeq(devices, 1, Len(devices) - 1)
  /\ total_capacity' = total_capacity - devices[Len(devices)].capacity
  /\ ret' = [op |-> "add", dev |-> AnyDevice, bytes |-> 0, rc |-> "NO_MEMORY"]
  /\ UNCHANGED <<total_pages, free_pages, bitmap, live>>

\* The entry was filled in and counted when the larger bitmap cannot be
\* allocated: num_devices and total_capacity are taken back.
ssd_pool_add_device_rollback(c) ==
  LET filled  == Append(devices, [virtual_base |-> total_capacity, capacity |-> RoundUp(c)])
      counted == total_capacity + RoundUp(c)
  IN /\ Len(devices) < MaxDevices /\ Openable(c)
     /\ devices' = SubSeq(filled, 1, Len(filled) - 1)
     /\ total_capacity' = counted - filled[Len(filled)].capacity
     /\ ret' = [op |-> "add", dev |-> AnyDevice, bytes |-> 0, rc |-> "NO_MEMORY"]
     /\ UNCHANGED <<total_pages, free_pages, bitmap, live>>

\* The table is full, or the backend cannot be opened: nothing was touched.
ssd_pool_add_device_fail ==
  /\ ret' = [op |-> "add", dev |-> AnyDevice, bytes |-> 0,
             rc |-> IF Len(devices) >= MaxDevices THEN "NO_MEMORY" ELSE "TRANSPORT_ERROR"]
  /\ UNCHANGED <<devices, total_capacity, total_pages, free_pages, bitmap, live>>

-----------------------------------------------------------------------------
\* What both allocation calls do once bm_find_free has found a page.
Reserve(page, n, d) ==
  /\ bitmap' = bitmap \cup Span(page, PageCount(n))
  /\ free_pages' = free_pages - PageCount(n)
  /\ live' = live \cup {[page |-> page, bytes |-> n, dev |-> d]}
  /\ ret' = [op |-> "alloc", dev |-> d, bytes |-> n, rc |-> "OK"]
  /\ UNCHANGED <<devices, total_capacity, total_pages>>

Refuse(op, d, n, rc) ==
  /\ ret' = [op |-> op, dev |-> d, bytes |-> n, rc |-> rc]
  /\ UNCHANGED <<devices, total_capacity, total_pages, free_pages, bitmap, live>>

ssd_pool_alloc(n) ==
  LET npages == PageCount(n)
      page   == bm_find_free(0, total_pages, npages)
  IN \/ n = 0 /\ Refuse("alloc", AnyDevice, n, "INVALID_ARG")
     \/ /\ n # 0
        /\ free_pages < npages \/ page >= total_pages
        /\ Refuse("alloc", AnyDevice, n, "NO_MEMORY")
     \/ /\ n # 0
        /\ npages <= free_pages /\ page < total_pages
        /\ Reserve(page, n, AnyDevice)

DevStart(d) == devices[d].virtual_base \div PageSize
DevPages(d) == devices[d].capacity \div PageSize

\* Mutant: the search window runs on to the end of the pool.
ssd_pool_alloc_on_device_open_end(d, n) ==
  LET npages == PageCount(n)
      page   == bm_find_free(DevStart(d), total_pages, npages)
  IN /\ n # 0 /\ n <= (WordSize - 1) - (PageSize - 1)
     /\ d \in Dev
     /\ npages <= DevPages(d) /\ npages <= free_pages /\ page < total_pages
     /\ Reserve(page, n, d)

\* Mutant: a request for the whole device is refused.
ssd_pool_alloc_on_device_strict(d, n) ==
  LET npages == PageCount(n)
      page   == bm_find_free(DevStart(d), DevStart(d) + DevPages(d), npages)
      valid  == n # 0 /\ n <= (WordSize - 1) - (PageSize - 1) /\ d \in Dev
  IN /\ valid
     /\ \/ npages >= DevPages(d) /\ Refuse("alloc", d, n, "NO_MEMORY")
        \/ npages < DevPages(d) /\ npages <= free_pages
           /\ page < DevStart(d) + DevPages(d) /\ Reserve(page, n, d)

\* A byte count whose rounding would wrap is refused here, not in ssd_pool_alloc.
ssd_pool_alloc_on_device(d, n) ==
  LET npages == PageCount(n)
      last   == DevStart(d) + DevPages(d)
      page   == bm_find_free(DevStart(d), last, npages)
      valid  == n # 0 /\ n <= (WordSize - 1) - (PageSize - 1) /\ d \in Dev
  IN \/ ~ valid /\ Refuse("alloc", d, n, "INVALID_ARG")
     \/ /\ valid
        /\ npages > DevPages(d) \/ npages > free_pages \/ page >= last
        /\ Refuse("alloc", d, n, "NO_MEMORY")
     \/ /\ valid
        /\ npages <= DevPages(d) /\ npages <= free_pages /\ page < last
        /\ Reserve(page, n, d)

Freeable(voffset, n) ==
  /\ n # 0 /\ voffset < total_capacity
  /\ LET start == voffset \div PageSize
     IN /\ start + PageCount(n) <= total_pages
        /\ Span(start, PageCount(n)) \subseteq bitmap

ssd_pool_free(voffset, n) ==
  LET start == voffset \div PageSize
  IN \/ ~ Freeable(voffset, n) /\ Refuse("free", AnyDevice, 0, "INVALID_ARG")
     \/ /\ Freeable(voffset, n)
        /\ bitmap' = bitmap \ Span(start, PageCount(n))
        /\ free_pages' = free_pages + PageCount(n)
        /\ live' = { e \in live : ~ (e.page = start /\ e.bytes = n) }
        /\ ret' = [op |-> "free", dev |-> AnyDevice, bytes |-> 0, rc |-> "OK"]
        /\ UNCHANGED <<devices, total_capacity, total_pages>>

FreeHeld == \E e \in live : ssd_pool_free(e.page * PageSize, e.bytes)

\* A repeated free, or a range with a page nobody holds.
Stray(voffset, n) ==
  \/ n = 0
  \/ voffset >= total_capacity
  \/ ~ (Span(voffset \div PageSize, PageCount(n)) \subseteq
          UNION { ExtentPages(e) : e \in live })

FreeStray == \E voffset \in 0 .. MaxBytes, n \in Requests :
               Stray(voffset, n) /\ ssd_pool_free(voffset, n)

Next == \/ \E c \in Capacities : ssd_pool_add_device_ok(c)
        \/ \E c \in Capacities : ssd_pool_add_device_rollback(c)
        \/ ssd_pool_add_device_fail
        \/ \E n \in Requests : ssd_pool_alloc(n)
        \/ \E n \in Requests, d \in 1 .. MaxDevices : ssd_pool_alloc_on_device(d, n)
        \/ FreeHeld
        \/ FreeStray

Spec == Init /\ [][Next]_vars

-----------------------------------------------------------------------------
\* free_pages, on which both allocation calls decide, is the number of clear
\* bits, also after devices were added.
CounterExact == free_pages = total_pages - Cardinality(bitmap)

\* The pages of an extent asked of one device all translate to that device, so
\* the extent can be used through that device's mapping.
OnItsDevice ==
  \A e \in live : e.dev # AnyDevice =>
    \A p \in ExtentPages(e) :
      \A b \in 0 .. (PageSize - 1) :
        ssd_pool_translate(p * PageSize + b).dev = e.dev

\* Adding a device never moves data: an offset that translated before the call
\* translates to the same device and physical offset after it.
TranslationStable ==
  [][ \A v \in 0 .. (total_capacity - 1) :
        ssd_pool_translate(v)' = ssd_pool_translate(v) ]_vars

\* When the mmap fast path is declared safe, the first and the last byte of the
\* range are in the same device, as far apart there as in the pool.
SpanIsContiguous ==
  \A v \in 0 .. (total_capacity - 1), len \in Requests :
    ssd_pool_span_in_one_device(v, len) =>
      LET t == ssd_pool_translate(v)
          u == ssd_pool_translate(v + len - 1)
      IN u.dev = t.dev /\ u.poff = t.poff + len - 1

\* Any mixture of calls, devices added between them included, leaves the counter
\* exact, every extent asked of a device on that device, and every range that
\* may be used through a mapping in one piece.
ExtentsSound == CounterExact /\ OnItsDevice /\ SpanIsContiguous

\* NO_MEMORY is answered only when no free run of the length needed lies in the
\* pool, or on the device that was named.
AllocComplete ==
  [][ ret'.op = "alloc" /\ ret'.rc = "NO_MEMORY" =>
        LET npages == PageCount(ret'.bytes)
            lo == IF ret'.dev = AnyDevice THEN 0 ELSE DevStart(ret'.dev)
            hi == IF ret'.dev = AnyDevice THEN total_pages
                  ELSE DevStart(ret'.dev) + DevPages(ret'.dev)
        IN npages > 0 =>
             \A p \in lo .. (hi - 1) : ~ RunAt(Pages \ bitmap, hi, p, npages) ]_vars

PA == INSTANCE PageAllocator WITH pages <- Pages,
                                  owned <- { ExtentPages(e) : e \in live }

\* The pool implements the abstract page allocator: add_device only grows the
\* set of pages and leaves every granted extent to its holder.
RefinesPageAllocator == PA!PSpec
=============================================================================
