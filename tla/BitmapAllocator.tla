--------------------------- MODULE BitmapAllocator ---------------------------
(***************************************************************************)
(* The page allocator behind the DRAM and CXL tiers of a memory server     *)
(* (umm/src/common/bitmap_allocator.c).  One bit per page, 1 = free, and a *)
(* separate counter of free pages; every call works under the allocator's  *)
(* lock and is one action.  Byte counts are uint64: the rounding to pages  *)
(* is done modulo WordSize.                                                *)
(***************************************************************************)
EXTENDS FirstFit, FiniteSets

CONSTANTS TotalBytes,  \* ba->total_bytes
          PageSize,    \* ba->page_size
          WordSize,    \* 2^64 in the code: arithmetic wraps here
          Requests     \* the byte counts callers pass

ASSUME BAConstants ==
  /\ PageSize \in Nat \ {0}
  /\ TotalBytes \in Nat
  /\ WordSize \in Nat
  /\ PageSize <= TotalBytes                 \* ba_create refuses less
  /\ TotalBytes + PageSize <= WordSize      \* rounding the arena does not wrap
  /\ Requests \subseteq 0 .. (WordSize - 1)

VARIABLES bitmap,      \* the set of 1 bits: the free pages
          free_pages,  \* ba->free_pages
          live,        \* the extents granted and not yet freed, as callers see them
          ret          \* the last call and its result

vars == <<bitmap, free_pages, live, ret>>

num_pages == (TotalBytes + PageSize - 1) \div PageSize

Pages == 0 .. (num_pages - 1)

\* (num_bytes + page_size - 1) / page_size in uint64 arithmetic.
PageCount(n) == ((n + PageSize - 1) % WordSize) \div PageSize

find_free_run(npages) == FirstFitFrom(bitmap, 0, num_pages, npages)

Extent == [page : Pages, bytes : Requests]
ExtentPages(e) == Span(e.page, PageCount(e.bytes))

Init ==
  /\ bitmap = Pages
  /\ free_pages = num_pages
  /\ live = {}
  /\ ret = [op |-> "create", bytes |-> 0, rc |-> "OK"]

-----------------------------------------------------------------------------
ba_alloc_ok(n) ==
  LET npages == PageCount(n)
      page   == find_free_run(npages)
  IN /\ n # 0
     /\ npages <= num_pages
     /\ npages <= free_pages
     /\ page < num_pages
     /\ bitmap' = bitmap \ Span(page, npages)
     /\ free_pages' = free_pages - npages
     /\ live' = live \cup {[page |-> page, bytes |-> n]}
     /\ ret' = [op |-> "alloc", bytes |-> n, rc |-> "OK"]

ba_alloc_fail(n) ==
  LET npages == PageCount(n)
  IN /\ n # 0
     /\ \/ npages > num_pages
        \/ npages > free_pages
        \/ find_free_run(npages) >= num_pages
     /\ ret' = [op |-> "alloc", bytes |-> n, rc |-> "NO_MEMORY"]
     /\ UNCHANGED <<bitmap, free_pages, live>>

ba_alloc_zero ==
  /\ 0 \in Requests
  /\ ret' = [op |-> "alloc", bytes |-> 0, rc |-> "INVALID_ARG"]
  /\ UNCHANGED <<bitmap, free_pages, live>>

\* Mutant: no double-free test.
Freeable_unchecked(offset, n) ==
  /\ n # 0
  /\ offset < TotalBytes
  /\ (offset \div PageSize) + PageCount(n) <= num_pages

\* What ba_free validates before it touches the bitmap.
Freeable(offset, n) ==
  /\ n # 0
  /\ offset < TotalBytes
  /\ LET page == offset \div PageSize
     IN /\ page + PageCount(n) <= num_pages
        /\ \A i \in Span(page, PageCount(n)) : i \notin bitmap

\* Mutant: the counter is not given the pages back.
ba_free_ok_no_count(offset, n) ==
  LET page == offset \div PageSize
  IN /\ Freeable(offset, n)
     /\ bitmap' = bitmap \cup Span(page, PageCount(n))
     /\ live' = live \ {[page |-> page, bytes |-> n]}
     /\ ret' = [op |-> "free", bytes |-> n, rc |-> "OK"]
     /\ UNCHANGED free_pages

ba_free_ok(offset, n) ==
  LET page == offset \div PageSize
  IN /\ Freeable(offset, n)
     /\ bitmap' = bitmap \cup Span(page, PageCount(n))
     /\ free_pages' = free_pages + PageCount(n)
     /\ live' = live \ {[page |-> page, bytes |-> n]}
     /\ ret' = [op |-> "free", bytes |-> n, rc |-> "OK"]

ba_free_reject(offset, n) ==
  /\ ~ Freeable(offset, n)
  /\ ret' = [op |-> "free", bytes |-> n, rc |-> "INVALID_ARG"]
  /\ UNCHANGED <<bitmap, free_pages, live>>

ba_free(offset, n) == ba_free_ok(offset, n) \/ ba_free_reject(offset, n)

\* The header's contract: a caller frees an offset that ba_alloc returned with
\* the byte count it asked for.
FreeHeld == \E e \in live : ba_free(e.page * PageSize, e.bytes)

\* Anything else a caller may pass: a free repeated, a range that reaches a page
\* nobody holds or leaves the arena, an empty range.
Stray(offset, n) ==
  \/ n = 0
  \/ offset >= TotalBytes
  \/ ~ (Span(offset \div PageSize, PageCount(n)) \subseteq
          UNION { ExtentPages(e) : e \in live })

FreeStray == \E offset \in 0 .. TotalBytes, n \in Requests :
               Stray(offset, n) /\ ba_free(offset, n)

Next == \/ \E n \in Requests : ba_alloc_ok(n)
        \/ \E n \in Requests : ba_alloc_fail(n)
        \/ ba_alloc_zero
        \/ FreeHeld
        \/ FreeStray

Spec == Init /\ [][Next]_vars

-----------------------------------------------------------------------------
TypeOK ==
  /\ bitmap \subseteq Pages
  /\ free_pages \in 0 .. num_pages
  /\ live \subseteq Extent
  /\ ret \in [op : {"create", "alloc", "free"}, bytes : Requests \cup {0},
              rc : {"OK", "NO_MEMORY", "INVALID_ARG"}]

\* No page is in two granted extents: whatever was allocated and freed before,
\* ba_alloc never hands out a page that somebody still holds.
Exclusive ==
  \A e, f \in live : e # f => ExtentPages(e) \cap ExtentPages(f) = {}

\* The bitmap and the callers agree on every page: a page is marked allocated
\* exactly while a granted extent contains it, so no ba_free loses a page and
\* no refused call leaves one behind.
Accounted == Pages \ bitmap = UNION { ExtentPages(e) : e \in live }

\* free_pages, which ba_alloc trusts for its early NO_MEMORY, is the number of
\* free bits after any mixture of successful and refused calls.
CounterExact == free_pages = Cardinality(bitmap)

\* An extent that ba_alloc granted can always be given back with the offset and
\* byte count its caller knows: ba_free's validation never refuses its owner.
HeldFreeable == \A e \in live : Freeable(e.page * PageSize, e.bytes)

\* "Allocate contiguous pages covering at least num_bytes": the pages of a
\* granted extent hold the bytes asked for.
CoversRequest == \A e \in live : e.bytes <= PageCount(e.bytes) * PageSize

\* A granted extent lies inside the arena of total_bytes the allocator manages.
InArena == \A e \in live : e.page * PageSize + e.bytes <= TotalBytes

\* Grants and bookkeeping agree after any mixture of successful and refused calls:
\* bitmap, counter and the callers' extents describe the same pages, and an
\* extent holds the bytes that were asked for.
GrantsSound == Accounted /\ CounterExact /\ CoversRequest

\* ba_alloc answers NO_MEMORY only when no run of free pages is long enough:
\* the two early exits on the counters never refuse a request that fits.
AllocComplete ==
  [][ ret'.op = "alloc" /\ ret'.rc = "NO_MEMORY" =>
        \A p \in Pages : ~ RunAt(bitmap, num_pages, p, PageCount(ret'.bytes)) ]_vars

\* The allocator implements the abstract page allocator.
PA == INSTANCE PageAllocator WITH pages <- Pages,
                                  owned <- { ExtentPages(e) : e \in live }

\* Every call of the bitmap allocator is a step that the abstract allocator of
\* exclusive extents allows, or changes nothing callers can see.
RefinesPageAllocator == PA!PSpec
=============================================================================
