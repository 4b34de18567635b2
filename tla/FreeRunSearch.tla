---------------------------- MODULE FreeRunSearch ----------------------------
(***************************************************************************)
(* The two loops that look for a run of free pages, side by side on the    *)
(* same bitmap: find_free_run (bitmap_allocator.c), which skips past the   *)
(* allocated page that broke a run and takes a whole free byte without     *)
(* looking at its bits, and bm_find_free (ssd_pool.c, twice), which counts *)
(* consecutive free pages.  One step is one iteration of the outer loop.   *)
(***************************************************************************)
EXTENDS FirstFit

CONSTANTS NumPages,  \* pages in the bitmap
          Byte       \* bits in a bitmap byte, 8 in the code

ASSUME SearchConstants ==
  NumPages \in Nat /\ Byte \in Nat \ {0}

VARIABLES free,               \* the free pages
          start, npages,      \* the arguments of the call
          page, fres,         \* find_free_run: cursor and result
          cur, found, consecutive, bres  \* bm_find_free: locals and result

svars == <<free, start, npages, page, fres, cur, found, consecutive, bres>>

end == NumPages
Running == -1   \* the value of a result before the loop returns

SearchInit ==
  /\ free \in SUBSET (0 .. (NumPages - 1))
  /\ start \in 0 .. NumPages
  /\ npages \in 0 .. (NumPages + 1)
  /\ page = start /\ fres = Running
  /\ cur = start /\ found = start /\ consecutive = 0
  /\ bres = IF npages = 0 \/ start >= end THEN end ELSE Running

\* The allocated pages that the inner loop meets.
Broken == { i \in 0 .. (npages - 1) : page + i \notin free }

\* The byte test of line 67: aligned, short request, all eight bits set.
WholeByteFree ==
  /\ page % Byte = 0
  /\ npages <= Byte
  /\ \A i \in 0 .. (Byte - 1) : page + i \in free

BmVars == <<cur, found, consecutive, bres>>
RunVars == <<page, fres>>
Args == <<free, start, npages>>

FindReturn ==
  /\ fres = Running
  /\ \/ page + npages > end /\ fres' = end
     \/ page + npages <= end /\ (WholeByteFree \/ Broken = {}) /\ fres' = page
  /\ UNCHANGED <<page, BmVars, Args>>

\* Mutant: the cursor skips one page too many.
FindSkip_too_far ==
  /\ fres = Running
  /\ page + npages <= end
  /\ ~ WholeByteFree
  /\ \E i \in Broken : /\ \A j \in Broken : i <= j
                       /\ page' = page + i + 2
  /\ UNCHANGED <<fres, BmVars, Args>>

FindSkip ==
  /\ fres = Running
  /\ page + npages <= end
  /\ ~ WholeByteFree
  /\ \E i \in Broken : /\ \A j \in Broken : i <= j
                       /\ page' = page + i + 1
  /\ UNCHANGED <<fres, BmVars, Args>>

BmGiveUp ==
  /\ bres = Running /\ cur >= end
  /\ bres' = end
  /\ UNCHANGED <<cur, found, consecutive, RunVars, Args>>

BmFree ==
  /\ bres = Running /\ cur < end /\ cur \in free
  /\ found' = IF consecutive = 0 THEN cur ELSE found
  /\ consecutive' = consecutive + 1
  /\ bres' = IF consecutive' >= npages THEN found' ELSE Running
  /\ cur' = cur + 1
  /\ UNCHANGED <<RunVars, Args>>

BmTaken ==
  /\ bres = Running /\ cur < end /\ cur \notin free
  /\ consecutive' = 0
  /\ cur' = cur + 1
  /\ UNCHANGED <<found, bres, RunVars, Args>>

SearchNext == FindReturn \/ FindSkip \/ BmGiveUp \/ BmFree \/ BmTaken

SearchSpec == SearchInit /\ [][SearchNext]_svars

-----------------------------------------------------------------------------
SearchTypeOK ==
  /\ free \subseteq 0 .. (NumPages - 1)
  /\ start \in 0 .. NumPages /\ npages \in 0 .. (NumPages + 1)
  /\ page \in start .. NumPages
  /\ fres \in {Running} \cup (0 .. NumPages)
  /\ cur \in start .. NumPages
  /\ found \in start .. NumPages /\ consecutive \in 0 .. NumPages
  /\ bres \in {Running} \cup (0 .. NumPages)

\* find_free_run returns the first fit: neither the skip past an allocated page
\* nor the whole-byte shortcut misses an earlier run or returns a broken one.
FindIsFirstFit ==
  fres # Running => fres = FirstFitFrom(free, start, end, npages)

\* bm_find_free returns the first fit for every non-empty request, and "not
\* found" for an empty one.
BmIsFirstFit ==
  bres # Running =>
    bres = IF npages = 0 THEN end ELSE FirstFitFrom(free, start, end, npages)

\* Both loops return the first fit, on every bitmap a history of calls leaves.
SearchesFirstFit == FindIsFirstFit /\ BmIsFirstFit
=============================================================================
