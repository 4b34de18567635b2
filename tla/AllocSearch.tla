----------------------------- MODULE AllocSearch -----------------------------
(***************************************************************************)
(* ba_alloc with the loop it runs (umm/src/common/bitmap_allocator.c): the *)
(* caller takes the allocator's lock, leaves early or searches the bitmap  *)
(* page by page, and marks the run it found.  BitmapAllocator makes one    *)
(* step of it, with FirstFitFrom for the search; this module shows that it *)
(* may.  The pool's loop, bm_find_free, is run on the same bitmap beside   *)
(* find_free_run, and decides nothing.                                     *)
(***************************************************************************)
EXTENDS BitmapAllocator, FreeRunSearch

VARIABLE holder   \* the byte count of the ba_alloc that holds the lock, or NoCall

NoCall == -1

avars == <<vars, svars, holder>>

ASSUME SameBitmap == NumPages = num_pages

\* No search is running: the locals of both loops have their first values.
AtRest ==
  /\ free = {} /\ start = 0 /\ npages = 0
  /\ page = 0 /\ fres = 0
  /\ cur = 0 /\ found = 0 /\ consecutive = 0 /\ bres = end

AllocInit == Init /\ AtRest /\ holder = NoCall

-----------------------------------------------------------------------------
\* Both loops, from their first page on, for n pages.
Search(n) ==
  /\ free' = bitmap /\ start' = 0 /\ npages' = n
  /\ page' = 0 /\ fres' = Running
  /\ cur' = 0 /\ found' = 0 /\ consecutive' = 0
  /\ bres' = IF n = 0 \/ 0 >= end THEN end ELSE Running

\* Past the early exits of ba_alloc: find_free_run is called.
Enter(n) ==
  /\ holder = NoCall
  /\ n # 0 /\ PageCount(n) <= num_pages /\ PageCount(n) <= free_pages
  /\ Search(PageCount(n))
  /\ holder' = n
  /\ UNCHANGED vars

Loop == SearchNext /\ UNCHANGED <<vars, holder>>

Forget ==
  /\ free' = {} /\ start' = 0 /\ npages' = 0
  /\ page' = 0 /\ fres' = 0
  /\ cur' = 0 /\ found' = 0 /\ consecutive' = 0 /\ bres' = end

\* The search is over: the run is marked, or there is none.
Leave ==
  /\ holder # NoCall /\ fres # Running /\ bres # Running
  /\ IF fres < num_pages
     THEN /\ bitmap' = bitmap \ Span(fres, npages)
          /\ free_pages' = free_pages - npages
          /\ live' = live \cup {[page |-> fres, bytes |-> holder]}
          /\ ret' = [op |-> "alloc", bytes |-> holder, rc |-> "OK"]
     ELSE /\ ret' = [op |-> "alloc", bytes |-> holder, rc |-> "NO_MEMORY"]
          /\ UNCHANGED <<bitmap, free_pages, live>>
  /\ holder' = NoCall
  /\ Forget

\* The early exits of ba_alloc, and ba_free: one critical section without a
\* search.
TooLarge(n) ==
  /\ PageCount(n) > num_pages \/ PageCount(n) > free_pages
  /\ ba_alloc_fail(n)

\* Mutant: the lock is not held while the bitmap is searched.
Short_unlocked ==
  /\ FreeHeld
  /\ UNCHANGED <<svars, holder>>

Short ==
  /\ holder = NoCall
  /\ \/ \E n \in Requests : TooLarge(n)
     \/ ba_alloc_zero
     \/ FreeHeld
     \/ FreeStray
  /\ UNCHANGED <<svars, holder>>

AllocNext ==
  \/ \E n \in Requests : Enter(n)
  \/ Loop
  \/ Leave
  \/ Short

AllocSpec == AllocInit /\ [][AllocNext]_avars

-----------------------------------------------------------------------------
\* ba_alloc with its loop is the atomic ba_alloc of BitmapAllocator: the page
\* the loop finds is the first fit of the bitmap that is then marked, and a
\* search in vain is the NO_MEMORY of the atomic call.
RefinesBitmapAllocator == Spec
=============================================================================
