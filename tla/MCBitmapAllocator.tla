-------------------------- MODULE MCBitmapAllocator --------------------------
(***************************************************************************)
(* Small arenas for AllocSearch: pages of two bytes, so that requests that *)
(* are not a multiple of a page, the empty request, requests larger than   *)
(* the arena and requests that wrap the 64-bit rounding all occur.         *)
(***************************************************************************)
EXTENDS AllocSearch

MCRequests     == {0, 1, 4, 5, 20}
MCWrapRequests == {1, 2, 31}
=============================================================================
