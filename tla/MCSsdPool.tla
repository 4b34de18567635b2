----------------------------- MODULE MCSsdPool -----------------------------
(***************************************************************************)
(* The pool with up to three devices of one or two pages of two bytes.     *)
(***************************************************************************)
EXTENDS SsdPool

\* An empty request, one byte, a page and a byte, and the
\* largest byte count, whose rounding wraps.
MCRequests == {0, 1, 3, WordSize - 1}

\* No capacity, a capacity that is rounded up to one page, two pages.
MCCapacities == {0, 1, 4}
=============================================================================
