------------------------------ MODULE FirstFit ------------------------------
(***************************************************************************)
(* What the two bitmap searches of UMM look for: the lowest page that      *)
(* starts a long enough run of free pages.  FreeRunSearch shows that the   *)
(* loops of find_free_run and bm_find_free compute FirstFitFrom.           *)
(***************************************************************************)
EXTENDS Integers

\* n consecutive pages from p on, all free, all before end.
RunAt(free, end, p, n) ==
  /\ p + n <= end
  /\ \A i \in p .. (p + n - 1) : i \in free

\* p is the first place at or after start where a run of n pages fits.
IsFirstFit(free, start, end, p, n) ==
  /\ RunAt(free, end, p, n)
  /\ \A q \in start .. (p - 1) : ~ RunAt(free, end, q, n)

\* The first fit in start .. end - 1, or end when no run fits.
FirstFitFrom(free, start, end, n) ==
  IF \E p \in start .. (end - 1) : IsFirstFit(free, start, end, p, n)
    THEN CHOOSE p \in start .. (end - 1) : IsFirstFit(free, start, end, p, n)
    ELSE end

\* The pages of an extent.
Span(page, n) == page .. (page + n - 1)
=============================================================================
