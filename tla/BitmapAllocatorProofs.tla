------------------------ MODULE BitmapAllocatorProofs ------------------------
(***************************************************************************)
(* Theorems about the bitmap allocator, for every arena, page size, word   *)
(* size, bitmap byte and set of request sizes: first the allocator whose   *)
(* calls are one step each, then both search loops, then ba_alloc with its *)
(* loop, which implements the first and so inherits what is proved of it.  *)
(***************************************************************************)
EXTENDS AllocSearch, FiniteSetTheorems, WellFoundedInduction, TLAPS

\* Pages and bytes.
LEMMA DivFacts ==
  ASSUME NEW a \in Nat, NEW b \in Nat \ {0}
  PROVE  /\ a \div b \in Nat
         /\ (a \div b) * b <= a
         /\ a < ((a \div b) + 1) * b
  OBVIOUS

LEMMA MulDiv ==
  ASSUME NEW a \in Nat, NEW b \in Nat \ {0}
  PROVE  (a * b) \div b = a
  OBVIOUS

LEMMA MulMono ==
  ASSUME NEW a \in Nat, NEW b \in Nat, NEW c \in Nat, a <= b
  PROVE  a * c <= b * c
  OBVIOUS

\* Every non-empty set of naturals has a least element.
LEMMA LeastNat ==
  ASSUME NEW T, T \subseteq Nat, T # {}
  PROVE  \E x \in T : \A y \in T : x <= y
<1>1. PICK x \in T : \A y \in T : ~ (<<y, x>> \in OpToRel(<, Nat))
  BY ZenonT(20), NatLessThanWellFounded, WFMin
<1>2. ASSUME NEW y \in T PROVE x <= y
  <2>1. x \in Nat /\ y \in Nat
    OBVIOUS
  <2>2. ~ (<<y, x>> \in OpToRel(<, Nat))
    BY ZenonT(20), <1>1
  <2>3. ~ (y < x)
    BY <2>1, <2>2 DEF OpToRel
  <2>. QED
    BY <2>1, <2>3
<1>. QED
  BY <1>2

\* The search returns hi or a page of the range at which the run starts.
LEMMA FirstFitFound ==
  ASSUME NEW F, NEW lo \in Nat, NEW hi \in Nat, NEW n \in Nat,
         lo <= hi
  PROVE  LET p == FirstFitFrom(F, lo, hi, n)
         IN  /\ p \in lo .. hi
             /\ p < hi => RunAt(F, hi, p, n)
<1> DEFINE Fit(p) == IsFirstFit(F, lo, hi, p, n)
           p == FirstFitFrom(F, lo, hi, n)
<1>1. CASE \E q \in lo .. (hi - 1) : Fit(q)
  <2>1. p = CHOOSE q \in lo .. (hi - 1) : Fit(q)
    BY <1>1 DEF FirstFitFrom
  <2>2. p \in lo .. (hi - 1) /\ Fit(p)
    BY <1>1, <2>1
  <2>. QED
    BY <2>2 DEF IsFirstFit
<1>2. CASE ~ \E q \in lo .. (hi - 1) : Fit(q)
  <2>1. p = hi
    BY <1>2 DEF FirstFitFrom
  <2>. QED
    BY <2>1
<1>. QED
  BY <1>1, <1>2

\* When the search returns hi, no page of the range starts a long enough run.
LEMMA FirstFitComplete ==
  ASSUME NEW F, NEW lo \in Nat, NEW hi \in Nat, NEW n \in Nat,
         lo <= hi,
         FirstFitFrom(F, lo, hi, n) >= hi
  PROVE  \A p \in lo .. (hi - 1) : ~ RunAt(F, hi, p, n)
<1> SUFFICES ASSUME NEW p \in lo .. (hi - 1), RunAt(F, hi, p, n)
             PROVE  FALSE
  OBVIOUS
<1> DEFINE T == { q \in lo .. (hi - 1) : RunAt(F, hi, q, n) }
<1>1. T \subseteq Nat /\ T # {}
  OBVIOUS
<1>2. PICK q \in T : \A r \in T : q <= r
  BY ZenonT(20), <1>1, LeastNat
<1>3. IsFirstFit(F, lo, hi, q, n)
  BY <1>2 DEF IsFirstFit
<1>4. FirstFitFrom(F, lo, hi, n) \in lo .. (hi - 1)
  BY <1>3 DEF FirstFitFrom
<1>. QED
  BY <1>4

\* The pages of an extent, and how many they are.
LEMMA SpanSize ==
  ASSUME NEW p \in Nat, NEW n \in Nat
  PROVE  /\ IsFiniteSet(Span(p, n))
         /\ Cardinality(Span(p, n)) = n
         /\ Span(p, n) \subseteq Nat
<1>1. p + n - 1 \in Int
  OBVIOUS
<1>2. IsFiniteSet(p .. (p + n - 1)) /\
      Cardinality(p .. (p + n - 1)) =
        IF p > p + n - 1 THEN 0 ELSE (p + n - 1) - p + 1
  BY <1>1, FS_Interval
<1>. QED
  BY <1>2 DEF Span

-----------------------------------------------------------------------------
\* Facts about the constants and the page arithmetic.

LEMMA PageCountNat ==
  ASSUME NEW n \in Nat PROVE PageCount(n) \in Nat
  BY BAConstants, DivFacts DEF PageCount

LEMMA NumPagesNat == num_pages \in Nat \ {0}
  BY BAConstants, DivFacts DEF num_pages

LEMMA InputsNat == Requests \subseteq Nat /\ Pages \subseteq Nat
<1>1. ASSUME NEW n \in Requests PROVE n \in Nat
  <2>1. n \in 0 .. (WordSize - 1)
    BY BAConstants
  <2>. QED
    BY <2>1, BAConstants
<1>2. ASSUME NEW p \in Pages PROVE p \in Nat
  BY NumPagesNat DEF Pages
<1>. QED
  BY <1>1, <1>2

LEMMA ExtentPagesNat ==
  ASSUME NEW e \in Extent
  PROVE  /\ PageCount(e.bytes) \in Nat
         /\ e.page \in Nat
         /\ ExtentPages(e) \subseteq Nat
<1>1. e.bytes \in Nat /\ e.page \in Nat
  <2>1. e.bytes \in Requests /\ e.page \in Pages
    BY DEF Extent
  <2>. QED
    BY ZenonT(20), <2>1, InputsNat
<1>2. PageCount(e.bytes) \in Nat
  BY <1>1, PageCountNat
<1>. QED
  BY <1>1, <1>2, SpanSize DEF ExtentPages

-----------------------------------------------------------------------------
\* The inductive invariant: the counter, the bitmap and the callers' extents
\* describe the same set of free pages.  Exclusive alone is not inductive: a
\* grant is exclusive only because the bits of every live extent are clear.
IInv == TypeOK /\ Exclusive /\ Accounted /\ CounterExact

LEMMA BitmapFinite ==
  ASSUME TypeOK PROVE IsFiniteSet(bitmap)
<1>1. IsFiniteSet(Pages)
  BY NumPagesNat, FS_Interval DEF Pages
<1>2. bitmap \in SUBSET Pages
  BY DEF TypeOK
<1>. QED
  BY <1>1, <1>2, FS_Subset

\* The extent that ba_alloc grants consists of free pages of the arena.
LEMMA GrantIsFree ==
  ASSUME TypeOK, NEW n \in Requests, ba_alloc_ok(n)
  PROVE  LET first == find_free_run(PageCount(n))
             count == PageCount(n)
         IN  /\ count \in Nat /\ first \in Pages
             /\ Span(first, count) \subseteq bitmap
             /\ first + count <= num_pages
<1> DEFINE first == find_free_run(PageCount(n))
           count == PageCount(n)
<1>1. count \in Nat
  BY BAConstants, PageCountNat
<1>2. num_pages \in Nat /\ 0 <= num_pages
  BY NumPagesNat
<1>3. first \in 0 .. num_pages /\ (first < num_pages => RunAt(bitmap, num_pages, first, count))
  <2>1. first = FirstFitFrom(bitmap, 0, num_pages, count)
    BY DEF find_free_run
  <2>. HIDE DEF first, count
  <2>. QED
    BY <1>1, <1>2, <2>1, FirstFitFound
<1>4. first < num_pages
  BY DEF ba_alloc_ok
<1>5. RunAt(bitmap, num_pages, first, count)
  BY <1>3, <1>4
<1>. QED
  BY <1>1, <1>2, <1>3, <1>4, <1>5 DEF RunAt, Span, Pages

\* The initial state: all bits set, nothing granted.
LEMMA InitIInv == Init => IInv
<1> SUFFICES ASSUME Init PROVE IInv
  OBVIOUS
<1>1. num_pages \in Nat \ {0}
  BY NumPagesNat
<1>2. Cardinality(Pages) = num_pages
  BY <1>1, FS_Interval DEF Pages
<1>3. TypeOK
  BY <1>1 DEF Init, TypeOK
<1>4. Exclusive /\ Accounted
  BY DEF Init, Exclusive, Accounted
<1>5. CounterExact
  BY <1>2 DEF Init, CounterExact
<1>. QED
  BY <1>3, <1>4, <1>5 DEF IInv

\* A successful allocation keeps the invariant.
LEMMA AllocIInv ==
  ASSUME IInv, NEW n \in Requests, ba_alloc_ok(n)
  PROVE  IInv'
<1> DEFINE first == find_free_run(PageCount(n))
           count == PageCount(n)
           new   == [page |-> first, bytes |-> n]
<1>1. /\ count \in Nat /\ first \in Pages /\ first \in Nat
      /\ Span(first, count) \subseteq bitmap
      /\ first + count <= num_pages
  BY GrantIsFree, NumPagesNat DEF IInv, Pages
<1>2. /\ bitmap' = bitmap \ Span(first, count)
      /\ free_pages' = free_pages - count
      /\ live' = live \cup {new}
      /\ ret' = [op |-> "alloc", bytes |-> n, rc |-> "OK"]
      /\ count <= free_pages
  BY DEF ba_alloc_ok
<1>3. new \in Extent /\ ExtentPages(new) = Span(first, count)
  BY <1>1 DEF Extent, ExtentPages
<1>. HIDE DEF first, count, new
<1>4. TypeOK'
  <2>1. bitmap' \subseteq Pages /\ live' \subseteq Extent
    BY <1>2, <1>3 DEF IInv, TypeOK
  <2>2. free_pages' \in 0 .. num_pages
    BY <1>1, <1>2, NumPagesNat DEF IInv, TypeOK
  <2>. QED
    BY <1>2, <2>1, <2>2 DEF TypeOK
<1>5. \A e \in live : ExtentPages(e) \cap bitmap = {}
  BY DEF IInv, Accounted
<1>6. Exclusive'
  BY <1>1, <1>2, <1>3, <1>5 DEF IInv, Exclusive
<1>7. Accounted'
  <2>1. UNION { ExtentPages(e) : e \in live' } =
          (UNION { ExtentPages(e) : e \in live }) \cup ExtentPages(new)
    BY <1>2
  <2>2. ExtentPages(new) \subseteq Pages
    BY ZenonT(20), <1>1, <1>3 DEF IInv, TypeOK
  <2>3. Pages \ bitmap' = (Pages \ bitmap) \cup ExtentPages(new)
    BY <1>2, <1>3, <2>2
  <2>. QED
    BY <2>1, <2>3 DEF IInv, Accounted
<1>8. CounterExact'
  <2>1. IsFiniteSet(bitmap)
    BY BitmapFinite DEF IInv
  <2>2. bitmap \cap Span(first, count) = Span(first, count)
    BY <1>1
  <2>3. Cardinality(Span(first, count)) = count
    BY <1>1, SpanSize
  <2>4. Cardinality(bitmap \ Span(first, count)) =
          Cardinality(bitmap) - Cardinality(bitmap \cap Span(first, count))
    BY ZenonT(20), <2>1, FS_Difference
  <2>5. Cardinality(bitmap') = Cardinality(bitmap) - count
    BY <1>2, <2>2, <2>3, <2>4
  <2>. QED
    BY <1>2, <2>5 DEF IInv, CounterExact
<1>. QED
  BY <1>4, <1>6, <1>7, <1>8 DEF IInv

\* Giving back a held extent keeps the invariant: its pages are nobody else's.
LEMMA FreeIInv ==
  ASSUME IInv, NEW e \in live, ba_free_ok(e.page * PageSize, e.bytes)
  PROVE  IInv'
<1> DEFINE S == ExtentPages(e)
<1>1. e \in Extent /\ e = [page |-> e.page, bytes |-> e.bytes]
  BY DEF IInv, TypeOK, Extent
<1>2. /\ PageCount(e.bytes) \in Nat /\ e.page \in Nat
      /\ e.bytes \in Requests /\ e.page \in Pages
  BY <1>1, ExtentPagesNat DEF Extent
<1>3. (e.page * PageSize) \div PageSize = e.page
  BY <1>2, MulDiv, BAConstants
<1>4. /\ bitmap' = bitmap \cup S
      /\ free_pages' = free_pages + PageCount(e.bytes)
      /\ live' = live \ {e}
      /\ ret' = [op |-> "free", bytes |-> e.bytes, rc |-> "OK"]
  BY <1>1, <1>3 DEF ba_free_ok, ExtentPages
<1>5. S \subseteq Pages /\ S \cap bitmap = {}
  BY DEF IInv, Accounted
<1>6. IsFiniteSet(S) /\ Cardinality(S) = PageCount(e.bytes)
  BY <1>2, SpanSize DEF ExtentPages
<1>. HIDE DEF S
<1>7. CounterExact'
  <2>1. IsFiniteSet(bitmap)
    BY BitmapFinite DEF IInv
  <2>2. Cardinality(bitmap \cup S) =
          Cardinality(bitmap) + Cardinality(S) - Cardinality(bitmap \cap S)
    BY <1>6, <2>1, FS_Union
  <2>3. Cardinality(bitmap \cap S) = 0
    <3>1. bitmap \cap S = {}
      BY <1>5
    <3>. QED
      BY <3>1, FS_EmptySet
  <2>4. Cardinality(bitmap) \in Nat
    BY <2>1, FS_CardinalityType
  <2>. QED
    BY <1>2, <1>4, <1>6, <2>2, <2>3, <2>4 DEF IInv, CounterExact
<1>8. TypeOK'
  <2>1. bitmap' \subseteq Pages /\ live' \subseteq Extent
    BY <1>4, <1>5 DEF IInv, TypeOK
  <2>2. free_pages' \in 0 .. num_pages
    <3>1. IsFiniteSet(Pages) /\ Cardinality(Pages) = num_pages
      BY NumPagesNat, FS_Interval DEF Pages
    <3>2. IsFiniteSet(bitmap') /\ Cardinality(bitmap') <= num_pages
      BY <2>1, <3>1, FS_Subset
    <3>3. Cardinality(bitmap') \in Nat
      BY <3>2, FS_CardinalityType
    <3>. QED
      BY <1>7, <3>2, <3>3, NumPagesNat DEF CounterExact
  <2>. QED
    BY <1>2, <1>4, <2>1, <2>2 DEF TypeOK
<1>9. Exclusive'
  BY <1>4 DEF IInv, Exclusive
<1>10. Accounted'
  <2>1. \A f \in live \ {e} : ExtentPages(f) \cap S = {}
    BY DEF IInv, Exclusive, S
  <2>2. UNION { ExtentPages(f) : f \in live } =
          (UNION { ExtentPages(f) : f \in live \ {e} }) \cup S
    BY DEF S
  <2>3. UNION { ExtentPages(f) : f \in live \ {e} } =
          (UNION { ExtentPages(f) : f \in live }) \ S
    BY <2>1, <2>2
  <2>4. Pages \ bitmap' = (Pages \ bitmap) \ S
    BY <1>4
  <2>. QED
    BY <1>4, <2>3, <2>4 DEF IInv, Accounted
<1>. QED
  BY <1>7, <1>8, <1>9, <1>10 DEF IInv

\* A call that only reports an error changes nothing the invariant speaks of.
LEMMA RefusalIInv ==
  ASSUME IInv, UNCHANGED <<bitmap, free_pages, live>>,
         NEW op \in {"alloc", "free"}, NEW n \in Requests \cup {0},
         NEW rc \in {"NO_MEMORY", "INVALID_ARG"},
         ret' = [op |-> op, bytes |-> n, rc |-> rc]
  PROVE  IInv'
<1>1. TypeOK'
  BY DEF IInv, TypeOK
<1>2. Exclusive' /\ Accounted' /\ CounterExact'
  BY DEF IInv, Exclusive, Accounted, CounterExact
<1>. QED
  BY <1>1, <1>2 DEF IInv

\* ba_free accepts no range but those whose pages are all held.
LEMMA StrayRefused ==
  ASSUME IInv, NEW offset \in 0 .. TotalBytes, NEW n \in Requests,
         Stray(offset, n)
  PROVE  ~ Freeable(offset, n)
<1> DEFINE S == Span(offset \div PageSize, PageCount(n))
<1> SUFFICES ASSUME Freeable(offset, n) PROVE FALSE
  OBVIOUS
<1>1. offset \in Nat /\ n \in Nat
  BY InputsNat, BAConstants
<1>2. offset \div PageSize \in Nat /\ PageCount(n) \in Nat
  BY <1>1, DivFacts, PageCountNat, BAConstants
<1>3. S \subseteq Pages
  BY <1>2, NumPagesNat DEF Freeable, Span, Pages
<1>4. S \cap bitmap = {}
  BY DEF Freeable
<1>5. S \subseteq UNION { ExtentPages(e) : e \in live }
  BY <1>3, <1>4 DEF IInv, Accounted
<1>6. n # 0 /\ ~ (offset >= TotalBytes)
  BY <1>1, BAConstants DEF Freeable
<1>. QED
  BY <1>5, <1>6 DEF Stray

LEMMA NextIInv == IInv /\ [Next]_vars => IInv'
<1> SUFFICES ASSUME IInv, [Next]_vars PROVE IInv'
  OBVIOUS
<1>1. ASSUME NEW n \in Requests, ba_alloc_ok(n) PROVE IInv'
  BY <1>1, AllocIInv
<1>2. ASSUME NEW n \in Requests, ba_alloc_fail(n) PROVE IInv'
  BY ZenonT(20), <1>2, RefusalIInv DEF ba_alloc_fail
<1>3. CASE ba_alloc_zero
  BY ZenonT(20), <1>3, RefusalIInv DEF ba_alloc_zero
<1>4. CASE FreeHeld
  <2>1. PICK e \in live : ba_free(e.page * PageSize, e.bytes)
    BY <1>4 DEF FreeHeld
  <2>2. e.bytes \in Requests
    BY DEF IInv, TypeOK, Extent
  <2>3. CASE ba_free_ok(e.page * PageSize, e.bytes)
    BY <2>3, FreeIInv
  <2>4. CASE ba_free_reject(e.page * PageSize, e.bytes)
    BY ZenonT(20), <2>2, <2>4, RefusalIInv DEF ba_free_reject
  <2>. QED
    BY <2>1, <2>3, <2>4 DEF ba_free
<1>5. CASE FreeStray
  <2>1. PICK offset \in 0 .. TotalBytes, n \in Requests :
          Stray(offset, n) /\ ba_free(offset, n)
    BY <1>5 DEF FreeStray
  <2>2. ba_free_reject(offset, n)
    BY <2>1, StrayRefused DEF ba_free, ba_free_ok
  <2>. QED
    BY ZenonT(20), <2>2, RefusalIInv DEF ba_free_reject
<1>6. CASE UNCHANGED vars
  BY <1>6 DEF vars, IInv, TypeOK, Exclusive, Accounted, CounterExact
<1>. QED
  BY <1>1, <1>2, <1>3, <1>4, <1>5, <1>6 DEF Next

THEOREM Invariance == Spec => []IInv
  BY InitIInv, NextIInv, PTL DEF Spec

-----------------------------------------------------------------------------
\* The variables keep their types: bitmap and counter stay within the arena.
THEOREM TypeCorrect == Spec => []TypeOK
<1>1. IInv => TypeOK
  BY DEF IInv
<1>. QED
  BY <1>1, Invariance, PTL

\* No page is ever in two granted extents, for every arena and every history of
\* calls, the refused ones included.
THEOREM ExclusiveGrants == Spec => []Exclusive
<1>1. IInv => Exclusive
  BY DEF IInv
<1>. QED
  BY <1>1, Invariance, PTL

\* The bitmap marks exactly the pages of the granted extents.
THEOREM PagesAccounted == Spec => []Accounted
<1>1. IInv => Accounted
  BY DEF IInv
<1>. QED
  BY <1>1, Invariance, PTL

\* free_pages always equals the number of free bits.
THEOREM CounterIsExact == Spec => []CounterExact
<1>1. IInv => CounterExact
  BY DEF IInv
<1>. QED
  BY <1>1, Invariance, PTL

-----------------------------------------------------------------------------
\* A refused allocation really had no room.
LEMMA FailMeansNoRun ==
  ASSUME IInv, NEW n \in Requests, ba_alloc_fail(n)
  PROVE  \A p \in Pages : ~ RunAt(bitmap, num_pages, p, PageCount(n))
<1> DEFINE count == PageCount(n)
<1>1. count \in Nat /\ num_pages \in Nat
  BY InputsNat, PageCountNat, NumPagesNat
<1>2. \/ count > num_pages
      \/ count > free_pages
      \/ find_free_run(count) >= num_pages
  BY DEF ba_alloc_fail
<1>. SUFFICES ASSUME NEW p \in Pages, RunAt(bitmap, num_pages, p, count)
              PROVE  FALSE
  OBVIOUS
<1>3. p \in Nat
  BY InputsNat
<1>. HIDE DEF count
<1>4. ~ (count > num_pages)
  BY <1>1, <1>3 DEF RunAt
<1>5. ~ (count > free_pages)
  <2>1. Span(p, count) \in SUBSET bitmap
    BY DEF RunAt, Span
  <2>2. IsFiniteSet(bitmap)
    BY BitmapFinite DEF IInv
  <2>3. Cardinality(Span(p, count)) <= Cardinality(bitmap)
    BY <2>1, <2>2, FS_Subset
  <2>4. count <= free_pages
    BY <1>1, <1>3, <2>3, SpanSize DEF IInv, CounterExact
  <2>. QED
    BY <1>1, <2>4, NumPagesNat DEF IInv, TypeOK
<1>6. ~ (find_free_run(count) >= num_pages)
  <2> SUFFICES ASSUME FirstFitFrom(bitmap, 0, num_pages, count) >= num_pages
               PROVE  FALSE
    BY DEF find_free_run
  <2>1. \A q \in 0 .. (num_pages - 1) : ~ RunAt(bitmap, num_pages, q, count)
    BY <1>1, FirstFitComplete
  <2>. QED
    BY <2>1 DEF Pages
<1>. QED
  BY <1>2, <1>4, <1>5, <1>6

\* NO_MEMORY is answered only when no run of free pages is long enough.
THEOREM AllocIsComplete == Spec => AllocComplete
<1> DEFINE A == ret'.op = "alloc" /\ ret'.rc = "NO_MEMORY" =>
                  \A p \in Pages : ~ RunAt(bitmap, num_pages, p, PageCount(ret'.bytes))
<1>1. IInv /\ [Next]_vars => [A]_vars
  <2> SUFFICES ASSUME IInv, Next PROVE A
    OBVIOUS
  <2>1. ASSUME NEW n \in Requests, ba_alloc_fail(n) PROVE A
    <3>1. ret'.bytes = n
      BY <2>1 DEF ba_alloc_fail
    <3>. QED
      BY <2>1, <3>1, FailMeansNoRun
  <2>2. ASSUME NEW n \in Requests, ba_alloc_ok(n) PROVE A
    BY <2>2 DEF ba_alloc_ok
  <2>3. CASE ba_alloc_zero
    BY <2>3 DEF ba_alloc_zero
  <2>4. CASE FreeHeld \/ FreeStray
    BY <2>4 DEF FreeHeld, FreeStray, ba_free, ba_free_ok, ba_free_reject
  <2>. QED
    BY <2>1, <2>2, <2>3, <2>4 DEF Next
<1>. QED
  BY <1>1, Invariance, PTL DEF Spec, AllocComplete

-----------------------------------------------------------------------------
\* Only non-empty requests are granted.
Nonzero == \A e \in live : e.bytes # 0

LEMMA NonzeroInvariant == Spec => []Nonzero
<1>1. Init => Nonzero
  BY DEF Init, Nonzero
<1>2. Nonzero /\ [Next]_vars => Nonzero'
  BY DEF Nonzero, Next, vars, ba_alloc_ok, ba_alloc_fail, ba_alloc_zero,
         FreeHeld, FreeStray, ba_free, ba_free_ok, ba_free_reject
<1>. QED
  BY <1>1, <1>2, PTL DEF Spec

\* The pages of a granted extent exist.
LEMMA ExtentFits ==
  ASSUME IInv, NEW e \in live
  PROVE  e.page + PageCount(e.bytes) <= num_pages
<1>1. e \in Extent
  BY DEF IInv, TypeOK
<1>2. PageCount(e.bytes) \in Nat /\ e.page \in Nat /\ e.page \in Pages
  BY <1>1, ExtentPagesNat DEF Extent
<1>3. CASE PageCount(e.bytes) = 0
  BY <1>2, <1>3, NumPagesNat DEF Pages
<1>4. CASE PageCount(e.bytes) # 0
  <2>1. e.page + PageCount(e.bytes) - 1 \in ExtentPages(e)
    BY <1>2, <1>4 DEF ExtentPages, Span
  <2>2. e.page + PageCount(e.bytes) - 1 \in Pages
    BY <2>1 DEF IInv, Accounted
  <2>. QED
    BY <1>2, <2>2, NumPagesNat DEF Pages
<1>. QED
  BY <1>3, <1>4

\* The owner of an extent can always give it back.
THEOREM HeldIsFreeable == Spec => []HeldFreeable
<1>1. IInv /\ Nonzero => HeldFreeable
  <2> SUFFICES ASSUME IInv, Nonzero, NEW e \in live
               PROVE  Freeable(e.page * PageSize, e.bytes)
    BY DEF HeldFreeable
  <2>1. e \in Extent
    BY DEF IInv, TypeOK
  <2>2. PageCount(e.bytes) \in Nat /\ e.page \in Nat /\ e.page <= num_pages - 1
    BY <2>1, ExtentPagesNat, NumPagesNat DEF Extent, Pages
  <2>3. (e.page * PageSize) \div PageSize = e.page
    BY <2>2, MulDiv, BAConstants
  <2>4. e.page * PageSize < TotalBytes
    <3>1. num_pages * PageSize <= TotalBytes + PageSize - 1
      BY DivFacts, BAConstants DEF num_pages
    <3>2. (e.page + 1) * PageSize <= num_pages * PageSize
      BY <2>2, MulMono, NumPagesNat, BAConstants
    <3>3. (e.page + 1) * PageSize = e.page * PageSize + PageSize
      BY <2>2, BAConstants
    <3>. QED
      BY <2>2, <3>1, <3>2, <3>3, BAConstants, NumPagesNat
  <2>5. \A i \in ExtentPages(e) : i \notin bitmap
    BY DEF IInv, Accounted
  <2>. QED
    BY <2>3, <2>4, <2>5, ExtentFits DEF Freeable, Nonzero, ExtentPages
<1>. QED
  BY <1>1, Invariance, NonzeroInvariant, PTL

\* Byte counts whose rounding does not wrap.
NoWrap == \A n \in Requests : n + PageSize - 1 < WordSize

LEMMA PageCountCovers ==
  ASSUME NoWrap, NEW n \in Requests
  PROVE  n <= PageCount(n) * PageSize
<1>1. n \in Nat /\ n + PageSize - 1 \in Nat
  BY InputsNat, BAConstants
<1>2. (n + PageSize - 1) % WordSize = n + PageSize - 1
  BY <1>1, BAConstants DEF NoWrap
<1>3. PageCount(n) = (n + PageSize - 1) \div PageSize
  BY <1>2 DEF PageCount
<1>4. n + PageSize - 1 < (PageCount(n) + 1) * PageSize /\ PageCount(n) \in Nat
  BY <1>1, <1>3, DivFacts, BAConstants
<1>5. (PageCount(n) + 1) * PageSize = PageCount(n) * PageSize + PageSize
  BY <1>4, BAConstants
<1>. QED
  BY <1>1, <1>4, <1>5, BAConstants

\* As long as no request is within a page of 2^64, every grant holds the bytes
\* asked for, which is what the header promises of ba_alloc.
THEOREM GrantsCover == ASSUME NoWrap PROVE Spec => []CoversRequest
<1>1. TypeOK => CoversRequest
  BY PageCountCovers DEF TypeOK, Extent, CoversRequest
<1>. QED
  BY <1>1, TypeCorrect, PTL

\* Bitmap, counter and extents agree, and an extent holds what was asked for, in
\* every history of calls on every arena.
THEOREM GrantsAreSound == ASSUME NoWrap PROVE Spec => []GrantsSound
<1>1. Accounted /\ CounterExact /\ CoversRequest => GrantsSound
  BY DEF GrantsSound
<1>. QED
  BY <1>1, PagesAccounted, CounterIsExact, GrantsCover, PTL

\* And when the arena is a whole number of pages, every grant lies inside it.
THEOREM GrantsInArena ==
  ASSUME NoWrap, TotalBytes % PageSize = 0 PROVE Spec => []InArena
<1>1. num_pages * PageSize = TotalBytes
  <2>1. num_pages \in Nat /\ num_pages * PageSize <= TotalBytes + PageSize - 1
        /\ TotalBytes + PageSize - 1 < (num_pages + 1) * PageSize
    BY DivFacts, BAConstants DEF num_pages
  <2>2. TotalBytes = (TotalBytes \div PageSize) * PageSize /\ TotalBytes \div PageSize \in Nat
    BY BAConstants
  <2> DEFINE k == TotalBytes \div PageSize
  <2>3. ~ (k + 1 <= num_pages)
    <3>1. (k + 1) * PageSize = TotalBytes + PageSize
      BY <2>2, BAConstants
    <3>2. k + 1 <= num_pages => (k + 1) * PageSize <= num_pages * PageSize
      BY <2>1, <2>2, MulMono, BAConstants
    <3>. QED
      BY <2>1, <3>1, <3>2, BAConstants
  <2>4. ~ (num_pages + 1 <= k)
    <3>1. num_pages + 1 <= k => (num_pages + 1) * PageSize <= k * PageSize
      BY <2>1, <2>2, MulMono, BAConstants
    <3>. QED
      BY <2>1, <2>2, <3>1, BAConstants
  <2>5. num_pages = k
    BY <2>1, <2>2, <2>3, <2>4
  <2>. QED
    BY <2>2, <2>5
<1>2. IInv => InArena
  <2> SUFFICES ASSUME IInv, NEW e \in live
               PROVE  e.page * PageSize + e.bytes <= TotalBytes
    BY DEF InArena
  <2>1. e \in Extent /\ e.bytes \in Requests
    BY DEF IInv, TypeOK, Extent
  <2>2. PageCount(e.bytes) \in Nat /\ e.page \in Nat /\ e.bytes \in Nat
    BY ZenonT(20), <2>1, ExtentPagesNat, InputsNat
  <2>3. e.bytes <= PageCount(e.bytes) * PageSize
    BY <2>1, PageCountCovers
  <2>4. (e.page + PageCount(e.bytes)) * PageSize <= num_pages * PageSize
    BY <2>2, ExtentFits, MulMono, NumPagesNat, BAConstants
  <2>5. (e.page + PageCount(e.bytes)) * PageSize =
          e.page * PageSize + PageCount(e.bytes) * PageSize
    BY <2>2, BAConstants
  <2>. QED
    BY <1>1, <2>2, <2>3, <2>4, <2>5, BAConstants
<1>. QED
  BY <1>2, Invariance, PTL

-----------------------------------------------------------------------------
\* Extents of non-wrapping, non-empty requests have at least one page.
LEMMA ExtentNonempty ==
  ASSUME NoWrap, NEW e \in Extent, e.bytes # 0
  PROVE  /\ e.page \in ExtentPages(e)
         /\ PageCount(e.bytes) >= 1
<1>1. e.bytes \in Requests /\ e.page \in Nat /\ PageCount(e.bytes) \in Nat /\ e.bytes \in Nat
  BY ZenonT(20), ExtentPagesNat, InputsNat DEF Extent
<1>2. e.bytes <= PageCount(e.bytes) * PageSize
  BY <1>1, PageCountCovers
<1>3. PageCount(e.bytes) # 0
  BY <1>1, <1>2, BAConstants
<1>. QED
  BY <1>1, <1>3 DEF ExtentPages, Span

\* The bitmap allocator implements the abstract allocator of exclusive extents,
\* for every arena and every set of requests whose rounding does not wrap.
THEOREM Refinement == ASSUME NoWrap PROVE Spec => RefinesPageAllocator
<1> DEFINE Owned == { ExtentPages(e) : e \in live }
<1>1. Init => PA!PInit
  BY InputsNat DEF Init, PA!PInit
<1>2. IInv /\ IInv' /\ Nonzero /\ [Next]_vars => [PA!PNext]_(PA!pvars)
  <2> SUFFICES ASSUME IInv, IInv', Nonzero, [Next]_vars
               PROVE  [PA!PNext]_(PA!pvars)
    OBVIOUS
  <2>1. ASSUME NEW n \in Requests, ba_alloc_ok(n) PROVE PA!PNext
    <3> DEFINE first == find_free_run(PageCount(n))
               count == PageCount(n)
               new == [page |-> first, bytes |-> n]
               S == ExtentPages(new)
    <3>1. /\ count \in Nat /\ first \in Pages
          /\ Span(first, count) \subseteq bitmap
          /\ first + count <= num_pages
      BY <2>1, GrantIsFree DEF IInv
    <3>2. new \in Extent /\ S = Span(first, count) /\ new.bytes # 0 /\ new.page = first
          /\ new.bytes = n
      BY <2>1, <3>1 DEF Extent, ExtentPages, ba_alloc_ok
    <3>3. live' = live \cup {new}
      BY <2>1 DEF ba_alloc_ok
    <3>. HIDE DEF first, count, new
    <3>4. first \in S /\ count >= 1
      BY <3>2, ExtentNonempty DEF count
    <3>5. first + count - 1 \in Pages
      BY <3>1, <3>4, NumPagesNat DEF Pages
    <3>6. S \in PA!Runs
      BY <3>1, <3>2, <3>5 DEF PA!Runs, Span
    <3>7. S \subseteq Pages
      BY <3>1, <3>2 DEF IInv, TypeOK
    <3>8. \A T \in Owned : S \cap T = {}
      BY <3>1, <3>2 DEF IInv, Accounted
    <3>9. Owned' = Owned \cup {S}
      BY <3>3
    <3>. QED
      BY <3>4, <3>6, <3>7, <3>8, <3>9 DEF PA!PNext, PA!Acquire
  <2>2. ASSUME NEW e \in live, ba_free_ok(e.page * PageSize, e.bytes)
        PROVE  PA!PNext
    <3>1. e \in Extent /\ e.bytes # 0
      BY DEF IInv, TypeOK, Nonzero
    <3>2. (e.page * PageSize) \div PageSize = e.page
      BY <3>1, MulDiv, BAConstants, ExtentPagesNat
    <3>3. live' = live \ {e}
      BY <2>2, <3>1, <3>2 DEF ba_free_ok, Extent
    <3>4. \A f \in live : f # e => ExtentPages(f) # ExtentPages(e)
      BY <3>1, ExtentNonempty DEF IInv, Exclusive
    <3>5. Owned' = Owned \ {ExtentPages(e)}
      BY <3>3, <3>4
    <3>6. ExtentPages(e) \in Owned
      OBVIOUS
    <3>. QED
      BY <3>5, <3>6 DEF PA!PNext, PA!Release
  <2>3. CASE UNCHANGED live
    BY <2>3 DEF PA!pvars
  <2>4. CASE FreeStray
    <3>1. PICK offset \in 0 .. TotalBytes, n \in Requests :
            Stray(offset, n) /\ ba_free(offset, n)
      BY <2>4 DEF FreeStray
    <3>2. ba_free_reject(offset, n)
      BY <3>1, StrayRefused DEF ba_free, ba_free_ok
    <3>. QED
      BY <2>3, <3>2 DEF ba_free_reject
  <2>5. CASE FreeHeld
    BY <2>2, <2>3, <2>5 DEF FreeHeld, ba_free, ba_free_reject
  <2>. QED
    BY <2>1, <2>3, <2>4, <2>5 DEF Next, vars, ba_alloc_fail, ba_alloc_zero
<1>. QED
  BY <1>1, <1>2, Invariance, NonzeroInvariant, PTL DEF Spec, RefinesPageAllocator, PA!PSpec

-----------------------------------------------------------------------------
(* The search loops, and ba_alloc with its loop.                           *)

\* The first fit is unique, so a loop that reaches one has the answer.
LEMMA FirstFitIs ==
  ASSUME NEW S, NEW lo \in Nat, NEW hi \in Nat, NEW n \in Nat,
         NEW q \in lo .. (hi - 1), IsFirstFit(S, lo, hi, q, n)
  PROVE  FirstFitFrom(S, lo, hi, n) = q
<1>1. \E r \in lo .. (hi - 1) : IsFirstFit(S, lo, hi, r, n)
  OBVIOUS
<1> DEFINE r == CHOOSE r \in lo .. (hi - 1) : IsFirstFit(S, lo, hi, r, n)
<1>2. FirstFitFrom(S, lo, hi, n) = r
  BY <1>1 DEF FirstFitFrom
<1>3. r \in lo .. (hi - 1) /\ IsFirstFit(S, lo, hi, r, n)
  BY <1>1
<1>. HIDE DEF r
<1>4. ~ (r < q) /\ ~ (q < r)
  BY <1>3 DEF IsFirstFit
<1>. QED
  BY <1>2, <1>3, <1>4

LEMMA NoFitIsEnd ==
  ASSUME NEW S, NEW lo \in Nat, NEW hi \in Nat, NEW n \in Nat,
         \A q \in lo .. (hi - 1) : ~ RunAt(S, hi, q, n)
  PROVE  FirstFitFrom(S, lo, hi, n) = hi
  BY DEF FirstFitFrom, IsFirstFit

\* The loop invariant of find_free_run: no run starts before the cursor.
FindInv ==
  fres = Running => \A q \in start .. (page - 1) : ~ RunAt(free, end, q, npages)

\* The loop invariant of bm_find_free: the current run of free pages is
\* found .. cur - 1, it is still too short, and no run starts before it.
BmInv ==
  bres = Running =>
    /\ npages > 0
    /\ consecutive < npages
    /\ consecutive > 0 => /\ found + consecutive = cur
                          /\ \A i \in found .. (cur - 1) : i \in free
    /\ \A q \in start .. ((cur - consecutive) - 1) : ~ RunAt(free, end, q, npages)
    /\ start <= cur - consecutive

SInv == SearchTypeOK /\ FindInv /\ BmInv /\ FindIsFirstFit /\ BmIsFirstFit

LEMMA InitSInv == SearchInit => SInv
<1> SUFFICES ASSUME SearchInit PROVE SInv
  OBVIOUS
<1>. USE SearchConstants
<1>1. SearchTypeOK
  BY DEF SearchInit, SearchTypeOK, Running, end
<1>2. FindInv /\ BmInv /\ FindIsFirstFit
  BY DEF SearchInit, FindInv, BmInv, FindIsFirstFit, Running, end
<1>3. BmIsFirstFit
  <2>1. CASE npages = 0
    BY <2>1 DEF SearchInit, BmIsFirstFit
  <2>2. CASE npages # 0 /\ start >= end
    <3>1. FirstFitFrom(free, start, end, npages) = end
      BY <2>2, NoFitIsEnd DEF SearchInit, end
    <3>. QED
      BY <2>2, <3>1 DEF SearchInit, BmIsFirstFit
  <2>3. CASE npages # 0 /\ ~ (start >= end)
    BY <2>3 DEF SearchInit, BmIsFirstFit
  <2>. QED
    BY <2>1, <2>2, <2>3
<1>. QED
  BY <1>1, <1>2, <1>3 DEF SInv

\* What each loop does leaves the other's part of the invariant alone.
LEMMA FindKeepsBm ==
  ASSUME SInv, UNCHANGED <<BmVars, Args>>
  PROVE  BmInv' /\ BmIsFirstFit'
  BY DEF SInv, BmInv, BmIsFirstFit, BmVars, Args, end

LEMMA BmKeepsFind ==
  ASSUME SInv, UNCHANGED <<RunVars, Args>>
  PROVE  FindInv' /\ FindIsFirstFit'
  BY DEF SInv, FindInv, FindIsFirstFit, RunVars, Args, end

LEMMA FindReturnSInv == SInv /\ FindReturn => SInv'
<1> SUFFICES ASSUME SInv, FindReturn PROVE SInv'
  OBVIOUS
<1>. USE SearchConstants DEF end
<1>1. BmInv' /\ BmIsFirstFit'
  BY FindKeepsBm DEF FindReturn
<1>2. UNCHANGED <<free, start, npages, page, cur, found, consecutive, bres>>
      /\ fres = Running
  BY DEF FindReturn, BmVars, Args
<1>3. /\ start \in Nat /\ npages \in Nat /\ page \in Nat /\ start <= page /\ page <= end
      /\ free \subseteq 0 .. (end - 1)
  BY DEF SInv, SearchTypeOK
<1>4. \A q \in start .. (page - 1) : ~ RunAt(free, end, q, npages)
  BY ZenonT(20), <1>2 DEF SInv, FindInv
<1>5. CASE page + npages > end /\ fres' = end
  <2>1. \A q \in start .. (end - 1) : ~ RunAt(free, end, q, npages)
    BY <1>3, <1>4, <1>5 DEF RunAt
  <2>2. fres' = FirstFitFrom(free, start, end, npages)
    BY <1>3, <1>5, <2>1, NoFitIsEnd
  <2>3. SearchTypeOK'
    BY <1>2, <1>5 DEF SInv, SearchTypeOK
  <2>. QED
    BY ZenonT(20), <1>1, <1>2, <1>5, <2>2, <2>3 DEF SInv, FindInv, FindIsFirstFit, Running
<1>6. CASE page + npages <= end /\ (WholeByteFree \/ Broken = {}) /\ fres' = page
  <2>1. RunAt(free, end, page, npages)
    <3>1. CASE WholeByteFree
      <4>1. ASSUME NEW j \in page .. (page + npages - 1) PROVE j \in free
        <5>1. j - page \in 0 .. (Byte - 1) /\ page + (j - page) = j
          BY <1>3, <3>1 DEF WholeByteFree
        <5>. QED
          BY <3>1, <5>1 DEF WholeByteFree
      <4>. QED
        BY <1>6, <4>1 DEF RunAt
    <3>2. CASE Broken = {}
      <4>1. ASSUME NEW j \in page .. (page + npages - 1) PROVE j \in free
        <5>1. j - page \in 0 .. (npages - 1) /\ page + (j - page) = j
          BY <1>3
        <5>. QED
          BY <3>2, <5>1 DEF Broken
      <4>. QED
        BY <1>6, <4>1 DEF RunAt
    <3>. QED
      BY <1>6, <3>1, <3>2
  <2>2. IsFirstFit(free, start, end, page, npages)
    BY <1>4, <2>1 DEF IsFirstFit
  <2>3. fres' = FirstFitFrom(free, start, end, npages)
    <3>1. CASE page < end
      BY <1>3, <1>6, <2>2, <3>1, FirstFitIs
    <3>2. CASE page = end
      BY <1>3, <1>4, <1>6, <3>2, NoFitIsEnd
    <3>. QED
      BY <1>3, <3>1, <3>2
  <2>4. SearchTypeOK'
    BY <1>2, <1>3, <1>6 DEF SInv, SearchTypeOK
  <2>. QED
    BY <1>1, <1>2, <1>3, <1>6, <2>3, <2>4 DEF SInv, FindInv, FindIsFirstFit, Running
<1>. QED
  BY <1>5, <1>6 DEF FindReturn

LEMMA FindSkipSInv == SInv /\ FindSkip => SInv'
<1> SUFFICES ASSUME SInv, FindSkip PROVE SInv'
  OBVIOUS
<1>. USE SearchConstants DEF end
<1>1. BmInv' /\ BmIsFirstFit'
  BY FindKeepsBm DEF FindSkip
<1>2. UNCHANGED <<free, start, npages, fres, cur, found, consecutive, bres>>
      /\ fres = Running /\ page + npages <= end
  BY DEF FindSkip, BmVars, Args
<1>3. /\ start \in Nat /\ npages \in Nat /\ page \in Nat /\ start <= page /\ page <= end
      /\ free \subseteq 0 .. (end - 1)
  BY DEF SInv, SearchTypeOK
<1>4. \A q \in start .. (page - 1) : ~ RunAt(free, end, q, npages)
  BY <1>2 DEF SInv, FindInv
<1>5. PICK i \in Broken : page' = page + i + 1
  BY DEF FindSkip
<1>6. i \in 0 .. (npages - 1) /\ page + i \notin free
  BY DEF Broken
<1>7. \A q \in page .. (page + i) : ~ RunAt(free, end, q, npages)
  BY <1>3, <1>6 DEF RunAt
<1>8. FindInv'
  BY <1>2, <1>3, <1>4, <1>5, <1>6, <1>7 DEF FindInv
<1>9. SearchTypeOK'
  <2>1. SearchTypeOK
    BY DEF SInv
  <2>2. page' \in start .. NumPages
    BY <1>2, <1>3, <1>5, <1>6
  <2>. QED
    BY <1>2, <2>1, <2>2 DEF SearchTypeOK
<1>. QED
  BY <1>1, <1>2, <1>8, <1>9 DEF SInv, FindIsFirstFit

LEMMA BmGiveUpSInv == SInv /\ BmGiveUp => SInv'
<1> SUFFICES ASSUME SInv, BmGiveUp PROVE SInv'
  OBVIOUS
<1>. USE SearchConstants DEF end
<1>1. FindInv' /\ FindIsFirstFit'
  BY BmKeepsFind DEF BmGiveUp
<1>2. UNCHANGED <<free, start, npages, page, fres, cur, found, consecutive>>
      /\ bres = Running /\ cur >= end /\ bres' = end
  BY DEF BmGiveUp, RunVars, Args
<1>3. start \in Nat /\ npages \in Nat /\ cur = end /\ consecutive \in Nat
  BY <1>2 DEF SInv, SearchTypeOK
<1>4. /\ npages > 0 /\ consecutive < npages
      /\ \A q \in start .. ((cur - consecutive) - 1) : ~ RunAt(free, end, q, npages)
  BY <1>2 DEF SInv, BmInv
<1>5. \A q \in start .. (end - 1) : ~ RunAt(free, end, q, npages)
  BY <1>3, <1>4 DEF RunAt
<1>6. bres' = FirstFitFrom(free, start, end, npages)
  BY <1>2, <1>3, <1>5, NoFitIsEnd
<1>7. SearchTypeOK'
  BY <1>2 DEF SInv, SearchTypeOK
<1>. QED
  BY ZenonT(20), <1>1, <1>2, <1>4, <1>6, <1>7 DEF SInv, BmInv, BmIsFirstFit, Running

LEMMA BmFreeSInv == SInv /\ BmFree => SInv'
<1> SUFFICES ASSUME SInv, BmFree PROVE SInv'
  OBVIOUS
<1>. USE SearchConstants DEF end
<1>1. FindInv' /\ FindIsFirstFit'
  BY BmKeepsFind DEF BmFree
<1>2. /\ UNCHANGED <<free, start, npages, page, fres>>
      /\ bres = Running /\ cur < end /\ cur \in free
      /\ found' = IF consecutive = 0 THEN cur ELSE found
      /\ consecutive' = consecutive + 1
      /\ bres' = IF consecutive' >= npages THEN found' ELSE Running
      /\ cur' = cur + 1
  BY DEF BmFree, RunVars, Args
<1>3. /\ start \in Nat /\ npages \in Nat /\ cur \in Nat /\ found \in Nat
      /\ consecutive \in Nat /\ start <= cur /\ start <= found /\ found <= end
  BY DEF SInv, SearchTypeOK
<1>4. /\ npages > 0 /\ consecutive < npages /\ start <= cur - consecutive
      /\ consecutive > 0 => /\ found + consecutive = cur
                            /\ \A i \in found .. (cur - 1) : i \in free
      /\ \A q \in start .. ((cur - consecutive) - 1) : ~ RunAt(free, end, q, npages)
  BY <1>2 DEF SInv, BmInv
<1>5. found' = cur - consecutive /\ found' + consecutive' = cur'
  BY <1>2, <1>3, <1>4
<1>6. \A i \in found' .. (cur' - 1) : i \in free
  BY <1>2, <1>3, <1>4, <1>5
<1>7. SearchTypeOK'
  <2>1. found' \in start .. NumPages /\ cur' \in start .. NumPages
        /\ consecutive' \in 0 .. NumPages
    BY <1>2, <1>3, <1>4, <1>5
  <2>2. bres' \in {Running} \cup (0 .. NumPages)
    BY <1>2, <1>3, <2>1
  <2>. QED
    BY <1>2, <2>1, <2>2 DEF SInv, SearchTypeOK
<1>8. CASE consecutive' >= npages
  <2>1. bres' = found' /\ consecutive' = npages
    BY <1>2, <1>3, <1>4, <1>8
  <2>2. RunAt(free, end, found', npages)
    BY <1>2, <1>3, <1>5, <1>6, <2>1 DEF RunAt
  <2>3. IsFirstFit(free, start, end, found', npages)
    BY <1>4, <1>5, <2>2 DEF IsFirstFit
  <2>4. found' \in start .. (end - 1)
    BY <1>2, <1>3, <1>4, <1>5
  <2>5. bres' = FirstFitFrom(free, start, end, npages)
    BY <1>3, <2>1, <2>3, <2>4, FirstFitIs
  <2>. QED
    BY <1>1, <1>2, <1>3, <1>4, <1>7, <2>1, <2>4, <2>5
       DEF SInv, BmInv, BmIsFirstFit, Running
<1>9. CASE ~ (consecutive' >= npages)
  <2>1. bres' = Running /\ consecutive' < npages
    BY <1>2, <1>3, <1>9
  <2>2. BmInv'
    BY <1>2, <1>3, <1>4, <1>5, <1>6, <2>1 DEF BmInv
  <2>. QED
    BY <1>1, <1>7, <2>1, <2>2 DEF SInv, BmIsFirstFit
<1>. QED
  BY <1>8, <1>9

LEMMA BmTakenSInv == SInv /\ BmTaken => SInv'
<1> SUFFICES ASSUME SInv, BmTaken PROVE SInv'
  OBVIOUS
<1>. USE SearchConstants DEF end
<1>1. FindInv' /\ FindIsFirstFit'
  BY BmKeepsFind DEF BmTaken
<1>2. /\ UNCHANGED <<free, start, npages, page, fres, found, bres>>
      /\ bres = Running /\ cur < end /\ cur \notin free
      /\ consecutive' = 0 /\ cur' = cur + 1
  BY DEF BmTaken, RunVars, Args
<1>3. /\ start \in Nat /\ npages \in Nat /\ cur \in Nat
      /\ consecutive \in Nat /\ start <= cur
  BY DEF SInv, SearchTypeOK
<1>4. /\ npages > 0 /\ consecutive < npages
      /\ \A q \in start .. ((cur - consecutive) - 1) : ~ RunAt(free, end, q, npages)
  BY <1>2 DEF SInv, BmInv
<1>5. \A q \in (cur - consecutive) .. cur : ~ RunAt(free, end, q, npages)
  BY <1>2, <1>3, <1>4 DEF RunAt
<1>6. BmInv'
  <2>1. \A q \in start .. cur : ~ RunAt(free, end, q, npages)
    BY <1>3, <1>4, <1>5
  <2>2. (cur' - consecutive') - 1 = cur /\ start <= cur' - consecutive'
    BY <1>2, <1>3
  <2>. QED
    BY <1>2, <1>4, <2>1, <2>2 DEF BmInv
<1>7. SearchTypeOK'
  BY <1>2, <1>3 DEF SInv, SearchTypeOK
<1>. QED
  BY <1>1, <1>2, <1>6, <1>7 DEF SInv, BmIsFirstFit

LEMMA SearchInvariance == SearchSpec => []SInv
<1>1. SInv /\ UNCHANGED svars => SInv'
  BY DEF svars, SInv, SearchTypeOK, FindInv, BmInv, FindIsFirstFit, BmIsFirstFit, end
<1>2. SInv /\ [SearchNext]_svars => SInv'
  BY <1>1, FindReturnSInv, FindSkipSInv, BmGiveUpSInv, BmFreeSInv, BmTakenSInv
     DEF SearchNext
<1>. QED
  BY <1>2, InitSInv, PTL DEF SearchSpec

-----------------------------------------------------------------------------
\* find_free_run computes the first fit, whatever the bitmap and the byte width.
THEOREM FindFreeRunCorrect == SearchSpec => []FindIsFirstFit
<1>1. SInv => FindIsFirstFit
  BY DEF SInv
<1>. QED
  BY <1>1, SearchInvariance, PTL

\* bm_find_free computes the first fit of its window, and refuses the empty
\* request.
THEOREM BmFindFreeCorrect == SearchSpec => []BmIsFirstFit
<1>1. SInv => BmIsFirstFit
  BY DEF SInv
<1>. QED
  BY <1>1, SearchInvariance, PTL

-----------------------------------------------------------------------------
(* ba_alloc around the loops.                                              *)

\* What the caller that holds the lock knows while its search runs: nobody can
\* have changed the bitmap or the counter since it tested them.
HolderInv ==
  holder # NoCall =>
    /\ holder \in Requests /\ holder # 0
    /\ free = bitmap /\ start = 0 /\ npages = PageCount(holder)
    /\ npages <= num_pages /\ npages <= free_pages

AInv == IInv /\ SInv /\ HolderInv

LEMMA EndIsNumPages == end = num_pages /\ end \in Nat \ {0}
  BY SameBitmap, NumPagesNat DEF end

LEMMA RestSInv == AtRest => SInv
<1> SUFFICES ASSUME AtRest PROVE SInv
  OBVIOUS
<1>1. RunAt({}, end, 0, 0)
  BY EndIsNumPages DEF RunAt
<1>2. FirstFitFrom({}, 0, end, 0) = 0
  BY <1>1, FirstFitIs, EndIsNumPages DEF IsFirstFit
<1>3. SearchTypeOK
  BY EndIsNumPages DEF AtRest, SearchTypeOK, end
<1>4. FindInv /\ BmInv
  BY EndIsNumPages DEF AtRest, FindInv, BmInv, Running
<1>5. FindIsFirstFit /\ BmIsFirstFit
  BY <1>2 DEF AtRest, FindIsFirstFit, BmIsFirstFit
<1>. QED
  BY <1>3, <1>4, <1>5 DEF SInv

\* The loops keep their invariant when a call begins, iterates or returns.
LEMMA BeginSInv == ASSUME SearchInit' PROVE SInv'
  BY InitSInv, PTL

LEMMA ForgetSInv == ASSUME AtRest' PROVE SInv'
  BY RestSInv, PTL

\* A search never changes what it was called with.
LEMMA LoopArgs == ASSUME SearchNext PROVE UNCHANGED <<free, start, npages>>
<1>1. CASE FindReturn
  BY <1>1 DEF FindReturn, Args
<1>2. CASE FindSkip
  BY <1>2 DEF FindSkip, Args
<1>3. CASE BmGiveUp
  BY <1>3 DEF BmGiveUp, Args
<1>4. CASE BmFree
  BY <1>4 DEF BmFree, Args
<1>5. CASE BmTaken
  BY <1>5 DEF BmTaken, Args
<1>. QED
  BY <1>1, <1>2, <1>3, <1>4, <1>5 DEF SearchNext

LEMMA LoopSInv == ASSUME SInv, [SearchNext]_svars PROVE SInv'
<1>1. CASE UNCHANGED svars
  BY <1>1 DEF svars, SInv, SearchTypeOK, FindInv, BmInv, FindIsFirstFit, BmIsFirstFit, end
<1>. QED
  BY <1>1, FindReturnSInv, FindSkipSInv, BmGiveUpSInv, BmFreeSInv, BmTakenSInv
     DEF SearchNext

-----------------------------------------------------------------------------
\* A step of the allocator with its loop is a step of the atomic one, or none.
LEMMA LeaveIsCall == AInv /\ Leave => ba_alloc_ok(holder) \/ ba_alloc_fail(holder)
<1> SUFFICES ASSUME AInv, Leave PROVE ba_alloc_ok(holder) \/ ba_alloc_fail(holder)
  OBVIOUS
<1>1. /\ holder \in Requests /\ holder # 0 /\ free = bitmap /\ start = 0
      /\ npages = PageCount(holder) /\ npages <= num_pages /\ npages <= free_pages
  BY DEF AInv, HolderInv, Leave
<1>2. fres = find_free_run(PageCount(holder))
  BY <1>1, EndIsNumPages DEF AInv, SInv, FindIsFirstFit, Leave, find_free_run
<1>3. CASE fres < num_pages
  BY <1>1, <1>2, <1>3 DEF Leave, ba_alloc_ok
<1>4. CASE ~ (fres < num_pages)
  <2>1. fres \in Int /\ num_pages \in Int
    BY EndIsNumPages DEF AInv, SInv, SearchTypeOK, Running, end
  <2>2. find_free_run(PageCount(holder)) >= num_pages
    BY <1>2, <1>4, <2>1
  <2>. QED
    BY <1>1, <1>4, <2>2 DEF Leave, ba_alloc_fail
<1>. QED
  BY <1>3, <1>4

LEMMA StepIsCall == AInv /\ [AllocNext]_avars => [Next]_vars
<1> SUFFICES ASSUME AInv, [AllocNext]_avars PROVE [Next]_vars
  OBVIOUS
<1>1. ASSUME NEW n \in Requests, Enter(n) PROVE UNCHANGED vars
  BY <1>1 DEF Enter
<1>2. CASE Loop
  BY <1>2 DEF Loop
<1>3. CASE Leave
  BY <1>3, LeaveIsCall DEF Next, AInv, HolderInv, Leave
<1>4. CASE Short
  BY <1>4 DEF Short, TooLarge, Next
<1>5. CASE UNCHANGED avars
  BY <1>5 DEF avars
<1>. QED
  BY <1>1, <1>2, <1>3, <1>4, <1>5 DEF AllocNext

LEMMA InitAInv == AllocInit => AInv
  BY InitIInv, RestSInv DEF AllocInit, AInv, HolderInv

LEMMA NextAInv == AInv /\ [AllocNext]_avars => AInv'
<1> SUFFICES ASSUME AInv, [AllocNext]_avars PROVE AInv'
  OBVIOUS
<1>1. IInv'
  BY StepIsCall, NextIInv DEF AInv
<1>2. ASSUME NEW n \in Requests, Enter(n) PROVE SInv' /\ HolderInv'
  <2>1. n \in Nat /\ PageCount(n) \in Nat /\ PageCount(n) <= num_pages
    BY <1>2, PageCountNat, InputsNat DEF Enter
  <2>2. bitmap \subseteq 0 .. (NumPages - 1)
    BY SameBitmap DEF AInv, IInv, TypeOK, Pages
  <2>3. SearchInit'
    BY <1>2, <2>1, <2>2, SearchConstants, EndIsNumPages DEF Enter, Search, SearchInit, end
  <2>4. HolderInv'
    BY <1>2 DEF Enter, Search, HolderInv, vars
  <2>. QED
    BY <2>3, <2>4, BeginSInv
<1>3. CASE Loop
  <2>1. SInv'
    BY <1>3, LoopSInv DEF Loop, AInv
  <2>2. UNCHANGED <<free, start, npages>>
    BY <1>3, LoopArgs DEF Loop
  <2>3. HolderInv'
    <3>1. HolderInv
      BY DEF AInv
    <3>2. UNCHANGED <<bitmap, free_pages, holder>>
      BY ZenonT(20), <1>3 DEF Loop, vars
    <3>. QED
      BY <2>2, <3>1, <3>2 DEF HolderInv
  <2>. QED
    BY <1>1, <2>1, <2>3 DEF AInv
<1>4. CASE Leave
  <2>1. AtRest'
    BY <1>4 DEF Leave, Forget, AtRest, end
  <2>. QED
    BY <1>1, <1>4, <2>1, ForgetSInv DEF Leave, HolderInv, AInv
<1>5. CASE Short
  BY <1>1, <1>5, LoopSInv DEF Short, AInv, HolderInv
<1>6. CASE UNCHANGED avars
  BY <1>1, <1>6, LoopSInv DEF avars, vars, svars, AInv, HolderInv
<1>. QED
  BY <1>1, <1>2, <1>3, <1>4, <1>5, <1>6 DEF AllocNext, AInv

LEMMA AllocInvariance == AllocSpec => []AInv
  BY InitAInv, NextAInv, PTL DEF AllocSpec

\* ba_alloc searching page by page under its lock implements the ba_alloc that
\* finds the first fit in one step: whatever holds of the atomic allocator
\* holds of the code's loop.
THEOREM LoopRefinement == AllocSpec => RefinesBitmapAllocator
<1>1. AllocInit => Init
  BY DEF AllocInit
<1>. QED
  BY <1>1, AllocInvariance, StepIsCall, PTL DEF AllocSpec, RefinesBitmapAllocator, Spec

\* Both loops return the first fit of the bitmap they were started on, in every
\* history of calls.
THEOREM SearchesCorrect == AllocSpec => []SearchesFirstFit
<1>1. AInv => SearchesFirstFit
  BY DEF AInv, SInv, SearchesFirstFit
<1>. QED
  BY <1>1, AllocInvariance, PTL

\* With the loop, NO_MEMORY is still answered only when no run is long enough.
THEOREM LoopAllocComplete == AllocSpec => AllocComplete
  BY LoopRefinement, AllocIsComplete DEF RefinesBitmapAllocator

\* With the loop, bitmap, counter and extents agree in every history of calls on
\* every arena, and an extent holds the bytes asked for unless they are within a
\* page of 2^64.
THEOREM LoopGrantsSound == ASSUME NoWrap PROVE AllocSpec => []GrantsSound
  BY LoopRefinement, GrantsAreSound, PTL DEF RefinesBitmapAllocator

\* The loop under its lock implements the abstract allocator of exclusive extents.
THEOREM LoopRefinesPages == ASSUME NoWrap PROVE AllocSpec => RefinesPageAllocator
  BY LoopRefinement, Refinement, PTL DEF RefinesBitmapAllocator
=============================================================================
