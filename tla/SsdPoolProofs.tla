---------------------------- MODULE SsdPoolProofs ----------------------------
(***************************************************************************)
(* Theorems about the SSD pool, for any number and size of devices, every  *)
(* page and word size and every set of requests.                           *)
(***************************************************************************)
EXTENDS SsdPool, FiniteSetTheorems, WellFoundedInduction, TLAPS

\* Pages and bytes.
LEMMA DivFacts ==
  ASSUME NEW a \in Nat, NEW b \in Nat \ {0}
  PROVE  /\ a \div b \in Nat
         /\ (a \div b) * b <= a
         /\ a < ((a \div b) + 1) * b
  OBVIOUS

LEMMA MulDiv ==
  ASSUME NEW a \in Nat, NEW b \in Nat \ {0}
  PROVE  (a * b) \div b = a
  OBVIOUS

LEMMA MulMono ==
  ASSUME NEW a \in Nat, NEW b \in Nat, NEW c \in Nat, a <= b
  PROVE  a * c <= b * c
  OBVIOUS

\* Every non-empty set of naturals has a least element.
LEMMA LeastNat ==
  ASSUME NEW T, T \subseteq Nat, T # {}
  PROVE  \E x \in T : \A y \in T : x <= y
<1>1. PICK x \in T : \A y \in T : ~ (<<y, x>> \in OpToRel(<, Nat))
  BY ZenonT(20), NatLessThanWellFounded, WFMin
<1>2. ASSUME NEW y \in T PROVE x <= y
  <2>1. x \in Nat /\ y \in Nat
    OBVIOUS
  <2>2. ~ (<<y, x>> \in OpToRel(<, Nat))
    BY ZenonT(20), <1>1
  <2>3. ~ (y < x)
    BY <2>1, <2>2 DEF OpToRel
  <2>. QED
    BY <2>1, <2>3
<1>. QED
  BY <1>2

\* The search returns hi or a page of the range at which the run starts.
LEMMA FirstFitFound ==
  ASSUME NEW F, NEW lo \in Nat, NEW hi \in Nat, NEW n \in Nat,
         lo <= hi
  PROVE  LET p == FirstFitFrom(F, lo, hi, n)
         IN  /\ p \in lo .. hi
             /\ p < hi => RunAt(F, hi, p, n)
<1> DEFINE Fit(p) == IsFirstFit(F, lo, hi, p, n)
           p == FirstFitFrom(F, lo, hi, n)
<1>1. CASE \E q \in lo .. (hi - 1) : Fit(q)
  <2>1. p = CHOOSE q \in lo .. (hi - 1) : Fit(q)
    BY <1>1 DEF FirstFitFrom
  <2>2. p \in lo .. (hi - 1) /\ Fit(p)
    BY <1>1, <2>1
  <2>. QED
    BY <2>2 DEF IsFirstFit
<1>2. CASE ~ \E q \in lo .. (hi - 1) : Fit(q)
  <2>1. p = hi
    BY <1>2 DEF FirstFitFrom
  <2>. QED
    BY <2>1
<1>. QED
  BY <1>1, <1>2

\* When the search returns hi, no page of the range starts a long enough run.
LEMMA FirstFitComplete ==
  ASSUME NEW F, NEW lo \in Nat, NEW hi \in Nat, NEW n \in Nat,
         lo <= hi,
         FirstFitFrom(F, lo, hi, n) >= hi
  PROVE  \A p \in lo .. (hi - 1) : ~ RunAt(F, hi, p, n)
<1> SUFFICES ASSUME NEW p \in lo .. (hi - 1), RunAt(F, hi, p, n)
             PROVE  FALSE
  OBVIOUS
<1> DEFINE T == { q \in lo .. (hi - 1) : RunAt(F, hi, q, n) }
<1>1. T \subseteq Nat /\ T # {}
  OBVIOUS
<1>2. PICK q \in T : \A r \in T : q <= r
  BY ZenonT(20), <1>1, LeastNat
<1>3. IsFirstFit(F, lo, hi, q, n)
  BY <1>2 DEF IsFirstFit
<1>4. FirstFitFrom(F, lo, hi, n) \in lo .. (hi - 1)
  BY <1>3 DEF FirstFitFrom
<1>. QED
  BY <1>4

\* The pages of an extent, and how many they are.
LEMMA SpanSize ==
  ASSUME NEW p \in Nat, NEW n \in Nat
  PROVE  /\ IsFiniteSet(Span(p, n))
         /\ Cardinality(Span(p, n)) = n
         /\ Span(p, n) \subseteq Nat
<1>1. p + n - 1 \in Int
  OBVIOUS
<1>2. IsFiniteSet(p .. (p + n - 1)) /\
      Cardinality(p .. (p + n - 1)) =
        IF p > p + n - 1 THEN 0 ELSE (p + n - 1) - p + 1
  BY <1>1, FS_Interval
<1>. QED
  BY <1>2 DEF Span

-----------------------------------------------------------------------------

Base(d) == devices[d].virtual_base
Size(d) == devices[d].capacity

Device == [virtual_base : Nat, capacity : Nat]

\* A whole number of pages.
Whole(n) == \E k \in Nat : n = k * PageSize

\* The windows of the devices are whole pages of the pool, one after the other.
WindowsSound ==
  /\ devices \in Seq(Device)
  /\ total_pages \in Nat /\ total_capacity = total_pages * PageSize
  /\ \A d \in Dev : /\ Whole(Base(d)) /\ Whole(Size(d))
                    /\ Base(d) + Size(d) <= total_capacity
  /\ \A d, x \in Dev : d < x => Base(d) + Size(d) <= Base(x)

\* Where an extent may lie: in the window it was asked for.
InWindow(e) ==
  e.dev # AnyDevice =>
    /\ e.dev \in Dev
    /\ DevStart(e.dev) <= e.page
    /\ e.page + PageCount(e.bytes) <= DevStart(e.dev) + DevPages(e.dev)

\* The bits that are set are the pages of the extents, which do not overlap.
BitsSound ==
  /\ live \subseteq [page : Nat, bytes : Requests, dev : Nat]
  /\ bitmap \subseteq Pages
  /\ bitmap = UNION { ExtentPages(e) : e \in live }
  /\ \A e, f \in live : e # f => ExtentPages(e) \cap ExtentPages(f) = {}
  /\ \A e \in live : PageCount(e.bytes) >= 1 /\ InWindow(e)

\* The inductive invariant.  That extents lie on their device needs windows that
\* do not overlap; that a free takes away one extent and nobody else's bits
\* needs the exact bitmap, and so does the counter.
IInv == WindowsSound /\ BitsSound /\ CounterExact

-----------------------------------------------------------------------------
LEMMA RequestsNat == ASSUME NEW n \in Requests PROVE n \in Nat
<1>1. n \in 0 .. (WordSize - 1)
  BY PoolConstants
<1>. QED
  BY <1>1, PoolConstants

LEMMA PageCountNat == ASSUME NEW n \in Nat PROVE PageCount(n) \in Nat
<1>1. (n + PageSize - 1) % WordSize \in Nat
  BY PoolConstants
<1>. QED
  BY <1>1, DivFacts, PoolConstants DEF PageCount

\* The pages of a device that the searches go through.
LEMMA WindowPages ==
  ASSUME WindowsSound, NEW d \in Dev
  PROVE  /\ DevStart(d) \in Nat /\ DevPages(d) \in Nat
         /\ Base(d) = DevStart(d) * PageSize
         /\ Size(d) = DevPages(d) * PageSize
         /\ DevStart(d) + DevPages(d) <= total_pages
<1>1. PICK j \in Nat, k \in Nat : Base(d) = j * PageSize /\ Size(d) = k * PageSize
  BY DEF WindowsSound, Whole
<1>2. DevStart(d) = j /\ DevPages(d) = k
  BY <1>1, MulDiv, PoolConstants DEF DevStart, DevPages, Base, Size
<1>3. j * PageSize + k * PageSize = (j + k) * PageSize
  BY PoolConstants
<1>4. total_pages \in Nat /\ (j + k) * PageSize <= total_pages * PageSize
  BY <1>1, <1>3 DEF WindowsSound
<1>5. ~ (total_pages + 1 <= j + k)
  <2>1. total_pages + 1 <= j + k => (total_pages + 1) * PageSize <= (j + k) * PageSize
    BY <1>4, MulMono, PoolConstants
  <2>2. (total_pages + 1) * PageSize = total_pages * PageSize + PageSize
    BY <1>4, PoolConstants
  <2>. QED
    BY <1>4, <2>1, <2>2, PoolConstants
<1>. QED
  BY <1>1, <1>2, <1>4, <1>5

LEMMA DeviceTypes ==
  ASSUME WindowsSound, NEW d \in Dev
  PROVE  Base(d) \in Nat /\ Size(d) \in Nat /\ d \in Nat
<1>1. devices \in Seq(Device) /\ d \in 1 .. Len(devices)
  BY DEF WindowsSound, Dev
<1>2. devices[d] \in Device
  BY <1>1
<1>. QED
  BY <1>1, <1>2 DEF Device, Base, Size

\* An offset in the window of a device translates to that device.
LEMMA TranslateIn ==
  ASSUME WindowsSound, NEW d \in Dev, NEW v \in Nat,
         Base(d) <= v, v < Base(d) + Size(d)
  PROVE  /\ ssd_pool_translate(v) = [dev |-> d, poff |-> v - Base(d)]
         /\ v < total_capacity
<1>1. \A x \in Dev : Base(x) \in Nat /\ Size(x) \in Nat /\ x \in Nat
  BY DeviceTypes
<1>2. Holding(v) = {d}
  <2>1. d \in Holding(v)
    BY DEF Holding, Base, Size
  <2>2. ASSUME NEW x \in Holding(v) PROVE x = d
    <3>1. x \in Dev /\ Base(x) <= v /\ v < Base(x) + Size(x)
      BY DEF Holding, Base, Size
    <3>2. ~ (x < d) /\ ~ (d < x)
      BY <1>1, <3>1 DEF WindowsSound
    <3>. QED
      BY <1>1, <3>1, <3>2
  <2>. QED
    BY <2>1, <2>2
<1>3. v < total_capacity
  BY <1>1, PoolConstants DEF WindowsSound
<1>4. total_capacity \in Nat
  BY PoolConstants DEF WindowsSound
<1>5. (CHOOSE x \in Holding(v) : \A y \in Holding(v) : x <= y) = d
  BY <1>1, <1>2
<1>. QED
  <2>1. ~ (v >= total_capacity \/ Holding(v) = {})
    BY <1>2, <1>3, <1>4
  <2>. QED
    BY ZenonT(20), <1>3, <1>5, <2>1 DEF ssd_pool_translate, Base

\* And back: what an offset translates to holds it.
LEMMA TranslateOut ==
  ASSUME WindowsSound, NEW v \in Nat, ssd_pool_translate(v).dev # AnyDevice
  PROVE  LET d == ssd_pool_translate(v).dev
         IN d \in Dev /\ Base(d) <= v /\ v < Base(d) + Size(d)
<1>1. ~ (v >= total_capacity \/ Holding(v) = {})
  BY DEF ssd_pool_translate
<1>2. PICK d \in Dev : Base(d) <= v /\ v < Base(d) + Size(d)
  BY <1>1 DEF Holding, Base, Size
<1>3. ssd_pool_translate(v).dev = d
  BY <1>2, TranslateIn
<1>. QED
  BY <1>2, <1>3

-----------------------------------------------------------------------------
LEMMA InitIInv == Init => IInv
<1> SUFFICES ASSUME Init PROVE IInv
  OBVIOUS
<1>1. Dev = {}
  BY DEF Init, Dev
<1>2. WindowsSound
  BY <1>1, PoolConstants DEF Init, WindowsSound
<1>3. BitsSound
  BY DEF Init, BitsSound, Pages
<1>4. CounterExact
  BY FS_EmptySet DEF Init, CounterExact
<1>. QED
  BY <1>2, <1>3, <1>4 DEF IInv

LEMMA BitmapFinite ==
  ASSUME IInv
  PROVE  IsFiniteSet(bitmap) /\ Cardinality(bitmap) \in Nat
<1>1. IsFiniteSet(Pages)
  BY FS_Interval DEF IInv, WindowsSound, Pages
<1>2. bitmap \in SUBSET Pages
  BY DEF IInv, BitsSound
<1>3. IsFiniteSet(bitmap)
  BY <1>1, <1>2, FS_Subset
<1>. QED
  BY <1>3, FS_CardinalityType

LEMMA ExtentTypes ==
  ASSUME BitsSound, NEW e \in live
  PROVE  /\ e = [page |-> e.page, bytes |-> e.bytes, dev |-> e.dev]
         /\ e.page \in Nat /\ e.bytes \in Requests /\ e.dev \in Nat
         /\ PageCount(e.bytes) \in Nat /\ PageCount(e.bytes) >= 1
         /\ e.page \in ExtentPages(e)
<1>1. e \in [page : Nat, bytes : Requests, dev : Nat] /\ PageCount(e.bytes) >= 1
  BY DEF BitsSound
<1>2. PageCount(e.bytes) \in Nat
  BY <1>1, RequestsNat, PageCountNat
<1>. QED
  BY <1>1, <1>2 DEF ExtentPages, Span

\* A page that a search over pages lo .. hi - 1 returns starts a run of clear bits.
LEMMA FoundIsFree ==
  ASSUME IInv, NEW lo \in Nat, NEW hi \in Nat, lo <= hi, hi <= total_pages,
         NEW n \in Nat, bm_find_free(lo, hi, n) < hi
  PROVE  LET page == bm_find_free(lo, hi, n)
         IN /\ page \in Nat /\ lo <= page /\ page + n <= hi /\ n >= 1
            /\ Span(page, n) \cap bitmap = {}
            /\ Span(page, n) \subseteq Pages
<1> DEFINE F == (0 .. (hi - 1)) \ bitmap
           page == bm_find_free(lo, hi, n)
<1>1. n # 0 /\ page = FirstFitFrom(F, lo, hi, n)
  BY DEF bm_find_free
<1>. HIDE DEF page, F
<1>2. page \in lo .. hi /\ RunAt(F, hi, page, n)
  BY <1>1, FirstFitFound DEF page
<1>3. total_pages \in Nat
  BY DEF IInv, WindowsSound
<1>4. page \in Nat /\ lo <= page /\ page + n <= hi /\ n >= 1
  BY <1>1, <1>2 DEF RunAt
<1>5. Span(page, n) \cap bitmap = {} /\ Span(page, n) \subseteq Pages
  BY <1>2, <1>3, <1>4 DEF RunAt, Span, F, Pages
<1>. QED
  BY <1>4, <1>5 DEF page

\* A reservation of free pages inside the window asked for.
LEMMA ReserveIInv ==
  ASSUME IInv, NEW page \in Nat, NEW n \in Requests, NEW d \in Nat,
         PageCount(n) >= 1,
         Span(page, PageCount(n)) \cap bitmap = {},
         Span(page, PageCount(n)) \subseteq Pages,
         InWindow([page |-> page, bytes |-> n, dev |-> d]),
         Reserve(page, n, d)
  PROVE  IInv'
<1> DEFINE new == [page |-> page, bytes |-> n, dev |-> d]
           S == Span(page, PageCount(n))
<1>1. PageCount(n) \in Nat
  BY RequestsNat, PageCountNat
<1>2. /\ bitmap' = bitmap \cup S
      /\ free_pages' = free_pages - PageCount(n)
      /\ live' = live \cup {new}
      /\ UNCHANGED <<devices, total_capacity, total_pages>>
  BY DEF Reserve
<1>3. ExtentPages(new) = S
  BY DEF ExtentPages
<1>. HIDE DEF S, new
<1>4. WindowsSound'
  BY <1>2 DEF IInv, WindowsSound, Dev, Base, Size
<1>5. BitsSound'
  <2>1. live' \subseteq [page : Nat, bytes : Requests, dev : Nat]
    BY <1>2 DEF IInv, BitsSound, new
  <2>2. bitmap' \subseteq Pages'
    BY <1>2 DEF IInv, BitsSound, Pages, S
  <2>3. bitmap' = UNION { ExtentPages(e) : e \in live' }
    BY <1>2, <1>3 DEF IInv, BitsSound
  <2>4. \A e \in live : ExtentPages(e) \cap S = {}
    BY DEF IInv, BitsSound, S
  <2>5. \A e, f \in live' : e # f => ExtentPages(e) \cap ExtentPages(f) = {}
    BY <1>2, <1>3, <2>4 DEF IInv, BitsSound
  <2>6. \A e \in live' : PageCount(e.bytes) >= 1 /\ InWindow(e)
    BY <1>2 DEF IInv, BitsSound, new
  <2>7. \A e \in live' : InWindow(e)'
    BY <1>2, <2>6 DEF InWindow, Dev, DevStart, DevPages
  <2>. QED
    BY <2>1, <2>2, <2>3, <2>5, <2>6, <2>7 DEF BitsSound, ExtentPages
<1>6. CounterExact'
  <2>1. IsFiniteSet(S) /\ Cardinality(S) = PageCount(n)
    BY <1>1, SpanSize DEF S
  <2>2. IsFiniteSet(bitmap) /\ Cardinality(bitmap) \in Nat
    BY BitmapFinite
  <2>3. bitmap \cap S = {} /\ Cardinality({}) = 0
    BY FS_EmptySet DEF S
  <2>4. Cardinality(bitmap \cup S) =
          Cardinality(bitmap) + Cardinality(S) - Cardinality(bitmap \cap S)
    BY <2>1, <2>2, FS_Union
  <2>5. total_pages \in Nat
    BY DEF IInv, WindowsSound
  <2>6. Cardinality(bitmap') = Cardinality(bitmap) + PageCount(n)
    BY <1>1, <1>2, <2>1, <2>2, <2>3, <2>4
  <2>7. free_pages = total_pages - Cardinality(bitmap)
    BY DEF IInv, CounterExact
  <2>. QED
    BY <1>1, <1>2, <2>2, <2>5, <2>6, <2>7 DEF CounterExact
<1>. QED
  BY <1>4, <1>5, <1>6 DEF IInv

\* A refused call changes nothing but the result.
LEMMA RefusalIInv ==
  ASSUME IInv, UNCHANGED <<devices, total_capacity, total_pages, free_pages, bitmap, live>>
  PROVE  IInv'
  BY ZenonT(20) DEF IInv, WindowsSound, BitsSound, CounterExact, InWindow, ExtentPages, Dev, Base,
         Size, Pages, DevStart, DevPages

-----------------------------------------------------------------------------
LEMMA AddDeviceIInv ==
  ASSUME IInv, NEW c \in Capacities, ssd_pool_add_device_ok(c)
  PROVE  IInv' /\ Pages \subseteq Pages'
<1> DEFINE size == RoundUp(c)
           new == [virtual_base |-> total_capacity, capacity |-> size]
           k == (c + PageSize - 1) \div PageSize
<1>1. c \in Nat /\ k \in Nat /\ size = k * PageSize
  <2>1. c \in Nat /\ c + PageSize - 1 \in Nat
    BY PoolConstants
  <2>. QED
    BY <2>1, DivFacts, PoolConstants DEF RoundUp
<1>2. /\ devices' = Append(devices, new)
      /\ total_capacity' = total_capacity + size
      /\ total_pages' = (total_capacity + size) \div PageSize
      /\ free_pages' = free_pages + size \div PageSize
      /\ UNCHANGED <<bitmap, live>>
  BY DEF ssd_pool_add_device_ok, Install
<1>0. PICK n \in Nat : n = Len(devices)
  BY DEF IInv, WindowsSound
<1>3. /\ devices \in Seq(Device) /\ n = Len(devices)
      /\ total_pages \in Nat /\ total_capacity = total_pages * PageSize
  BY <1>0 DEF IInv, WindowsSound
<1>. HIDE DEF k
<1>4. total_capacity \in Nat /\ size \in Nat /\ new \in Device
  BY <1>1, <1>3, PoolConstants DEF Device
<1>5. total_capacity + size = (total_pages + k) * PageSize
  BY <1>1, <1>3, PoolConstants
<1>. HIDE DEF size, new
<1>6. total_pages' = total_pages + k /\ size \div PageSize = k
  <2>1. total_pages + k \in Nat
    BY <1>1, <1>3
  <2>2. ((total_pages + k) * PageSize) \div PageSize = total_pages + k
    BY <2>1, MulDiv, PoolConstants
  <2>3. (k * PageSize) \div PageSize = k
    BY <1>1, MulDiv, PoolConstants
  <2>. QED
    BY <1>1, <1>2, <1>5, <2>2, <2>3
<1>7. /\ devices' \in Seq(Device) /\ Len(devices') = n + 1
      /\ devices'[n + 1] = new
      /\ \A d \in Dev : devices'[d] = devices[d]
  BY <1>2, <1>3, <1>4 DEF Dev
<1>8. Dev' = Dev \cup {n + 1} /\ n + 1 \notin Dev
  BY <1>3, <1>7 DEF Dev
<1>9. /\ \A d \in Dev : Base(d)' = Base(d) /\ Size(d)' = Size(d)
      /\ Base(n + 1)' = total_capacity /\ Size(n + 1)' = size
  BY <1>7 DEF Base, Size, new
<1>10. WindowsSound'
  <2>1. \A d \in Dev : /\ Base(d) \in Nat /\ Size(d) \in Nat /\ d <= n
                       /\ Whole(Base(d)) /\ Whole(Size(d))
                       /\ Base(d) + Size(d) <= total_capacity
    BY <1>3, DeviceTypes DEF IInv, WindowsSound, Dev
  <2>2. Whole(total_capacity) /\ Whole(size)
    BY <1>1, <1>3 DEF Whole
  <2>3. \A d \in Dev' : /\ Whole(Base(d)') /\ Whole(Size(d)')
                        /\ Base(d)' + Size(d)' <= total_capacity'
    BY <1>2, <1>4, <1>8, <1>9, <2>1, <2>2
  <2>4. \A d, x \in Dev' : d < x => Base(d)' + Size(d)' <= Base(x)'
    <3>1. \A d, x \in Dev : d < x => Base(d) + Size(d) <= Base(x)
      BY DEF IInv, WindowsSound
    <3>2. \A d \in Dev : d \in Nat /\ d < n + 1
      BY <1>3 DEF Dev
    <3>. QED
      BY <1>3, <1>8, <1>9, <2>1, <3>1, <3>2
  <2>. QED
    BY <1>1, <1>2, <1>3, <1>5, <1>6, <1>7, <2>3, <2>4 DEF WindowsSound, Whole
<1>13. Pages \subseteq Pages'
  BY <1>1, <1>3, <1>6 DEF Pages
<1>11. BitsSound'
  <2>0. bitmap \subseteq Pages
    BY DEF IInv, BitsSound
  <2>1. bitmap' \subseteq Pages'
    BY <1>2, <1>13, <2>0
  <2>2. \A e \in live : InWindow(e)'
    BY <1>7, <1>8 DEF IInv, BitsSound, InWindow, DevStart, DevPages
  <2>. QED
    BY ZenonT(20), <1>2, <2>1, <2>2 DEF IInv, BitsSound, ExtentPages
<1>12. CounterExact'
  <2>1. Cardinality(bitmap) \in Nat /\ free_pages = total_pages - Cardinality(bitmap)
    BY BitmapFinite DEF IInv, CounterExact
  <2>. QED
    BY <1>1, <1>2, <1>3, <1>6, <2>1 DEF CounterExact
<1>. QED
  BY <1>10, <1>11, <1>12, <1>13 DEF IInv

\* Giving back a held extent takes away its bits and nobody else's.
LEMMA FreeIInv ==
  ASSUME IInv, NEW e \in live, ssd_pool_free(e.page * PageSize, e.bytes)
  PROVE  IInv' /\ (live' = live \ {e} \/ UNCHANGED live)
<1>1. /\ e = [page |-> e.page, bytes |-> e.bytes, dev |-> e.dev]
      /\ e.page \in Nat /\ e.bytes \in Requests
      /\ PageCount(e.bytes) \in Nat /\ PageCount(e.bytes) >= 1
  BY ExtentTypes DEF IInv
<1>2. (e.page * PageSize) \div PageSize = e.page
  BY <1>1, MulDiv, PoolConstants
<1>3. CASE UNCHANGED <<devices, total_capacity, total_pages, free_pages, bitmap, live>>
  BY <1>3, RefusalIInv
<1>4. CASE /\ bitmap' = bitmap \ ExtentPages(e)
           /\ free_pages' = free_pages + PageCount(e.bytes)
           /\ live' = { f \in live : ~ (f.page = e.page /\ f.bytes = e.bytes) }
           /\ UNCHANGED <<devices, total_capacity, total_pages>>
  <2>1. \A f \in live : f.page \in ExtentPages(f)
    BY ExtentTypes DEF IInv
  <2>2. \A f \in live : f # e => ExtentPages(f) \cap ExtentPages(e) = {}
    BY DEF IInv, BitsSound
  <2>3. live' = live \ {e}
    BY <1>4, <2>1, <2>2 DEF ExtentPages
  <2>4. ExtentPages(e) \subseteq bitmap
    BY DEF IInv, BitsSound
  <2>5. WindowsSound'
    BY <1>4 DEF IInv, WindowsSound, Dev, Base, Size
  <2>6. BitsSound'
    <3>1. bitmap' = UNION { ExtentPages(f) : f \in live' }
      BY <1>4, <2>2, <2>3 DEF IInv, BitsSound
    <3>2. \A f \in live' : InWindow(f)'
      BY <1>4, <2>3 DEF IInv, BitsSound, InWindow, Dev, DevStart, DevPages
    <3>3. bitmap' \subseteq Pages'
      BY <1>4 DEF IInv, BitsSound, Pages
    <3>. QED
      BY ZenonT(20), <2>3, <3>1, <3>2, <3>3 DEF IInv, BitsSound, ExtentPages
  <2>7. CounterExact'
    <3>1. Cardinality(ExtentPages(e)) = PageCount(e.bytes)
      BY <1>1, SpanSize DEF ExtentPages
    <3>2. IsFiniteSet(bitmap) /\ Cardinality(bitmap) \in Nat
      BY BitmapFinite
    <3>3. bitmap \cap ExtentPages(e) = ExtentPages(e)
      BY <2>4
    <3>4. Cardinality(bitmap \ ExtentPages(e)) =
            Cardinality(bitmap) - Cardinality(bitmap \cap ExtentPages(e))
      BY ZenonT(20), <3>2, FS_Difference
    <3>5. Cardinality(bitmap') = Cardinality(bitmap) - PageCount(e.bytes)
      BY ZenonT(20), <1>4, <3>1, <3>3, <3>4
    <3>6. total_pages \in Nat /\ free_pages = total_pages - Cardinality(bitmap)
      BY DEF IInv, WindowsSound, CounterExact
    <3>. QED
      BY <1>1, <1>4, <3>2, <3>5, <3>6 DEF CounterExact
  <2>. QED
    BY <2>3, <2>5, <2>6, <2>7 DEF IInv
<1>. QED
  BY <1>2, <1>3, <1>4 DEF ssd_pool_free, Refuse, ExtentPages

-----------------------------------------------------------------------------
\* What a reservation needs, and what the searches find.
Grantable(page, n, d) ==
  /\ PageCount(n) >= 1
  /\ Span(page, PageCount(n)) \cap bitmap = {}
  /\ Span(page, PageCount(n)) \subseteq Pages
  /\ InWindow([page |-> page, bytes |-> n, dev |-> d])

Kept == UNCHANGED <<devices, total_capacity, total_pages, free_pages, bitmap, live>>

Granting == \E page \in Nat, n \in Requests, d \in Nat :
              Grantable(page, n, d) /\ Reserve(page, n, d)

LEMMA AllocGrants ==
  ASSUME IInv, NEW n \in Requests, ssd_pool_alloc(n)
  PROVE  Kept \/ Granting
<1> DEFINE page == bm_find_free(0, total_pages, PageCount(n))
<1>1. PageCount(n) \in Nat /\ total_pages \in Nat
  BY RequestsNat, PageCountNat DEF IInv, WindowsSound
<1>2. ASSUME page < total_pages, Reserve(page, n, AnyDevice)
      PROVE  Granting
  <2>1. /\ page \in Nat /\ PageCount(n) >= 1
        /\ Span(page, PageCount(n)) \cap bitmap = {}
        /\ Span(page, PageCount(n)) \subseteq Pages
    BY <1>1, <1>2, FoundIsFree
  <2>2. AnyDevice \in Nat /\ InWindow([page |-> page, bytes |-> n, dev |-> AnyDevice])
    BY DEF InWindow, AnyDevice
  <2>. QED
    BY <1>2, <2>1, <2>2 DEF Granting, Grantable
<1>. QED
  BY <1>2 DEF ssd_pool_alloc, Refuse, Kept

LEMMA AllocOnDeviceGrants ==
  ASSUME IInv, NEW n \in Requests, NEW d \in 1 .. MaxDevices,
         ssd_pool_alloc_on_device(d, n)
  PROVE  Kept \/ Granting
<1> DEFINE last == DevStart(d) + DevPages(d)
           page == bm_find_free(DevStart(d), last, PageCount(n))
<1>1. PageCount(n) \in Nat /\ d \in Nat
  BY RequestsNat, PageCountNat, PoolConstants
<1>2. ASSUME d \in Dev, page < last, Reserve(page, n, d)
      PROVE  Granting
  <2>1. /\ DevStart(d) \in Nat /\ DevPages(d) \in Nat /\ last <= total_pages
        /\ last \in Nat /\ DevStart(d) <= last
    BY <1>2, WindowPages DEF IInv
  <2>2. /\ page \in Nat /\ PageCount(n) >= 1
        /\ DevStart(d) <= page /\ page + PageCount(n) <= last
        /\ Span(page, PageCount(n)) \cap bitmap = {}
        /\ Span(page, PageCount(n)) \subseteq Pages
    BY <1>1, <1>2, <2>1, FoundIsFree
  <2>. HIDE DEF page
  <2>3. InWindow([page |-> page, bytes |-> n, dev |-> d])
    BY <1>2, <2>2 DEF InWindow
  <2>. QED
    BY <1>1, <1>2, <2>2, <2>3 DEF Granting, Grantable
<1>. QED
  BY <1>2 DEF ssd_pool_alloc_on_device, Refuse, Kept

LEMMA StrayRefused ==
  ASSUME IInv, NEW voffset \in Nat, NEW n \in Requests,
         Stray(voffset, n), ssd_pool_free(voffset, n)
  PROVE  Kept
<1>1. bitmap = UNION { ExtentPages(e) : e \in live }
  BY DEF IInv, BitsSound
<1>2. total_capacity \in Nat
  BY PoolConstants DEF IInv, WindowsSound
<1>3. ~ Freeable(voffset, n)
  BY <1>1, <1>2 DEF Stray, Freeable
<1>. QED
  BY <1>3 DEF ssd_pool_free, Refuse, Kept

\* The rollback takes back exactly what was counted.
LEMMA RollbackKeeps ==
  ASSUME IInv, NEW c \in Capacities, ssd_pool_add_device_rollback(c)
  PROVE  Kept
<1> DEFINE size == RoundUp(c)
           new == [virtual_base |-> total_capacity, capacity |-> size]
           filled == Append(devices, new)
<1>1. size \in Nat
  <2>1. c \in Nat /\ c + PageSize - 1 \in Nat
    BY PoolConstants
  <2>. QED
    BY <2>1, DivFacts, PoolConstants DEF RoundUp
<1>2. devices \in Seq(Device) /\ total_capacity \in Nat
  BY PoolConstants DEF IInv, WindowsSound
<1>3. /\ devices' = SubSeq(filled, 1, Len(filled) - 1)
      /\ total_capacity' = (total_capacity + size) - filled[Len(filled)].capacity
      /\ UNCHANGED <<total_pages, free_pages, bitmap, live>>
  BY DEF ssd_pool_add_device_rollback
<1>. HIDE DEF size
<1>4. new \in Device /\ new.capacity = size
  BY <1>1, <1>2 DEF Device
<1>. HIDE DEF new
<1>5. filled[Len(filled)] = new /\ SubSeq(filled, 1, Len(filled) - 1) = devices
  BY <1>2, <1>4
<1>6. total_capacity' = total_capacity
  BY <1>1, <1>2, <1>3, <1>4, <1>5
<1>. QED
  BY <1>3, <1>5, <1>6 DEF Kept

\* The steps, by what they do to the pool.
LEMMA StepCases ==
  ASSUME IInv, [Next]_vars
  PROVE  \/ Kept
         \/ Granting
         \/ FreeHeld
         \/ \E c \in Capacities : ssd_pool_add_device_ok(c)
<1>1. CASE UNCHANGED vars
  BY <1>1 DEF vars, Kept
<1>2. CASE ssd_pool_add_device_fail
  BY <1>2 DEF ssd_pool_add_device_fail, Kept
<1>3. CASE \E n \in Requests : ssd_pool_alloc(n)
  BY <1>3, AllocGrants
<1>4. CASE \E n \in Requests, d \in 1 .. MaxDevices : ssd_pool_alloc_on_device(d, n)
  BY <1>4, AllocOnDeviceGrants
<1>5. CASE FreeStray
  <2>1. PICK voffset \in 0 .. MaxBytes, n \in Requests :
          Stray(voffset, n) /\ ssd_pool_free(voffset, n)
    BY <1>5 DEF FreeStray
  <2>2. voffset \in Nat
    BY PoolConstants
  <2>. QED
    BY <2>1, <2>2, StrayRefused
<1>6. CASE \E c \in Capacities : ssd_pool_add_device_rollback(c)
  BY <1>6, RollbackKeeps
<1>. QED
  BY <1>1, <1>2, <1>3, <1>4, <1>5, <1>6 DEF Next

LEMMA NextIInv == IInv /\ [Next]_vars => IInv'
<1> SUFFICES ASSUME IInv, [Next]_vars PROVE IInv'
  OBVIOUS
<1>1. CASE Kept
  BY <1>1, RefusalIInv DEF Kept
<1>2. CASE Granting
  BY <1>2, ReserveIInv DEF Granting, Grantable
<1>3. CASE FreeHeld
  BY <1>3, FreeIInv DEF FreeHeld
<1>4. CASE \E c \in Capacities : ssd_pool_add_device_ok(c)
  BY <1>4, AddDeviceIInv
<1>. QED
  BY <1>1, <1>2, <1>3, <1>4, StepCases

\* The inductive invariant holds in every reachable state.
THEOREM PoolInvariant == Spec => []IInv
<1>. QED
  BY InitIInv, NextIInv, PTL DEF Spec

-----------------------------------------------------------------------------
LEMMA WindowOfExtent ==
  ASSUME IInv, NEW e \in live, e.dev # AnyDevice, NEW p \in ExtentPages(e),
         NEW b \in 0 .. (PageSize - 1)
  PROVE  ssd_pool_translate(p * PageSize + b).dev = e.dev
<1> DEFINE d == e.dev
           v == p * PageSize + b
<1>1. /\ d \in Dev /\ e.page \in Nat /\ PageCount(e.bytes) \in Nat
      /\ DevStart(d) <= e.page
      /\ e.page + PageCount(e.bytes) <= DevStart(d) + DevPages(d)
  BY ExtentTypes DEF IInv, BitsSound, InWindow
<1>2. WindowsSound
  BY DEF IInv
<1>3. /\ DevStart(d) \in Nat /\ DevPages(d) \in Nat
      /\ Base(d) = DevStart(d) * PageSize /\ Size(d) = DevPages(d) * PageSize
  BY <1>1, <1>2, WindowPages
<1>4. p \in Nat /\ DevStart(d) <= p /\ p + 1 <= DevStart(d) + DevPages(d)
  BY <1>1, <1>3 DEF ExtentPages, Span
<1>. HIDE DEF d
<1>5. DevStart(d) * PageSize <= p * PageSize
  BY <1>3, <1>4, MulMono, PoolConstants
<1>6. (p + 1) * PageSize <= (DevStart(d) + DevPages(d)) * PageSize
  BY <1>3, <1>4, MulMono, PoolConstants
<1>7. /\ (p + 1) * PageSize = p * PageSize + PageSize
      /\ (DevStart(d) + DevPages(d)) * PageSize = Base(d) + Size(d)
      /\ p * PageSize \in Nat /\ Base(d) \in Nat /\ Size(d) \in Nat
  BY <1>3, <1>4, PoolConstants
<1>8. v \in Nat /\ Base(d) <= v /\ v < Base(d) + Size(d)
  BY <1>3, <1>5, <1>6, <1>7, PoolConstants
<1>. HIDE DEF v
<1>9. ssd_pool_translate(v) = [dev |-> d, poff |-> v - Base(d)]
  BY <1>1, <1>2, <1>8, TranslateIn DEF d
<1>. QED
  BY <1>9 DEF v, d

LEMMA OneDeviceSpan ==
  ASSUME IInv, NEW v \in Nat, NEW len \in Requests,
         ssd_pool_span_in_one_device(v, len)
  PROVE  LET t == ssd_pool_translate(v)
             u == ssd_pool_translate(v + len - 1)
         IN u.dev = t.dev /\ u.poff = t.poff + len - 1
<1> DEFINE d == ssd_pool_translate(v).dev
           w == v + len - 1
<1>1. /\ len \in Nat /\ len # 0 /\ d # AnyDevice
      /\ len <= Base(d) + Size(d) - v
  BY RequestsNat DEF ssd_pool_span_in_one_device, Base, Size
<1>2. WindowsSound
  BY DEF IInv
<1>3. d \in Dev /\ Base(d) <= v /\ v < Base(d) + Size(d)
  BY <1>1, <1>2, TranslateOut
<1>. HIDE DEF d
<1>4. Base(d) \in Nat /\ Size(d) \in Nat
  BY <1>2, <1>3, DeviceTypes
<1>5. w \in Nat /\ Base(d) <= w /\ w < Base(d) + Size(d)
  BY <1>1, <1>3, <1>4
<1>. HIDE DEF w
<1>6. ssd_pool_translate(w) = [dev |-> d, poff |-> w - Base(d)]
  BY <1>2, <1>3, <1>5, TranslateIn
<1>7. ssd_pool_translate(v) = [dev |-> d, poff |-> v - Base(d)]
  BY <1>2, <1>3, TranslateIn
<1>8. w - Base(d) = (v - Base(d)) + len - 1
  BY <1>1, <1>4 DEF w
<1>9. /\ ssd_pool_translate(w).dev = ssd_pool_translate(v).dev
      /\ ssd_pool_translate(w).poff = ssd_pool_translate(v).poff + len - 1
  BY <1>6, <1>7, <1>8
<1>. QED
  BY <1>9 DEF w

\* The counter is exact, extents asked of a device lie on it, and a span that
\* may be used through a mapping is contiguous there: in every reachable state
\* of a pool of any devices, whatever was allocated, freed and added before.
THEOREM PoolExtentsSound == Spec => []ExtentsSound
<1>1. IInv => ExtentsSound
  <2> SUFFICES ASSUME IInv PROVE ExtentsSound
    OBVIOUS
  <2>1. CounterExact
    BY DEF IInv
  <2>2. OnItsDevice
    BY WindowOfExtent DEF OnItsDevice
  <2>3. total_capacity \in Nat
    BY PoolConstants DEF IInv, WindowsSound
  <2>4. SpanIsContiguous
    BY <2>3, OneDeviceSpan DEF SpanIsContiguous
  <2>. QED
    BY <2>1, <2>2, <2>4 DEF ExtentsSound
<1>. QED
  BY <1>1, PoolInvariant, PTL

-----------------------------------------------------------------------------
LEMMA AddDeviceTranslation ==
  ASSUME IInv, NEW c \in Capacities, ssd_pool_add_device_ok(c),
         NEW v \in 0 .. (total_capacity - 1)
  PROVE  ssd_pool_translate(v)' = ssd_pool_translate(v)
<1> DEFINE new == [virtual_base |-> total_capacity, capacity |-> RoundUp(c)]
           least(S) == CHOOSE d \in S : \A x \in S : d <= x
<1>1. /\ devices \in Seq(Device) /\ total_capacity \in Nat /\ RoundUp(c) \in Nat
      /\ v \in Nat /\ v < total_capacity
  <2>1. c + PageSize - 1 \in Nat /\ total_capacity \in Nat
    BY PoolConstants DEF IInv, WindowsSound
  <2>2. (c + PageSize - 1) \div PageSize \in Nat
    BY <2>1, DivFacts, PoolConstants
  <2>3. RoundUp(c) \in Nat
    BY <2>2, PoolConstants DEF RoundUp
  <2>. QED
    BY <2>1, <2>3 DEF IInv, WindowsSound
<1>2. /\ devices' = Append(devices, new)
      /\ total_capacity' = total_capacity + RoundUp(c)
  BY DEF ssd_pool_add_device_ok, Install
<1>3. new \in Device /\ new.virtual_base = total_capacity
  BY <1>1 DEF Device
<1>. HIDE DEF new
<1>4. /\ Dev' = Dev \cup {Len(devices) + 1}
      /\ devices'[Len(devices) + 1] = new
      /\ \A d \in Dev : devices'[d] = devices[d]
  BY <1>1, <1>2, <1>3 DEF Dev
<1>5. Holding(v)' = Holding(v)
  BY <1>1, <1>3, <1>4 DEF Holding
<1>6. v >= total_capacity' <=> v >= total_capacity
  BY <1>1, <1>2
<1>7. CASE Holding(v) = {}
  BY <1>5, <1>7 DEF ssd_pool_translate
<1>8. CASE Holding(v) # {}
  <2>. HIDE DEF least
  <2>1. /\ ssd_pool_translate(v) = [dev |-> least(Holding(v)),
                       poff |-> v - devices[least(Holding(v))].virtual_base]
        /\ ssd_pool_translate(v)' = [dev |-> least(Holding(v)'),
                       poff |-> v - devices'[least(Holding(v)')].virtual_base]
    BY <1>1, <1>5, <1>6, <1>8 DEF ssd_pool_translate, least
  <2>2. ssd_pool_translate(v).dev \in Dev
    <3>1. PICK d \in Dev : Base(d) <= v /\ v < Base(d) + Size(d)
      BY <1>8 DEF Holding, Base, Size
    <3>. QED
      BY <1>1, <3>1, TranslateIn DEF IInv
  <2>3. least(Holding(v)) \in Dev
    BY <2>1, <2>2
  <2>. QED
    BY <1>4, <1>5, <2>1, <2>3
<1>. QED
  BY <1>7, <1>8

\* No call ever moves data: an offset that translated to a device keeps its
\* device and physical offset for as long as the pool exists.
THEOREM PoolTranslationStable == Spec => TranslationStable
<1> DEFINE Stable == \A v \in 0 .. (total_capacity - 1) :
                       ssd_pool_translate(v)' = ssd_pool_translate(v)
<1>1. IInv /\ [Next]_vars => [Stable]_vars
  <2> SUFFICES ASSUME IInv, [Next]_vars PROVE Stable
    OBVIOUS
  <2>1. CASE UNCHANGED <<devices, total_capacity>>
    BY <2>1 DEF ssd_pool_translate, Holding, Dev
  <2>2. CASE \E c \in Capacities : ssd_pool_add_device_ok(c)
    BY <2>2, AddDeviceTranslation
  <2>3. FreeHeld => UNCHANGED <<devices, total_capacity>>
    BY DEF FreeHeld, ssd_pool_free, Refuse
  <2>. QED
    BY <2>1, <2>2, <2>3, StepCases DEF Kept, Granting, Reserve
<1>. QED
  BY <1>1, PoolInvariant, PTL DEF Spec, TranslationStable

-----------------------------------------------------------------------------
\* Why a search of pages lo .. hi - 1 may be given up.
LEMMA NoRoom ==
  ASSUME IInv, NEW lo \in Nat, NEW hi \in Nat, lo <= hi, hi <= total_pages,
         NEW n \in Nat, n > 0,
         free_pages < n \/ n > hi - lo \/ bm_find_free(lo, hi, n) >= hi,
         NEW p \in lo .. (hi - 1)
  PROVE  ~ RunAt(Pages \ bitmap, hi, p, n)
<1> SUFFICES ASSUME RunAt(Pages \ bitmap, hi, p, n) PROVE FALSE
  OBVIOUS
<1>1. total_pages \in Nat /\ p \in Nat
  BY DEF IInv, WindowsSound
<1>2. p + n <= hi /\ Span(p, n) \subseteq Pages \ bitmap
  BY DEF RunAt, Span
<1>3. CASE free_pages < n
  <2>1. IsFiniteSet(Pages) /\ Cardinality(Pages) = total_pages
    <3>1. Pages = Span(0, total_pages)
      BY <1>1 DEF Pages, Span
    <3>. QED
      BY <1>1, <3>1, SpanSize
  <2>2. bitmap \in SUBSET Pages /\ Pages \cap bitmap = bitmap
    BY DEF IInv, BitsSound
  <2>3. /\ IsFiniteSet(Pages \ bitmap)
        /\ Cardinality(Pages \ bitmap) = Cardinality(Pages) - Cardinality(Pages \cap bitmap)
    BY ZenonT(20), <2>1, FS_Difference
  <2>4. Cardinality(Pages \ bitmap) = free_pages
    BY <2>1, <2>2, <2>3 DEF IInv, CounterExact
  <2>5. Cardinality(Span(p, n)) = n
    BY <1>1, SpanSize
  <2>6. Cardinality(Span(p, n)) <= Cardinality(Pages \ bitmap)
    BY <1>2, <2>3, FS_Subset
  <2>7. free_pages \in Int
    BY <1>1, BitmapFinite DEF IInv, CounterExact
  <2>. QED
    BY <1>3, <2>4, <2>5, <2>6, <2>7
<1>4. CASE n > hi - lo
  BY <1>1, <1>2, <1>4
<1>5. CASE bm_find_free(lo, hi, n) >= hi
  <2> DEFINE F == (0 .. (hi - 1)) \ bitmap
  <2>1. FirstFitFrom(F, lo, hi, n) >= hi
    BY <1>5 DEF bm_find_free
  <2>. HIDE DEF F
  <2>2. ~ RunAt(F, hi, p, n)
    BY <2>1, FirstFitComplete
  <2>3. RunAt(F, hi, p, n)
    BY <1>1, <1>2 DEF RunAt, Span, F
  <2>. QED
    BY <2>2, <2>3
<1>. QED
  BY <1>3, <1>4, <1>5

\* A refusal for want of memory is never spurious: no run of free pages of the
\* length needed lies where the call was asked to look.
THEOREM PoolAllocComplete == Spec => AllocComplete
<1> DEFINE lo(d) == IF d = AnyDevice THEN 0 ELSE DevStart(d)
           hi(d) == IF d = AnyDevice THEN total_pages ELSE DevStart(d) + DevPages(d)
           Full(n, d) == n > 0 => \A p \in lo(d) .. (hi(d) - 1) :
                                    ~ RunAt(Pages \ bitmap, hi(d), p, n)
           Complete == ret'.op = "alloc" /\ ret'.rc = "NO_MEMORY" =>
                         Full(PageCount(ret'.bytes), ret'.dev)
<1>1. ASSUME IInv, NEW n \in Requests, ssd_pool_alloc(n) PROVE Complete
  <2>1. PageCount(n) \in Nat /\ total_pages \in Nat
    BY <1>1, RequestsNat, PageCountNat DEF IInv, WindowsSound
  <2>2. ASSUME \/ free_pages < PageCount(n)
               \/ bm_find_free(0, total_pages, PageCount(n)) >= total_pages
        PROVE  Full(PageCount(n), AnyDevice)
    <3>1. lo(AnyDevice) = 0 /\ hi(AnyDevice) = total_pages
      OBVIOUS
    <3>. HIDE DEF lo, hi
    <3>. QED
      BY <1>1, <2>1, <2>2, <3>1, NoRoom
  <2>. HIDE DEF Full
  <2>. QED
    BY <1>1, <2>2 DEF ssd_pool_alloc, Refuse, Reserve
<1>2. ASSUME IInv, NEW n \in Requests, NEW d \in 1 .. MaxDevices,
             ssd_pool_alloc_on_device(d, n)
      PROVE  Complete
  <2>1. PageCount(n) \in Nat /\ d # AnyDevice
    BY <1>2, RequestsNat, PageCountNat, PoolConstants DEF AnyDevice
  <2>2. ASSUME d \in Dev,
               \/ PageCount(n) > DevPages(d)
               \/ PageCount(n) > free_pages
               \/ bm_find_free(DevStart(d), DevStart(d) + DevPages(d), PageCount(n))
                    >= DevStart(d) + DevPages(d)
        PROVE  Full(PageCount(n), d)
    <3> DEFINE last == DevStart(d) + DevPages(d)
    <3>1. /\ DevStart(d) \in Nat /\ DevPages(d) \in Nat /\ last \in Nat
          /\ DevStart(d) <= last /\ last <= total_pages
      BY <1>2, <2>2, WindowPages DEF IInv
    <3>2. free_pages \in Int
      BY <1>2, BitmapFinite DEF IInv, WindowsSound, CounterExact
    <3>3. \/ free_pages < PageCount(n) \/ PageCount(n) > last - DevStart(d)
          \/ bm_find_free(DevStart(d), last, PageCount(n)) >= last
      BY <2>1, <2>2, <3>1, <3>2
    <3>4. lo(d) = DevStart(d) /\ hi(d) = last
      BY <2>1
    <3>. HIDE DEF last, lo, hi
    <3>. QED
      BY <1>2, <2>1, <3>1, <3>3, <3>4, NoRoom
  <2>. HIDE DEF Full
  <2>. QED
    BY <1>2, <2>2 DEF ssd_pool_alloc_on_device, Refuse, Reserve
<1>3. ASSUME Next, ~ (\E n \in Requests : ssd_pool_alloc(n)),
             ~ (\E n \in Requests, d \in 1 .. MaxDevices : ssd_pool_alloc_on_device(d, n))
      PROVE  ret'.op # "alloc"
  <2>1. CASE \E c \in Capacities : ssd_pool_add_device_ok(c)
    BY <2>1 DEF ssd_pool_add_device_ok, Install
  <2>2. CASE ssd_pool_add_device_fail
    BY <2>2 DEF ssd_pool_add_device_fail
  <2>3. ASSUME NEW v, NEW n, ssd_pool_free(v, n) PROVE ret'.op # "alloc"
    BY <2>3 DEF ssd_pool_free, Refuse
  <2>4. CASE \E c \in Capacities : ssd_pool_add_device_rollback(c)
    BY <2>4 DEF ssd_pool_add_device_rollback
  <2>. QED
    BY <1>3, <2>1, <2>2, <2>3, <2>4 DEF Next, FreeHeld, FreeStray
<1>4. IInv /\ [Next]_vars => [Complete]_vars
  <2>. HIDE DEF Full
  <2>. QED
    BY <1>1, <1>2, <1>3
<1>. QED
  BY <1>4, PoolInvariant, PTL DEF Spec, AllocComplete

-----------------------------------------------------------------------------
LEMMA GrantAcquires ==
  ASSUME IInv, Granting
  PROVE  \E S \in PA!Runs : PA!Acquire(S)
<1> DEFINE Owned == { ExtentPages(e) : e \in live }
<1>1. PICK page \in Nat, n \in Requests, d \in Nat :
        Grantable(page, n, d) /\ Reserve(page, n, d)
  BY DEF Granting
<1> DEFINE S == Span(page, PageCount(n))
<1>2. PageCount(n) \in Nat /\ PageCount(n) >= 1
  BY <1>1, RequestsNat, PageCountNat DEF Grantable
<1>3. S \subseteq Pages /\ S \cap bitmap = {}
  BY <1>1 DEF Grantable
<1>4. page \in S /\ page + PageCount(n) - 1 \in S /\ S # {}
  BY <1>2 DEF Span
<1>5. S \in PA!Runs
  <2>1. S = page .. (page + PageCount(n) - 1)
    BY DEF Span
  <2>2. page \in Pages /\ page + PageCount(n) - 1 \in Pages
    BY <1>3, <1>4
  <2>. HIDE DEF S
  <2>3. \E lo, hi \in Pages : S = lo .. hi
    BY ZenonT(20), <2>1, <2>2
  <2>. QED
    BY <2>3 DEF PA!Runs
<1>. HIDE DEF S
<1>6. \A T \in Owned : S \cap T = {}
  BY <1>3 DEF IInv, BitsSound
<1>7. ExtentPages([page |-> page, bytes |-> n, dev |-> d]) = S
  BY DEF ExtentPages, S
<1>8. live' = live \cup {[page |-> page, bytes |-> n, dev |-> d]} /\ total_pages' = total_pages
  BY <1>1 DEF Reserve
<1>9. { ExtentPages(e) : e \in live' } = Owned \cup {S}
  BY <1>7, <1>8
<1>. QED
  BY <1>3, <1>4, <1>5, <1>6, <1>8, <1>9 DEF PA!Acquire, Pages

LEMMA FreeReleases ==
  ASSUME IInv, NEW e \in live, live' = live \ {e}, UNCHANGED total_pages
  PROVE  PA!Release(ExtentPages(e))
<1>1. \A f \in live : f # e => ExtentPages(f) # ExtentPages(e)
  <2>1. \A f \in live : f.page \in ExtentPages(f)
    BY ExtentTypes DEF IInv
  <2>. QED
    BY <2>1 DEF IInv, BitsSound
<1>2. { ExtentPages(f) : f \in live' } = { ExtentPages(f) : f \in live } \ {ExtentPages(e)}
  BY <1>1
<1>. QED
  BY <1>2 DEF PA!Release, Pages

\* The pool implements the abstract page allocator, with any devices added at
\* any time: an extent is granted from pages nobody holds and given back whole.
THEOREM PoolRefinesPageAllocator == Spec => RefinesPageAllocator
<1>1. Init => PA!PInit
  BY DEF Init, PA!PInit, Pages
<1>2. IInv /\ [Next]_vars => [PA!PNext]_(PA!pvars)
  <2> SUFFICES ASSUME IInv, [Next]_vars PROVE [PA!PNext]_(PA!pvars)
    OBVIOUS
  <2>1. CASE Kept
    BY <2>1 DEF Kept, PA!pvars, Pages
  <2>2. CASE Granting
    BY <2>2, GrantAcquires DEF PA!PNext
  <2>3. CASE FreeHeld
    <3>1. PICK e \in live : ssd_pool_free(e.page * PageSize, e.bytes)
      BY <2>3 DEF FreeHeld
    <3>2. UNCHANGED total_pages /\ (live' = live \ {e} \/ UNCHANGED live)
      BY <3>1, FreeIInv DEF ssd_pool_free, Refuse
    <3>3. CASE live' = live \ {e}
      BY <3>2, <3>3, FreeReleases DEF PA!PNext
    <3>4. CASE UNCHANGED live
      BY <3>2, <3>4 DEF PA!pvars, Pages
    <3>. QED
      BY <3>2, <3>3, <3>4
  <2>4. CASE \E c \in Capacities : ssd_pool_add_device_ok(c)
    <3>1. PICK c \in Capacities : ssd_pool_add_device_ok(c)
      BY <2>4
    <3>2. Pages \subseteq Pages' /\ live' = live
      BY <3>1, AddDeviceIInv DEF ssd_pool_add_device_ok, Install
    <3>. QED
      BY <3>2 DEF PA!PNext, PA!Grow
  <2>. QED
    BY <2>1, <2>2, <2>3, <2>4, StepCases
<1>. QED
  BY <1>1, <1>2, PoolInvariant, PTL DEF Spec, RefinesPageAllocator, PA!PSpec

=============================================================================
