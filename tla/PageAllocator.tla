---------------------------- MODULE PageAllocator ----------------------------
(***************************************************************************)
(* What every page allocator of UMM promises, whatever its bookkeeping:    *)
(* an extent is a run of existing pages that nobody else holds, it is      *)
(* given back whole, and the set of pages only ever grows.                 *)
(***************************************************************************)
EXTENDS Integers

VARIABLES pages,   \* the pages that exist
          owned    \* the extents handed out and not yet given back

pvars == <<pages, owned>>

Runs == { lo .. hi : lo, hi \in pages }

PInit == pages \subseteq Nat /\ owned = {}

Acquire(S) ==
  /\ S \in Runs /\ S # {}
  /\ S \subseteq pages
  /\ \A T \in owned : S \cap T = {}
  /\ owned' = owned \cup {S}
  /\ UNCHANGED pages

Release(S) ==
  /\ S \in owned
  /\ owned' = owned \ {S}
  /\ UNCHANGED pages

Grow ==
  /\ pages \subseteq pages'
  /\ UNCHANGED owned

PNext == \/ \E S \in Runs : Acquire(S)
         \/ \E S \in owned : Release(S)
         \/ Grow

PSpec == PInit /\ [][PNext]_pvars
=============================================================================
