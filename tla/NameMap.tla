------------------------------ MODULE NameMap ------------------------------
(***************************************************************************)
(* What the metadata service expects of its table: a partial function from *)
(* names to values, into which a name goes once and from which it can be   *)
(* taken whenever it is there.                                             *)
(***************************************************************************)
CONSTANTS Keys, Vals

VARIABLES map   \* a set of <<key, value>> pairs

Bound(k) == \E v \in Vals : <<k, v>> \in map

MInit == map = {}

Put(k, v) == ~ Bound(k) /\ map' = map \cup {<<k, v>>}
Take(k) == Bound(k) /\ map' = { e \in map : e[1] # k }

MNext == \E k \in Keys : Take(k) \/ \E v \in Vals : Put(k, v)

MSpec == MInit /\ [][MNext]_map
=============================================================================
