------------------------------ MODULE RobinHood ------------------------------
(***************************************************************************)
(* The open-addressing hash table of the metadata service                  *)
(* (umm/src/metadata_service/meta_hash_table.c) as operators on a table    *)
(* value: Robin Hood insertion, tombstones on removal, an early exit in    *)
(* the searches, and doubling when occupied slots and tombstones together  *)
(* reach 7/10 of the capacity.                                             *)
(***************************************************************************)
EXTENDS Integers, SequencesExt

CONSTANTS Keys,     \* the names callers use
          NoKey,    \* no name
          Hash,     \* fnv1a_hash: a function from Keys to hash values
          InitCap   \* what mht_create rounds the initial capacity to

Empty == [state |-> "empty"]
Deleted == [state |-> "deleted"]
Occupied(k, v) == [state |-> "occupied", key |-> k, val |-> v]

Fresh(cap) == [entries |-> [i \in 0 .. (cap - 1) |-> Empty],
               capacity |-> cap, count |-> 0, tombstones |-> 0]

mht_create == Fresh(InitCap)

desired_pos(k, cap) == Hash[k] % cap

\* How far slot idx is from the slot the key wants, going round.
probe_distance(k, idx, cap) ==
  IF idx >= desired_pos(k, cap) THEN idx - desired_pos(k, cap)
  ELSE (cap - desired_pos(k, cap)) + idx

Slots(t) == 0 .. (t.capacity - 1)
IsOccupied(t, idx) == t.entries[idx].state = "occupied"

-----------------------------------------------------------------------------
\* The loop of mht_insert: entry e is carried from slot idx on, displaces an
\* entry closer to its own slot and carries that one instead, and comes to rest
\* in the first slot that is not occupied.
RECURSIVE Carry(_, _, _, _, _)
Carry(t, key, e, idx, dist) ==
  LET cur == t.entries[idx]
      far == probe_distance(cur.key, idx, t.capacity)
      nxt == (idx + 1) % t.capacity
  IN IF cur.state # "occupied"
     THEN [rc |-> "OK",
           t |-> [t EXCEPT !.entries[idx] = e, !.count = @ + 1,
                    !.tombstones = @ - (IF cur.state = "deleted" THEN 1 ELSE 0)]]
     ELSE IF cur.key = key /\ Hash[cur.key] = Hash[e.key]
     THEN [rc |-> "ALREADY_EXISTS", t |-> t]
     ELSE IF dist > far
     THEN Carry([t EXCEPT !.entries[idx] = e], key, cur, nxt, far + 1)
     ELSE Carry(t, key, e, nxt, dist + 1)

NeedsGrowth(t) == t.count + t.tombstones >= (t.capacity * 7) \div 10

\* mht_maybe_grow past its test: the occupied slots, in order, inserted into a
\* table twice the size; tombstones are left behind.
mht_grow(t) ==
  LET cap   == 2 * t.capacity
      Step(u, i) ==
        IF IsOccupied(t, i)
        THEN Carry(u, NoKey, t.entries[i], desired_pos(t.entries[i].key, cap), 0).t
        ELSE u
  IN FoldLeft(Step, Fresh(cap), [n \in 1 .. t.capacity |-> n - 1])

mht_maybe_grow(t) == IF NeedsGrowth(t) THEN mht_grow(t) ELSE t

mht_insert(t, k, v) ==
  LET u == mht_maybe_grow(t)
  IN Carry(u, k, Occupied(k, v), desired_pos(k, u.capacity), 0)

\* What an insert that runs out of memory leaves: the larger table could not be
\* allocated, or the copy of the key could not be.
mht_insert_oom(t) == {t, mht_maybe_grow(t)}

-----------------------------------------------------------------------------
\* The loop of mht_lookup and mht_remove: the slot of the key, or the capacity
\* when the search ends at an empty slot, at an entry closer to its own slot
\* than the search is to the key's, or after a full round.
RECURSIVE Search(_, _, _, _)
Search(t, k, idx, dist) ==
  LET cur == t.entries[idx]
  IN IF cur.state = "empty" \/ dist > t.capacity THEN t.capacity
     ELSE IF cur.state = "occupied" /\ cur.key = k THEN idx
     ELSE IF cur.state = "occupied" /\ probe_distance(cur.key, idx, t.capacity) < dist
     THEN t.capacity
     ELSE Search(t, k, (idx + 1) % t.capacity, dist + 1)

SlotOf(t, k) == Search(t, k, desired_pos(k, t.capacity), 0)

mht_exists(t, k) == SlotOf(t, k) # t.capacity

\* Meaningful when mht_exists holds.
mht_lookup(t, k) == t.entries[SlotOf(t, k)].val

\* Mutant: the slot is emptied, leaving no tombstone.
mht_remove_no_tombstone(t, k) ==
  IF ~ mht_exists(t, k) THEN [rc |-> "NOT_FOUND", t |-> t]
  ELSE [rc |-> "OK",
        t |-> [t EXCEPT !.entries[SlotOf(t, k)] = Empty, !.count = @ - 1]]

mht_remove(t, k) ==
  IF ~ mht_exists(t, k) THEN [rc |-> "NOT_FOUND", t |-> t]
  ELSE [rc |-> "OK",
        t |-> [t EXCEPT !.entries[SlotOf(t, k)] = Deleted,
                 !.count = @ - 1, !.tombstones = @ + 1]]

\* From the slot a key wants to the slot it is in there is no empty slot, and
\* some slot is always empty, so the loop of mht_insert, which has no full-round
\* test, ends.
ProbePathsWhole(t) ==
  /\ \A i \in Slots(t) : IsOccupied(t, i) =>
       LET k == t.entries[i].key
       IN \A d \in 0 .. probe_distance(k, i, t.capacity) :
            t.entries[(desired_pos(k, t.capacity) + d) % t.capacity] # Empty
  /\ \E i \in Slots(t) : t.entries[i] = Empty

\* A search that stops early never misses a key that is in the table.
SearchComplete(t) ==
  \A i \in Slots(t) : IsOccupied(t, i) => mht_exists(t, t.entries[i].key)

\* What mht_next goes through.
Listed(t) == { <<t.entries[i].key, t.entries[i].val>> :
                 i \in { j \in Slots(t) : IsOccupied(t, j) } }
=============================================================================
