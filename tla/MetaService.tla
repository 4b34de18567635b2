----------------------------- MODULE MetaService -----------------------------
(***************************************************************************)
(* The chunk directory of ummd                                             *)
(* (umm/src/metadata_service/meta_service_direct.c): an array of chunk     *)
(* entries indexed by chunk id, and the table of names that leads to them. *)
(* Every call holds the service's lock and is one action.                  *)
(***************************************************************************)
EXTENDS RobinHood, FiniteSets

CONSTANTS MaxIds,         \* bound on the chunk ids that are given out
          MaxRefs,        \* bound on an entry's reference count
          MaxCap,         \* bound on the growth of the name table
          InitChunks      \* the first size of the chunk array (16 in the code)

VARIABLES chunk_table,    \* ctx->chunk_table
          chunks,         \* the entries of the ids given out so far
          chunk_capacity, \* ctx->chunk_capacity
          pristine,       \* history: no name was removed since the table was
                          \* created or grew
          hidden          \* history: some search missed, or would have missed, a
                          \* name that is in the table

vars == <<chunk_table, chunks, chunk_capacity, pristine, hidden>>

next_chunk_id == Len(chunks) + 1

\* An entry that is not valid; its other fields are never read.
Unused == [valid |-> FALSE, name |-> NoKey, ref_count |-> 0]

Init ==
  /\ chunk_table = mht_create /\ chunks = << >> /\ chunk_capacity = 0
  /\ pristine = TRUE /\ hidden = FALSE

\* find_chunk_by_id for an id a caller was given.
Found(id) == id \in 1 .. Len(chunks) /\ chunks[id].valid

-----------------------------------------------------------------------------
\* The size of the array once it has room for the id.
ensure_chunk_capacity(id) ==
  LET old == IF chunk_capacity = 0 THEN InitChunks ELSE chunk_capacity
      doubled == {old * 2^k : k \in 0 .. MaxIds}
  IN IF id <= chunk_capacity THEN chunk_capacity ELSE Min({n \in doubled : n >= id})

\* Mutant: the name is not looked up first.
impl_register_chunk_unchecked(name) ==
  LET id == next_chunk_id
      r  == mht_insert(chunk_table, name, id)
  IN /\ id <= MaxIds /\ r.t.capacity <= MaxCap
     /\ chunk_capacity' = ensure_chunk_capacity(id)
     /\ chunk_table' = r.t
     /\ chunks' = Append(chunks,
          IF r.rc = "OK" THEN [valid |-> TRUE, name |-> name, ref_count |-> 1]
          ELSE Unused)

impl_register_chunk(name) ==
  LET id == next_chunk_id
      r  == mht_insert(chunk_table, name, id)
  IN /\ ~ mht_exists(chunk_table, name)
     /\ id <= MaxIds /\ r.t.capacity <= MaxCap
     /\ chunk_capacity' = ensure_chunk_capacity(id)
     /\ chunk_table' = r.t
     /\ chunks' = Append(chunks,
          IF r.rc = "OK" THEN [valid |-> TRUE, name |-> name, ref_count |-> 1]
          ELSE Unused)

\* The id is taken, but the table of names runs out of memory.
impl_register_chunk_oom(name) ==
  /\ ~ mht_exists(chunk_table, name)
  /\ next_chunk_id <= MaxIds
  /\ chunk_capacity' = ensure_chunk_capacity(next_chunk_id)
  /\ chunk_table' \in { t \in mht_insert_oom(chunk_table) : t.capacity <= MaxCap }
  /\ chunks' = Append(chunks, Unused)

\* The id is taken, but the array cannot be made larger for it.
impl_register_chunk_no_room(name) ==
  /\ ~ mht_exists(chunk_table, name)
  /\ next_chunk_id <= MaxIds
  /\ next_chunk_id > chunk_capacity
  /\ chunks' = Append(chunks, Unused)
  /\ UNCHANGED <<chunk_table, chunk_capacity>>

\* Mutant: the name stays in the table.
Drop_entry_only(id) ==
  /\ chunks' = [chunks EXCEPT ![id] = Unused]
  /\ UNCHANGED chunk_table

\* Take a chunk out of the table of names and out of the array; what
\* mht_remove answers is not looked at.
Drop(id) ==
  /\ chunk_table' = mht_remove(chunk_table, chunks[id].name).t
  /\ chunks' = [chunks EXCEPT ![id] = Unused]

impl_unregister_chunk(id) ==
  /\ Found(id)
  /\ Drop(id)
  /\ UNCHANGED chunk_capacity

impl_add_ref(id) ==
  /\ Found(id)
  /\ chunks[id].ref_count < MaxRefs
  /\ chunks' = [chunks EXCEPT ![id].ref_count = @ + 1]
  /\ UNCHANGED <<chunk_table, chunk_capacity>>

impl_release_ref(id) ==
  /\ Found(id)
  /\ \/ /\ chunks[id].ref_count > 1
        /\ chunks' = [chunks EXCEPT ![id].ref_count = @ - 1]
        /\ UNCHANGED chunk_table
     \/ /\ chunks[id].ref_count <= 1
        /\ Drop(id)
  /\ UNCHANGED chunk_capacity

Call == \/ \E k \in Keys : impl_register_chunk(k)
        \/ \E k \in Keys : impl_register_chunk_oom(k)
        \/ \E k \in Keys : impl_register_chunk_no_room(k)
        \/ \E id \in 1 .. MaxIds : impl_unregister_chunk(id)
        \/ \E id \in 1 .. MaxIds : impl_add_ref(id)
        \/ \E id \in 1 .. MaxIds : impl_release_ref(id)

\* A removal leaves a tombstone, growth leaves all of them behind.
History ==
  /\ pristine' = (\/ chunk_table'.capacity > chunk_table.capacity
                  \/ pristine /\ chunk_table'.tombstones <= chunk_table.tombstones)
  /\ hidden' = (hidden \/ ~ SearchComplete(chunk_table'))

Next == Call /\ History

Spec == Init /\ [][Next]_vars

-----------------------------------------------------------------------------
Valid == { id \in 1 .. Len(chunks) : chunks[id].valid }

\* "Every chunk has a unique name": no two registered chunks share one.
UniqueNames ==
  \A i, j \in Valid : chunks[i].name = chunks[j].name => i = j

\* "if we've searched further than the entry's probe distance, the key is not in
\* the table": the early exit of the searches is right as long as no name was
\* removed since the last growth, and growth makes it right again.
SearchCompleteWhenPristine == pristine => SearchComplete(chunk_table)

\* Whatever is registered and removed, the searches can rely on the table: no
\* displacement, reused tombstone or growth tears a probe path or fills the last
\* empty slot, and the early exit misses nothing before the first removal.
SearchesSound == ProbePathsWhole(chunk_table) /\ SearchCompleteWhenPristine

\* The two structures agree after every call, failed ones included, as long as
\* no search has missed a name: a name leads to the chunk registered under it,
\* and a name of no chunk leads nowhere.
NamesAgree ==
  ~ hidden => \A k \in Keys :
    LET ids == { id \in Valid : chunks[id].name = k }
    IN IF mht_exists(chunk_table, k) THEN ids = {mht_lookup(chunk_table, k)}
       ELSE ids = {}

\* The ids impl_list_chunks_by_node goes through.
Visited == 1 .. (next_chunk_id - 1)

\* "Ensure chunks array has room up to chunk_id": every id that a listing looks
\* up lies inside the array.
IdsInArray == \A id \in Visited : id <= chunk_capacity

Registered == { <<chunks[id].name, id>> : id \in Valid }

Registry == INSTANCE NameMap WITH Vals <- 1 .. MaxIds, map <- Registered

\* The directory is a map from names to ids, as long as no search has missed a
\* name: a name that is registered cannot be registered again, and one that was
\* given up can.  Nothing else than a missed name ever breaks the map.
IsNameMap ==
  /\ Registry!MInit
  /\ [][hidden \/ UNCHANGED Registered \/ Registry!MNext]_vars
=============================================================================
