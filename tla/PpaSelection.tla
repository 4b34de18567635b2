---------------------------- MODULE PpaSelection ----------------------------
(***************************************************************************)
(* The pure algorithms of scripts/ppa_selection.py and of the HBM          *)
(* simulator scripts/simulate_hbm_candidates.py: the batch LRU over token  *)
(* rows, the load a set of reads puts on the NAND resources, the greedy    *)
(* exchange of missed tokens for tokens on less loaded planes, and the     *)
(* cache-aware choice among the ranked candidates.                         *)
(*                                                                         *)
(* A token is a natural number, a cache the sequence of its rows from the  *)
(* oldest to the newest (its digest, a hash of the rows in order, is the   *)
(* sequence itself).  A plane is a tuple such as <<channel, die>>: its     *)
(* prefixes are the resources a read occupies.                             *)
(***************************************************************************)
EXTENDS Integers, Sequences, FiniteSets, FiniteSetsExt, SequencesExt

\* The tokens of a set in increasing order, as sorted() gives them.
Sorted(S) == SetToSortSeq(S, <)

----------------------------------------------------------------------------
(* BatchLRU *)

\* Mutant: the selected rows that are cached keep their places.
commit_fifo(rows, capacity, selected) ==
    LET new == rows \o Sorted(selected \ ToSet(rows))
    IN  IF Len(new) > capacity THEN SubSeq(new, Len(new) - capacity + 1, Len(new)) ELSE new

\* commit(selected): the selected rows leave their places, the oldest of the
\* others are evicted until the batch fits, and the batch goes to the young
\* end in token order.  (A batch larger than the cache raises; the callers
\* check that no capacity is below the size of a selection.)
commit(rows, capacity, selected) ==
    LET rest == SelectSeq(rows, LAMBDA t : t \notin selected)
        over == Len(rest) + Cardinality(selected) - capacity
    IN  (IF over > 0 THEN SubSeq(rest, over + 1, Len(rest)) ELSE rest)
            \o Sorted(selected)

----------------------------------------------------------------------------
(* Resources, pressure and the objective *)

\* resources(): the channel, the chip on it, the die, the plane.
resources(plane) == {SubSeq(plane, 1, i) : i \in 1 .. Len(plane)}

\* pressure(): how many of the tokens occupy each resource of the drive.
pressure(ids, plane, all) ==
    [k \in all |-> Cardinality({t \in ids : k \in resources(plane[t])})]

\* objective(): the sum of the squared loads.
objective(loads) == MapThenSumSet(LAMBDA k : loads[k] * loads[k], DOMAIN loads)

----------------------------------------------------------------------------
(* select() *)

Precedes(a, b) ==
    \E i \in DOMAIN a : a[i] < b[i] /\ \A j \in 1 .. i - 1 : a[j] = b[j]

\* Position of a scored token in the order (-score, token).
RankOf(score, t) ==
    Cardinality({u \in DOMAIN score : Precedes(<<-score[u], u>>, <<-score[t], t>>)})

\* What may leave: missed natives with a score, outside the protected top.
Removable(native, score, resident, protect_top) ==
    {t \in (native \cap DOMAIN score) \ resident : RankOf(score, t) >= protect_top}

\* One representative per plane: the worst native, the best extra token.
WorstOfPlane(S, score, plane) ==
    {t \in S : ~\E u \in S : /\ plane[u] = plane[t]
                             /\ Precedes(<<score[u], -u>>, <<score[t], -t>>)}

BestOfPlane(S, score, plane) ==
    {t \in S : ~\E u \in S : /\ plane[u] = plane[t]
                             /\ Precedes(<<-score[u], u>>, <<-score[t], t>>)}

\* How an exchange changes the loads, and the objective in consequence.
LoadChange(plane, old, new, k) ==
    (IF k \in resources(plane[new]) THEN 1 ELSE 0)
        - (IF k \in resources(plane[old]) THEN 1 ELSE 0)

Delta(loads, plane, old, new) ==
    MapThenSumSet(LAMBDA k : LET n == LoadChange(plane, old, new, k)
                             IN  2 * loads[k] * n + n * n, DOMAIN loads)

\* One round of the loop: the exchange that lowers the objective most, ties
\* broken by the loss of score and the token numbers; no change when none
\* lowers it.  (The code keeps sixteen representatives a side; the drives
\* modelled here have fewer planes.)
Exchange(s, score, plane) ==
    LET pairs == {p \in WorstOfPlane(s.removable, score, plane)
                        \X BestOfPlane(s.available, score, plane) :
                     Delta(s.loads, plane, p[1], p[2]) < 0}
        key(p) == <<Delta(s.loads, plane, p[1], p[2]),
                    score[p[1]] - score[p[2]], p[1], p[2]>>
        best == CHOOSE p \in pairs : \A q \in pairs \ {p} : Precedes(key(p), key(q))
    IN  IF pairs = {} THEN s
        ELSE [selected  |-> (s.selected \ {best[1]}) \cup {best[2]},
              removable |-> s.removable \ {best[1]},
              available |-> s.available \ {best[2]},
              loads     |-> [k \in DOMAIN s.loads |->
                                s.loads[k] + LoadChange(plane, best[1], best[2], k)],
              swaps     |-> Append(s.swaps, best)]

select(native, score, plane, all, current, budget, protect_top, cached) ==
    LET resident == cached \cup {current}
        start == [selected  |-> native,
                  removable |-> Removable(native, score, resident, protect_top),
                  available |-> (DOMAIN score \ native) \ resident,
                  loads     |-> pressure(native \ resident, plane, all),
                  swaps     |-> << >>]
        after[n \in 0 .. budget] ==
            IF n = 0 THEN start ELSE Exchange(after[n - 1], score, plane)
    IN  after[budget]

\* The check every consumer of a selection makes (mqsim_ppa_oracle.py): the
\* same size, the same resident tokens, the same number of reads, and only
\* misses exchanged for tokens outside the native set and the cache.
MissOnly(native, selected, swaps, resident) ==
    /\ Cardinality(selected) = Cardinality(native)
    /\ selected \cap resident = native \cap resident
    /\ Cardinality(selected \ resident) = Cardinality(native \ resident)
    /\ \A i \in DOMAIN swaps : /\ swaps[i][1] \in native \ resident
                               /\ swaps[i][2] \notin native \cup resident

----------------------------------------------------------------------------
(* choose() of the HBM simulator *)

\* Up to budget natives that are not available, worst candidate first, give
\* way to available candidates, best first; the first protect_top of the
\* ranking stay.
choose(native, ranked, available, budget, protect_top) ==
    LET miss == SelectSeq(SubSeq(ranked, protect_top + 1, Len(ranked)),
                          LAMBDA t : t \in native /\ t \notin available)
        extra == SelectSeq(ranked, LAMBDA t : t \notin native /\ t \in available)
        count == Min({budget, Len(miss), Len(extra)})
    IN  (native \ ToSet(SubSeq(miss, Len(miss) - count + 1, Len(miss))))
            \cup ToSet(SubSeq(extra, 1, count))
=============================================================================
