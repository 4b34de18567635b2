---------------------------- MODULE MCPpaOracle ----------------------------
(***************************************************************************)
(* Two examples that are answered and one the tokenizer filters out, two   *)
(* layers, three decode steps each.  A context of five tokens with a       *)
(* native set of two leaves room for exchanges; the cache of three rows    *)
(* evicts at the third step.  The first example outgrows the prepared      *)
(* mapping at its last layer, so its trace mixes applied and native steps, *)
(* and there a native set may come out too small.                          *)
(***************************************************************************)
EXTENDS PpaOracle

MCExamples == <<"a", "b", "c">>
MCPrompt == "a" :> 6 @@ "b" :> 5 @@ "c" :> 5
MCPlanes == <<<<0, 0>>, <<0, 0>>, <<0, 1>>, <<1, 0>>,
              <<0, 0>>, <<0, 1>>, <<1, 1>>, <<1, 0>>>>

\* The score of every token of the context, and the native sets a step may have.
MCScore(seq) == [t \in 0 .. seq - 1 |-> (3 * t + 2) % 7]
MCNatives(e, layer, seq) ==
    CASE layer = 0 /\ seq = 5 -> {{0, 1}}
      [] layer = 0 /\ seq = 6 -> {{1, 3}, {2, 5}}
      [] layer = 0 /\ seq > 6 -> {{2, 3}}
      [] layer = 1 /\ seq = 5 -> {{1, 4}}
      [] layer = 1 /\ seq \in {6, 7} -> {{0, 2}}
      [] layer = 1 /\ seq = 8 -> {{0, 2}, {0}}
MCOutputs(e, layer, seq) ==
    {[native |-> n, score |-> MCScore(seq)] : n \in MCNatives(e, layer, seq)}

MCScopes ==
    {[capacities |-> <<3>>, budgets |-> <<0, 1>>, applied |-> TRUE, prepare_only |-> FALSE],
     [capacities |-> <<0, 3>>, budgets |-> <<1>>, applied |-> FALSE, prepare_only |-> TRUE],
     [capacities |-> <<0, 3>>, budgets |-> <<1>>, applied |-> FALSE, prepare_only |-> FALSE],
     [capacities |-> <<2>>, budgets |-> <<1, 2>>, applied |-> TRUE, prepare_only |-> FALSE]}
=============================================================================
