--------------------------- MODULE MCConcurrentIO ---------------------------
(***************************************************************************)
(* The engine with two submitting threads, on chunks 0 and 1.              *)
(***************************************************************************)
EXTENDS ConcurrentIO, TLC

CONSTANTS s1, s2

\* A batch for both queues against one that uses the first queue twice.
MCMix == (s1 :> << <<0, 1>> >>) @@ (s2 :> << <<0, 0>> >>)
MCWaitOn == {<<s1, 1>>, <<s2, 1>>}

\* Two batches of two.
MCTwoPairs == (s1 :> << <<0, 1>> >>) @@ (s2 :> << <<0, 1>> >>)
=============================================================================
