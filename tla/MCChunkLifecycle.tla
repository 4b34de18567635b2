--------------------------- MODULE MCChunkLifecycle ---------------------------
(* Two clients of one node and one page per tier, written in two pieces. *)
EXTENDS RemoteTransport, TLC

CONSTANTS c1, c2, v1, v2

MCNodeOf == [c \in Clients |-> 1]

Symmetry == Permutations({c1, c2}) \cup Permutations({v1, v2})
===============================================================================
