---------------------------- MODULE MCMetaService ----------------------------
(***************************************************************************)
(* The chunk directory over a table of four slots that may grow to eight.  *)
(***************************************************************************)
EXTENDS MetaService

CONSTANTS a, b, c, d

\* Three names for the last slot, and one for the first.
MCHash == (a :> 7) @@ (b :> 7) @@ (c :> 15) @@ (d :> 0)
=============================================================================
