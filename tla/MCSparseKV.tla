------------------------------ MODULE MCSparseKV ------------------------------
(* Two devices of one segment of two units and two layers of two tokens:   *)
(* three keys share a device, so a key is refused or takes a recycled      *)
(* segment.                                                                *)
EXTENDS SparseKVProofs, TLC

MCLayers == {0, 1}

MCTokens == {0, 2}

MCKeys == MCLayers \X MCTokens

\* The keys of layer 1, which are on two devices; one of them shares its device
\* with the keys of layer 0.
MCBatches == {<< <<1, 0>>, <<1, 2>> >>}
===============================================================================
