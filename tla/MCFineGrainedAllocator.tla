------------------------ MODULE MCFineGrainedAllocator ------------------------
(* Pages of two units, one of them DRAM and one on each of two SSDs; empty *)
(* and small blocks, an SSD that does not exist, and chunks of three units *)
(* allocated ahead, over both SSDs, of which the second does not fit.      *)
EXTENDS FineGrainedAllocator

Symmetric == Permutations(Threads)

Req(size, media, device) == [size |-> size, media |-> media, device |-> device]

MCRequests ==
  {Req(0, "ssd", None), Req(1, "ssd", None), Req(2, "dram", None),
   Req(1, "ssd", 1), Req(1, "ssd", 2)}

MCPrealloc == {[count |-> 2, size |-> 3, media |-> "ssd", device |-> None]}
===============================================================================
