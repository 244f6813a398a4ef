------------------------------ MODULE MCRouter ------------------------------
(* Instances of Router for TLC.  MaxBuffers is one more than MaxPackets:   *)
(* packets that wait, one buffer in the read thread, so the bound on       *)
(* allocations is never what stops DoRead.                                 *)
EXTENDS Router, TLC

EntryAppSymmetry == Permutations(Entries) \cup Permutations(Apps)
=============================================================================
