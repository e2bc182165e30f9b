--------------------------- MODULE MCStorageFence ---------------------------
(* StorageFence for TLC: two nodes, two devices, two agents under way. *)
EXTENDS StorageFence
=============================================================================
