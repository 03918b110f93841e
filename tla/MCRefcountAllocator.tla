------------------------ MODULE MCRefcountAllocator ------------------------
(***************************************************************************)
(* Model-checking instance of RefcountAllocator.  The runs use 16-byte    *)
(* clusters (CLUSTER_BITS = 4): a refcount block holds 8 counters and a   *)
(* table cluster 2 entries, so the first allocation past cluster 7        *)
(* bootstraps a second block (hooked up in place), and the first past     *)
(* cluster 15 grows the table.                                            *)
(***************************************************************************)
EXTENDS RefcountAllocator

MCDiscardPassthrough == {"always", "request", "snapshot", "other"}
=============================================================================
