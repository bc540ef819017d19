--------------------------- MODULE MCLiveExecutor ---------------------------
(* LiveExecutor for TLC: client order ids are interchangeable. *)
EXTENDS LiveExecutor, TLC

CidSymmetry == Permutations(Cid)
=============================================================================
