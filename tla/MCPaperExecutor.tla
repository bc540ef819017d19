-------------------------- MODULE MCPaperExecutor --------------------------
(* PaperExecutor for TLC: fills are interchangeable. *)
EXTENDS PaperExecutor, TLC

FillSymmetry == Permutations(Fill)
=============================================================================
