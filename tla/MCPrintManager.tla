--------------------------- MODULE MCPrintManager ---------------------------
(* Two jobs and two concurrent gRPC calls.                                 *)
EXTENDS PrintManager, TLC
CONSTANTS j1, j2, c1, c2
JobSymmetry == Permutations(Jobs)
=============================================================================
