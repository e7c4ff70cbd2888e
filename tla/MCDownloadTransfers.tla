------------------------- MODULE MCDownloadTransfers --------------------------
(* Model values for DownloadTransfers.                                       *)
EXTENDS DownloadTransfers, TLC

CONSTANTS x, t1, t2, t3

\* The invocations are interchangeable.
Symmetry == Permutations(Transfers)
=============================================================================
