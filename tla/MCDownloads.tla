----------------------------- MODULE MCDownloads ------------------------------
(* Model values for Downloads.                                               *)
EXTENDS Downloads, TLC

CONSTANTS x, y, t1, t2

\* Items are interchangeable, and so are invocations of download_media.
Symmetry == Permutations(Keys) \cup Permutations(Transfers)
=============================================================================
