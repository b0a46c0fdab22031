--------------------------- MODULE MCServerStatus ---------------------------
(* A small instance of ServerStatus for TLC. *)
EXTENDS ServerStatus, TLC

CONSTANTS t1, t2

MCThreads == {t1, t2}
MCUris == {"/a", "/b"}
Symmetry == Permutations(Threads)
=============================================================================
