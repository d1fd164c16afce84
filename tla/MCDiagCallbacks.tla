--------------------------- MODULE MCDiagCallbacks ---------------------------
(* Instances of DiagCallbacks for TLC.                                       *)
EXTENDS DiagCallbacks, TLC

Symmetry == Permutations(Threads) \cup Permutations(Ifaces) \cup Permutations(Thunks)
=============================================================================
