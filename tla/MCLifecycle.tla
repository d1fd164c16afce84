---------------------------- MODULE MCLifecycle ----------------------------
(* Lifecycle for TLC.  The threads KeyboardInterrupt cannot reach, the       *)
(* tickets and the interface objects of one kind are interchangeable.        *)
EXTENDS Lifecycle, TLC

Symmetry ==
  Permutations(Threads \ Interruptible) \cup Permutations(Tickets)
    \cup Permutations(DllIfaces)
=============================================================================
