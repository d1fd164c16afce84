--------------------------- MODULE MCInfoHandles ---------------------------
(* An instance of InfoHandles for TLC.                                       *)
EXTENDS InfoHandles
=============================================================================
