--------------------------- MODULE SharedSession ---------------------------
(***************************************************************************)
(* What initialize and shutdown promise to threads that shut down exactly  *)
(* what they initialized: one session that all of them share.  The first   *)
(* to open it creates it, the others join it, and it is gone when the last *)
(* one closes it.  Seen from outside, each of these is a single step.      *)
(***************************************************************************)
CONSTANTS Holders, Sessions, NoSession

VARIABLES
  session,  \* the session get_sdk hands out
  holders   \* who holds it

vars == <<session, holders>>

Init == session = NoSession /\ holders = {}

Open(h) ==
  /\ session = NoSession
  /\ session' \in Sessions
  /\ holders' = {h}

Join(h) ==
  /\ session # NoSession
  /\ h \notin holders
  /\ holders' = holders \cup {h}
  /\ UNCHANGED session

Leave(h) ==
  /\ h \in holders
  /\ holders # {h}
  /\ holders' = holders \ {h}
  /\ UNCHANGED session

Close(h) ==
  /\ holders = {h}
  /\ holders' = {}
  /\ session' = NoSession

Next == \E h \in Holders : Open(h) \/ Join(h) \/ Leave(h) \/ Close(h)

Spec == Init /\ [][Next]_vars
=============================================================================
