------------------------------ MODULE PurePath ------------------------------
(***************************************************************************)
(* What the SDK promises about the tracers of a process (README.md, "use   *)
(* of tracers"): a tracer that starts becomes a child of the active tracer *)
(* of its thread and becomes active itself; only the active tracer ends,   *)
(* and its parent becomes active again.                                    *)
(***************************************************************************)
CONSTANTS
  Tracers, NoTracer,
  Threads

VARIABLES
  active,    \* the active tracer of each thread
  parent,    \* the tracer each tracer is a child of
  begun      \* tracers that have been put on a path

vars == <<active, parent, begun>>

Init ==
  /\ active = [t \in Threads |-> NoTracer]
  /\ parent = [x \in Tracers |-> NoTracer]
  /\ begun = {}

Begin(t, x) ==
  /\ x \notin begun
  /\ begun' = begun \cup {x}
  /\ parent' = [parent EXCEPT ![x] = active[t]]
  /\ active' = [active EXCEPT ![t] = x]

Finish(t) ==
  /\ active[t] # NoTracer
  /\ active' = [active EXCEPT ![t] = parent[active[t]]]
  /\ UNCHANGED <<parent, begun>>

Next == \E t \in Threads : Finish(t) \/ \E x \in Tracers : Begin(t, x)

Spec == Init /\ [][Next]_vars
=============================================================================
