---------------------------- MODULE MCTracerPath ----------------------------
(* Instances of TracerPath for TLC: four tracers of different kinds.        *)
EXTENDS TracerPath, TLC

CONSTANTS in1, out1, web1, sql1

\* An incoming call, an outgoing call, an incoming web request and an SQL
\* request: an entry point and a nested tracer with tags to link, a factory
\* that cleans up, and a tracer that needs the path of another.
MCKind == in1 :> "incall" @@ out1 :> "outcall" @@ web1 :> "inweb" @@ sql1 :> "sql"

\* Three of them, for the runs that only look for a counterexample.
SmallKind == in1 :> "incall" @@ sql1 :> "sql" @@ web1 :> "inweb"

Symmetry == Permutations(Threads)
=============================================================================
