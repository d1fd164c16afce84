----------------------------- MODULE SdkVersion -----------------------------
(***************************************************************************)
(* Versions of the OneAgent SDK for C/C++ and the range that this Python   *)
(* SDK works with.  OnesdkStubVersion writes out > and =, and derives the  *)
(* other comparisons from them.                                            *)
(***************************************************************************)
EXTENDS Naturals

Version == [major : Nat, minor : Nat, patch : Nat]

\* Faulty variant: some field is larger.
Gt_AnyField(a, b) == a.major > b.major \/ a.minor > b.minor \/ a.patch > b.patch

Gt(a, b) ==
  \/ a.major > b.major
  \/ a.major = b.major /\ a.minor > b.minor
  \/ a.major = b.major /\ a.minor = b.minor /\ a.patch > b.patch

Eq(a, b) == a.major = b.major /\ a.minor = b.minor /\ a.patch = b.patch
Lt(a, b) == ~(Gt(a, b) \/ Eq(a, b))
Ge(a, b) == Gt(a, b) \/ Eq(a, b)
Le(a, b) == Lt(a, b) \/ Eq(a, b)

minStubVersion == [major |-> 1, minor |-> 7, patch |-> 1]
maxStubVersion == [major |-> 2, minor |-> 0, patch |-> 0]

\* min_stub_version <= _stub_version < max_stub_version
Accepted(v) == Le(minStubVersion, v) /\ Lt(v, maxStubVersion)

\* What the bounds are meant to say: 1.x from 1.7.1 on.
InRange(v) ==
  /\ v.major = 1
  /\ v.minor > 7 \/ (v.minor = 7 /\ v.patch >= 1)
=============================================================================
