---------------------------- MODULE NativeChoice ----------------------------
(***************************************************************************)
(* What initialize promises about the native library, and what Lifecycle   *)
(* takes for granted of it.  Seen from outside a call is a single step: it *)
(* finds a library or none, works with it or with the null interface, and  *)
(* answers agent_version_string, agent_found and agent_is_compatible for   *)
(* this library alone, whatever earlier sessions have found.  A usable     *)
(* library is used, but not initialized if the options cannot be passed.   *)
(***************************************************************************)
EXTENDS SdkFunctions, SdkVersion

CONSTANTS Libraries, NoVersion

VARIABLES
  interface,  \* what the SDK talks to: "none", "dll" or "null"
  status,     \* status of the InitResult
  version,    \* agent_version_string
  info        \* agent_found, agent_is_compatible

vars == <<interface, status, version, info>>

NoAnswer == [agent |-> "-", sdk |-> NoVersion]
NoAgent == [found |-> FALSE, compatible |-> FALSE]

Init == interface = "none" /\ status = "none" /\ version = NoAnswer /\ info = NoAgent

Usable(l) == l.missing = {} /\ InRange(l.version)

Use(l) ==
  /\ Usable(l)
  /\ interface' = "dll"
  /\ status' \in {"INITIALIZED", "INITIALIZED_WITH_WARNING", "INIT_ERROR"}
  /\ version' = [agent |-> IF l.agent = "missing" THEN "" ELSE "agent", sdk |-> l.version]
  /\ info' = [found |-> l.agent # "missing", compatible |-> l.agent = "active"]

\* An option that raises leaves the library in use without initializing it.
KeepUninitialized(l) ==
  /\ Usable(l)
  /\ interface' = "dll"
  /\ status' = "INIT_ERROR"
  /\ version' = [agent |-> "None", sdk |-> NoVersion]
  /\ info' = NoAgent

\* The null interface tells the version of a library that was refused for it.
\* Otherwise it may tell the version, if the library could be asked.
Told(l) ==
  IF l.missing \cap Names(Mandatory) # {} THEN {NoVersion}
  ELSE IF ~InRange(l.version) THEN {l.version}
  ELSE {l.version, NoVersion}

Replace(told) ==
  /\ interface' = "null"
  /\ status' = "STUB_LOAD_ERROR"
  /\ \E v \in told : version' = [agent |-> "-", sdk |-> v]
  /\ info' = NoAgent

Initialize ==
  /\ interface = "none"
  /\ \/ Replace({NoVersion})
     \/ \E l \in Libraries : Use(l) \/ KeepUninitialized(l) \/ (~Usable(l) /\ Replace(Told(l)))

Shutdown ==
  /\ interface # "none"
  /\ interface' = "none" /\ status' = "none" /\ version' = NoAnswer /\ info' = NoAgent

Next == Initialize \/ Shutdown

Spec == Init /\ [][Next]_vars
=============================================================================
