--------------------------- MODULE DiagCallbacks ---------------------------
(***************************************************************************)
(* The warning and verbose callbacks of SDKDllInterface.                   *)
(*                                                                         *)
(* A Python callable reaches the native library as a ctypes thunk.  The    *)
(* library keeps a bare pointer to it, and the thunk is freed with its     *)
(* last Python reference: the interface object has to store it for as long *)
(* as it is registered.  ctypes releases the interpreter lock around the   *)
(* native setter, so the calls of several threads interleave between the   *)
(* registration and the two assignments that follow it.  Nothing keeps two  *)
(* of them from setting the same callback at once.  The library stays      *)
(* loaded when the interface object that loaded it is gone.                *)
(***************************************************************************)
EXTENDS Naturals

CONSTANTS
  Threads,
  Ifaces,      \* SDKDllInterface objects, in the order of any reloads
  NoIface,
  Thunks,      \* identities of thunks; a freed one is used again
  NoThunk,     \* a null pointer, Python's None
  SetAfterShutdown  \* the native setters work on after the shutdown

Slots == {"warning", "verbose"}

ASSUME NoIfaceAssumption == NoIface \notin Ifaces
ASSUME NoThunkAssumption == NoThunk \notin Thunks
ASSUME SetAfterShutdownAssumption == SetAfterShutdown \in BOOLEAN

VARIABLES
  current,     \* nativeagent._sdk
  phase,       \* life of each interface object
  kept,        \* interfaces the application holds an SDK object of
  registered,  \* what the library calls for each slot
  through,     \* history: the interface whose thunk each slot has
  stored,      \* the attributes _diag_cb_<setter> of each interface
  pyCallback,  \* _py_diag_cb of each interface: the thunk it belongs to
  pc,          \* next step of each thread
  job,         \* the call each thread is in: interface, slot and thunk
  alone,       \* history: calls beside which no other set the same callback
  raced        \* history: callbacks set by several calls at once, and not since
               \* by one that was alone

ifaceVars == <<current, phase, kept>>
raceVars == <<alone, raced>>
vars == <<ifaceVars, registered, through, stored, pyCallback, pc, job, raceVars>>

NoJob == [iface |-> NoIface, slot |-> "warning", thunk |-> NoThunk]
Jobs == [iface : Ifaces \cup {NoIface}, slot : Slots, thunk : Thunks \cup {NoThunk}]

TypeOK ==
  /\ current \in Ifaces \cup {NoIface}
  /\ phase \in [Ifaces -> {"unborn", "alive", "deleted"}]
  /\ kept \subseteq Ifaces
  /\ registered \in [Slots -> Thunks \cup {NoThunk}]
  /\ through \in [Slots -> Ifaces \cup {NoIface}]
  /\ stored \in [Ifaces -> [Slots -> Thunks \cup {NoThunk}]]
  /\ pyCallback \in [Ifaces -> Thunks \cup {NoThunk}]
  /\ pc \in [Threads -> {"idle", "register", "store", "store_py"}]
  /\ job \in [Threads -> Jobs]
  /\ alone \subseteq Threads
  /\ raced \subseteq Slots
  /\ \A i \in kept : phase[i] = "alive"
  /\ \A t \in Threads : job[t].iface # NoIface => phase[job[t].iface] = "alive"

Init ==
  /\ current = NoIface
  /\ phase = [i \in Ifaces |-> "unborn"]
  /\ kept = {}
  /\ registered = [s \in Slots |-> NoThunk]
  /\ through = [s \in Slots |-> NoIface]
  /\ stored = [i \in Ifaces |-> [s \in Slots |-> NoThunk]]
  /\ pyCallback = [i \in Ifaces |-> NoThunk]
  /\ pc = [t \in Threads |-> "idle"]
  /\ job = [t \in Threads |-> NoJob]
  /\ alone = {} /\ raced = {}

\* The next step of a call; when it returns, its local variables go.
Goto(t, step) ==
  /\ pc' = [pc EXCEPT ![t] = step]
  /\ IF step = "idle"
     THEN job' = [job EXCEPT ![t] = NoJob] /\ alone' = alone \ {t}
     ELSE UNCHANGED <<job, alone>>

\* Python references to a thunk: an attribute, or the local c_cb of a call.
Referenced(k) ==
  \/ \E i \in Ifaces : phase[i] = "alive" /\ \E s \in Slots : stored[i][s] = k
  \/ \E t \in Threads : job[t].thunk = k

InUse(k) == Referenced(k) \/ \E s \in Slots : registered[s] = k

-----------------------------------------------------------------------------
(* Faulty variants of definitions below: each is a plausible slip in the     *)
(* code, and stands beside the specification to show that a property notices *)
(* it.                                                                       *)

\* One attribute serves both setters.
Attribute_Shared(s) == "warning"

\* The result of the native setter is not looked at.
AfterRegister_Unchecked(result) == "store"

\* The verbose callback replaces the diagnostic callback of the Python side.
AfterStore_Always(s) == "store_py"

\* The interface is deleted while a call still uses it.
Collectable_Early(i) == phase[i] = "alive" /\ i # current /\ i \notin kept

-----------------------------------------------------------------------------
(* The interface objects *)

\* nativeagent.initialize, and get_sdk by the application.
Load(i) ==
  /\ current = NoIface
  /\ phase[i] = "unborn"
  /\ current' = i
  /\ phase' = [phase EXCEPT ![i] = "alive"]
  /\ kept' = kept \cup {i}
  /\ UNCHANGED <<registered, through, stored, pyCallback, pc, job, raceVars>>

\* shutdown drops nativeagent._sdk.
Unload ==
  /\ current # NoIface
  /\ current' = NoIface
  /\ UNCHANGED <<phase, kept, registered, through, stored, pyCallback, pc, job, raceVars>>

\* The application lets go of its SDK object.
Release(i) ==
  /\ i \in kept
  /\ kept' = kept \ {i}
  /\ UNCHANGED <<current, phase, registered, through, stored, pyCallback, pc, job, raceVars>>

Collectable(i) ==
  /\ phase[i] = "alive"
  /\ i # current
  /\ i \notin kept
  /\ \A t \in Threads : job[t].iface # i

\* __del__ of an interface without references.  It resets the stub's logging
\* callback.  It would reset the agent's, but asks for an attribute
\* _agent_set_logging_callback, which no interface has.  Its attributes go.
Collect(i) ==
  /\ Collectable(i)
  /\ phase' = [phase EXCEPT ![i] = "deleted"]
  /\ stored' = [stored EXCEPT ![i] = [s \in Slots |-> NoThunk]]
  /\ pyCallback' = [pyCallback EXCEPT ![i] = NoThunk]
  /\ UNCHANGED <<current, kept, registered, through, pc, job, raceVars>>

-----------------------------------------------------------------------------
(* agent_set_warning_callback, agent_set_verbose_callback *)

\* The calls that are setting a callback.
Setting(s) == {t \in Threads : pc[t] # "idle" /\ job[t].slot = s}

\* A call through an SDK object the application has: with a callable, of which
\* it makes a thunk, or with None.
CallSet(t) ==
  /\ pc[t] = "idle"
  /\ \E i \in kept, s \in Slots, k \in {x \in Thunks : ~InUse(x)} \cup {NoThunk} :
       /\ job' = [job EXCEPT ![t] = [iface |-> i, slot |-> s, thunk |-> k]]
       /\ \/ /\ Setting(s) = {}
             /\ alone' = alone \cup {t} /\ UNCHANGED raced
          \/ /\ Setting(s) # {}
             /\ alone' = alone \ Setting(s) /\ raced' = raced \cup {s}
  /\ pc' = [pc EXCEPT ![t] = "register"]
  /\ UNCHANGED <<ifaceVars, registered, through, stored, pyCallback>>

AfterRegister(result) == IF result = "SUCCESS" THEN "store" ELSE "idle"

Registers(t) == SetAfterShutdown \/ job[t].iface = current

\* The native setter succeeds, or refuses and changes nothing.
Register(t) ==
  /\ pc[t] = "register"
  /\ \/ /\ Registers(t)
        /\ registered' = [registered EXCEPT ![job[t].slot] = job[t].thunk]
        /\ through' = [through EXCEPT ![job[t].slot] =
                          IF job[t].thunk = NoThunk THEN NoIface ELSE job[t].iface]
        /\ raced' = IF t \in alone THEN raced \ {job[t].slot} ELSE raced
        /\ Goto(t, AfterRegister("SUCCESS"))
     \/ Goto(t, AfterRegister("GENERIC")) /\ UNCHANGED <<registered, through, raced>>
  /\ UNCHANGED <<ifaceVars, stored, pyCallback>>

\* "_diag_cb_" + setter.__name__
Attribute(s) == s

AfterStore(s) == IF s = "warning" THEN "store_py" ELSE "idle"

\* store_c_cb: the thunk stored so far loses its reference.
Store(t) ==
  /\ pc[t] = "store"
  /\ stored' = [stored EXCEPT ![job[t].iface][Attribute(job[t].slot)] = job[t].thunk]
  /\ Goto(t, AfterStore(job[t].slot))
  /\ UNCHANGED <<ifaceVars, registered, through, pyCallback, raced>>

\* if update_stored_cb: self._py_diag_cb = ...
StorePy(t) ==
  /\ pc[t] = "store_py"
  /\ pyCallback' = [pyCallback EXCEPT ![job[t].iface] = job[t].thunk]
  /\ Goto(t, "idle")
  /\ UNCHANGED <<ifaceVars, registered, through, stored, raced>>

-----------------------------------------------------------------------------

Next ==
  \/ Unload
  \/ \E i \in Ifaces : Load(i) \/ Release(i) \/ Collect(i)
  \/ \E t \in Threads : CallSet(t) \/ Register(t) \/ Store(t) \/ StorePy(t)

Spec == Init /\ [][Next]_vars

-----------------------------------------------------------------------------
(* Properties *)

\* While an interface lives, the library never holds a freed thunk of it: the
\* old thunk is kept until the new one is registered, and the new one is kept
\* from before its registration on, whether the setter succeeds or refuses.
\* Only calls that set the same callback at once can break this, and the next
\* call that is alone mends it.
RegisteredStaysReferenced ==
  \A s \in Slots \ raced :
    registered[s] # NoThunk /\ phase[through[s]] = "alive" => Referenced(registered[s])

\* Between calls, the callback that Python warns through is the one registered
\* for warnings through the same interface; verbose callbacks do not touch it.
\* Again only calls that set the warning callback at once can break this.
PythonAgreesWithLibrary ==
  /\ "warning" \notin raced /\ Setting("warning") = {}
  /\ registered["warning"] # NoThunk /\ phase[through["warning"]] = "alive"
  => pyCallback[through["warning"]] = registered["warning"]

\* __del__ safeguards itself only "against that", a failed __init__: after the
\* __del__ of an interface the library has none of its thunks left.
DeletedIsUnregistered ==
  \A s \in Slots :
    registered[s] # NoThunk => phase[through[s]] # "deleted"
=============================================================================
