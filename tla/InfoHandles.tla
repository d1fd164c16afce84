----------------------------- MODULE InfoHandles -----------------------------
(***************************************************************************)
(* Info handles: SDKHandleBase and the objects of the native library that  *)
(* databases, web applications and messaging systems are described by.     *)
(*                                                                         *)
(* A wrapper keeps the native handle and the interface that made it; it    *)
(* may outlive the session, and an SDK object of a later session may be    *)
(* asked to use it.  close tests the handle, reads it again for a native   *)
(* call, during which ctypes releases the interpreter lock, and assigns    *)
(* None; no lock keeps other threads from closing or using the wrapper at  *)
(* the same time.  __del__ warns through the diagnostic callback, which is *)
(* code of the application, and then closes.  CPython runs it when the     *)
(* last reference is gone; a method or factory that is running holds one.  *)
(***************************************************************************)
EXTENDS Naturals

CONSTANTS
  Threads,
  Handles,     \* the wrapper objects
  NoHandle,
  MaxSessions  \* bound: successful initialize calls

ASSUME NoHandleAssumption == NoHandle \notin Handles
ASSUME MaxSessionsAssumption == MaxSessions \in Nat

VARIABLES
  iface,      \* what get_sdk works with: the library, or an interface without effect
  sessions,   \* how often the library was published
  wrapper,    \* SDKHandleBase.handle: not made yet, set, or None
  maker,      \* SDKHandleBase.nsdk
  held,       \* wrappers the application has a reference to
  native,     \* the object in the library
  deletions,  \* how often the library was told to delete the object
  misused,    \* history: wrappers of which a deleted object was used
  pc,         \* next step of each thread
  arg,        \* the wrapper the running call of a thread is about
  closedBeside, \* history: wrappers that several calls closed at once
  usedBeside    \* history: wrappers that were used while they were closed

calls == <<pc, arg>>
besides == <<closedBeside, usedBeside>>
vars == <<iface, sessions, wrapper, maker, held, native, deletions, misused, calls, besides>>

TypeOK ==
  /\ iface \in {"null", "dll"}
  /\ sessions \in Nat
  /\ wrapper \in [Handles -> {"none", "open", "cleared"}]
  /\ maker \in [Handles -> {"null", "dll"}]
  /\ held \subseteq Handles
  /\ native \in [Handles -> {"none", "live", "deleted"}]
  /\ deletions \in [Handles -> Nat]
  /\ misused \subseteq Handles
  /\ closedBeside \subseteq Handles /\ usedBeside \subseteq Handles
  /\ pc \in [Threads -> {"idle", "read", "delete", "clear", "warn", "use"}]
  /\ arg \in [Threads -> Handles \cup {NoHandle}]
  /\ \A t \in Threads : pc[t] = "idle" <=> arg[t] = NoHandle

Init ==
  /\ iface = "null"
  /\ sessions = 0
  /\ wrapper = [h \in Handles |-> "none"]
  /\ maker = [h \in Handles |-> "null"]
  /\ held = {}
  /\ native = [h \in Handles |-> "none"]
  /\ deletions = [h \in Handles |-> 0]
  /\ misused = {}
  /\ pc = [t \in Threads |-> "idle"]
  /\ arg = [t \in Threads |-> NoHandle]
  /\ closedBeside = {} /\ usedBeside = {}

Enter(t, h, step) ==
  /\ pc[t] = "idle"
  /\ pc' = [pc EXCEPT ![t] = step]
  /\ arg' = [arg EXCEPT ![t] = h]

Goto(t, step) == pc' = [pc EXCEPT ![t] = step] /\ UNCHANGED arg

Leave(t) ==
  /\ pc' = [pc EXCEPT ![t] = "idle"]
  /\ arg' = [arg EXCEPT ![t] = NoHandle]

-----------------------------------------------------------------------------
(* Faulty variants of definitions below: each is a plausible slip in the     *)
(* code, and stands beside the specification to show that a property notices *)
(* it.                                                                       *)

\* close goes through the interface that is published now.
ClosedThrough_Current(h) == iface

\* The factory is handed the native handle and not the wrapper.
KeptAlive_NotInUse(h) == \E t \in Threads : arg[t] = h /\ pc[t] # "use"

\* close leaves the handle as it is.
Clear_Missing(t) ==
  /\ pc[t] = "clear"
  /\ Leave(t)
  /\ UNCHANGED <<iface, sessions, wrapper, maker, held, native, deletions, misused, besides>>

\* __del__ closes only while the session of the wrapper lasts.
Finalizable_InSession(h) ==
  /\ wrapper[h] = "open" /\ h \notin held /\ iface = maker[h]
  /\ \A t \in Threads : arg[t] # h

\* __del__ closes after the warning instead of in a finally clause.
AfterWarning_NoFinally(raised) == IF raised THEN "idle" ELSE "read"

-----------------------------------------------------------------------------
(* Sessions: initialize and shutdown as far as get_sdk shows them *)

Publish ==
  /\ iface = "null" /\ sessions < MaxSessions
  /\ iface' = "dll"
  /\ sessions' = sessions + 1
  /\ UNCHANGED <<wrapper, maker, held, native, deletions, misused, calls, besides>>

Withdraw ==
  /\ iface = "dll"
  /\ iface' = "null"
  /\ UNCHANGED <<sessions, wrapper, maker, held, native, deletions, misused, calls, besides>>

-----------------------------------------------------------------------------
(* The life of a wrapper *)

\* The SDK object makes the native object through its own interface and gives
\* the wrapper that interface.
MadeBy == iface

\* databaseinfo_create: an object in the library, or the null handle, 0.
NativeCreated(by) == IF by = "dll" THEN "live" ELSE "none"

\* SDK.create_database_info, create_web_application_info,
\* create_messaging_system_info, and the constructor of the wrapper.
Create(t, h) ==
  /\ pc[t] = "idle" /\ wrapper[h] = "none"
  /\ wrapper' = [wrapper EXCEPT ![h] = "open"]
  /\ maker' = [maker EXCEPT ![h] = MadeBy]
  /\ native' = [native EXCEPT ![h] = NativeCreated(iface)]
  /\ held' = held \cup {h}
  /\ UNCHANGED <<iface, sessions, deletions, misused, calls, besides>>

Closing(t, h) == arg[t] = h /\ pc[t] \in {"warn", "read", "delete", "clear"}
Using(t, h) == arg[t] = h /\ pc[t] = "use"

\* What becomes of a history when a call about h begins, beside others or not.
Noting(history, h, beside) == IF beside THEN history \cup {h} ELSE history

\* close, or __exit__ of a with block: nothing happens if the handle is None.
Close(t, h) ==
  /\ h \in held /\ wrapper[h] = "open"
  /\ Enter(t, h, "read")
  /\ closedBeside' = Noting(closedBeside, h, \E u \in Threads : Closing(u, h))
  /\ usedBeside' = Noting(usedBeside, h, \E u \in Threads : Using(u, h))
  /\ UNCHANGED <<iface, sessions, wrapper, maker, held, native, deletions, misused>>

\* self.handle is read again for the call.  ctypes raises for None; an interface
\* without effect takes it, and the assignment that follows changes nothing.
ReadHandle(t) ==
  /\ pc[t] = "read"
  /\ IF wrapper[arg[t]] = "open" THEN Goto(t, "delete") ELSE Leave(t)
  /\ UNCHANGED <<iface, sessions, wrapper, maker, held, native, deletions, misused, besides>>

\* close_handle(self.nsdk, self.handle).
ClosedThrough(h) == maker[h]

\* databaseinfo_delete and its siblings; those of the null interface do nothing.
NativeDelete(t) ==
  /\ pc[t] = "delete"
  /\ LET h == arg[t] IN
       IF ClosedThrough(h) = "dll"
       THEN /\ native' = [native EXCEPT ![h] = IF @ = "live" THEN "deleted" ELSE @]
            /\ deletions' = [deletions EXCEPT ![h] = @ + 1]
       ELSE UNCHANGED <<native, deletions>>
  /\ Goto(t, "clear")
  /\ UNCHANGED <<iface, sessions, wrapper, maker, held, misused, besides>>

\* self.handle = None.
Clear(t) ==
  /\ pc[t] = "clear"
  /\ wrapper' = [wrapper EXCEPT ![arg[t]] = "cleared"]
  /\ Leave(t)
  /\ UNCHANGED <<iface, sessions, maker, held, native, deletions, misused, besides>>

\* The application gives up its last reference.
Drop(h) ==
  /\ h \in held
  /\ held' = held \ {h}
  /\ UNCHANGED <<iface, sessions, wrapper, maker, native, deletions, misused, calls, besides>>

\* The frames of running calls refer to the wrapper.
KeptAlive(h) == \E t \in Threads : arg[t] = h

\* __del__ has something to do.
Finalizable(h) == wrapper[h] = "open" /\ h \notin held /\ ~KeptAlive(h)

\* __del__ runs on whatever thread dropped the last reference, in between the
\* steps of that thread; here on one that is in no call of the SDK.
Finalize(t, h) ==
  /\ Finalizable(h)
  /\ Enter(t, h, "warn")
  /\ UNCHANGED <<iface, sessions, wrapper, maker, held, native, deletions, misused, besides>>

\* Whether the warning returns, raises or is skipped, __del__ goes on to close.
AfterWarning(raised) == "read"

Warn(t) ==
  /\ pc[t] = "warn"
  /\ \E raised \in BOOLEAN : Goto(t, AfterWarning(raised))
  /\ UNCHANGED <<iface, sessions, wrapper, maker, held, native, deletions, misused, besides>>

-----------------------------------------------------------------------------
(* Factories that take a wrapper *)

\* trace_sql_database_request, trace_incoming_web_request and the message
\* factories read the handle.  With None the native call raises a TypeError.
Use(t, h) ==
  /\ h \in held /\ wrapper[h] = "open"
  /\ Enter(t, h, "use")
  /\ usedBeside' = Noting(usedBeside, h, \E u \in Threads : Closing(u, h))
  /\ UNCHANGED closedBeside
  /\ UNCHANGED <<iface, sessions, wrapper, maker, held, native, deletions, misused>>

\* The native create call of the tracer, with the handle that was read before.
NativeUse(t) ==
  /\ pc[t] = "use"
  /\ misused' = IF native[arg[t]] = "deleted" THEN misused \cup {arg[t]} ELSE misused
  /\ Leave(t)
  /\ UNCHANGED <<iface, sessions, wrapper, maker, held, native, deletions, besides>>

-----------------------------------------------------------------------------

Run(t) == ReadHandle(t) \/ NativeDelete(t) \/ Clear(t) \/ Warn(t) \/ NativeUse(t)

Next ==
  \/ Publish \/ Withdraw
  \/ \E h \in Handles : Drop(h)
  \/ \E t \in Threads :
       \/ Run(t)
       \/ \E h \in Handles : Create(t, h) \/ Close(t, h) \/ Finalize(t, h) \/ Use(t, h)

\* A call that runs goes on; CPython runs __del__ when it is due.
Fairness ==
  /\ \A t \in Threads : WF_vars(Run(t))
  /\ \A h \in Handles : SF_vars(\E t \in Threads : Finalize(t, h))

Spec == Init /\ [][Next]_vars /\ Fairness

-----------------------------------------------------------------------------
(* Properties *)

\* "Closes the handle, if it is still open": however close, with blocks and
\* __del__ follow on each other, an object of the library is deleted once.  Only
\* calls that close the wrapper at the same time can both find it open; __del__
\* is never one of them.
DeletedOnce == \A h \in Handles \ closedBeside : deletions[h] <= 1

\* A wrapper is closed through the interface that made it, in whatever session:
\* the library gets no handle that is not its own, and none that is its own is
\* forgotten.
ClosedByMaker ==
  \A h \in Handles :
    /\ native[h] = "none" => deletions[h] = 0
    /\ wrapper[h] = "cleared" => native[h] # "live"

\* A factory passes on an object that is still there, also while the
\* application drops its reference to the wrapper or after the wrapper was
\* closed.  Only a close at the same time can delete the object under it.
UsedIsLive == misused \subseteq usedBeside

\* "Unclosed SDK handle": a wrapper that was dropped is deleted all the same,
\* though the diagnostic callback may raise.
DroppedIsDeleted ==
  \A h \in Handles : (wrapper[h] = "open" /\ h \notin held) ~> wrapper[h] = "cleared"
=============================================================================
