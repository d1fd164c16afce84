----------------------------- MODULE Lifecycle -----------------------------
(***************************************************************************)
(* oneagent.initialize, oneagent.shutdown and oneagent.get_sdk, called by  *)
(* any number of threads.                                                  *)
(*                                                                         *)
(* initialize and shutdown run under _sdk_ref_lk.  get_sdk takes no lock:  *)
(* it can read _sdk_instance between any two steps of the other two, so    *)
(* every assignment to a global is a step of its own here.  Python can     *)
(* also raise KeyboardInterrupt between any two of these steps in the main *)
(* thread; the "with" statement then releases the lock and nothing else is *)
(* undone.                                                                 *)
(*                                                                         *)
(* A ticket stands for one initialize call that a shutdown call has still  *)
(* to match.                                                               *)
(***************************************************************************)
EXTENDS Integers, FiniteSets

CONSTANTS
  Threads,            \* threads of the application
  NoThread,           \* the owner of a free lock
  Tickets,            \* initialize calls that can be outstanding at once
  NoTicket,
  DllIfaces,          \* identities of SDKDllInterface objects
  NullIfaces,         \* identities of SDKNullInterface objects
  NoIface,            \* Python's None, for nativeagent._sdk and _sdk_instance
  Interruptible,      \* threads in which KeyboardInterrupt can be raised
  TechReportMayRaise, \* whether ex_agent_add_process_technology can raise
  Disciplined,        \* whether callers only shut down what they initialized
  MaxRefs             \* bound: no initialize call starts at this reference count

ASSUME OwnerAssumption == NoThread \notin Threads
ASSUME TicketAssumption == NoTicket \notin Tickets /\ IsFiniteSet(Tickets)
ASSUME IfaceAssumption ==
  /\ NoIface \notin DllIfaces \cup NullIfaces
  /\ DllIfaces \cap NullIfaces = {}
ASSUME ModeAssumption ==
  /\ Interruptible \subseteq Threads
  /\ TechReportMayRaise \in BOOLEAN
  /\ Disciplined \in BOOLEAN
  /\ MaxRefs \in Nat

VARIABLES
  lk,              \* owner of _sdk_ref_lk
  refCount,        \* _sdk_ref_count
  shouldShutdown,  \* _should_shutdown
  instance,        \* _sdk_instance: the interface the published SDK wraps
  sdk,             \* nativeagent._sdk
  agent,           \* the agent behind the native stub: "up" or "down"
  pc,              \* next step of each thread
  ret,             \* what the latest call of each thread returned
  open,            \* tickets of initialize calls that returned, not yet matched
  mine             \* the ticket the call a thread is in works on

vars == <<lk, refCount, shouldShutdown, instance, sdk, agent, pc, ret, open, mine>>

Ifaces == DllIfaces \cup NullIfaces

InitSteps == {"init_load", "init_native", "init_flag", "init_tech",
              "init_publish", "init_count", "init_return"}
ShutSteps == {"shut_native", "shut_clear", "shut_zero", "shut_unpublish",
              "shut_drop", "shut_return"}

\* The steps a thread takes while it holds _sdk_ref_lk.
LockedSteps == InitSteps \cup ShutSteps

Steps == {"idle", "init_lock", "shut_lock", "get_return"} \cup LockedSteps

InitResults == {"STUB_LOAD_ERROR", "INIT_ERROR", "INITIALIZED",
                "INITIALIZED_WITH_WARNING", "ALREADY_INITIALIZED"}
Results == InitResults \cup {"nothing", "falsy", "error", "interrupted",
                             "None", "dummy", "shared"}

TypeOK ==
  /\ lk \in Threads \cup {NoThread}
  /\ refCount \in Nat
  /\ shouldShutdown \in BOOLEAN
  /\ instance \in Ifaces \cup {NoIface}
  /\ sdk \in Ifaces \cup {NoIface}
  /\ agent \in {"up", "down"}
  /\ pc \in [Threads -> Steps]
  /\ ret \in [Threads -> Results]
  /\ open \subseteq Tickets
  /\ mine \in [Threads -> Tickets \cup {NoTicket}]

Init ==
  /\ lk = NoThread
  /\ refCount = 0
  /\ shouldShutdown = FALSE
  /\ instance = NoIface
  /\ sdk = NoIface
  /\ agent = "down"
  /\ pc = [t \in Threads |-> "idle"]
  /\ ret = [t \in Threads |-> "nothing"]
  /\ open = {}
  /\ mine = [t \in Threads |-> NoTicket]

Goto(t, step) == pc' = [pc EXCEPT ![t] = step]
Return(t, result) == ret' = [ret EXCEPT ![t] = result]

-----------------------------------------------------------------------------
(* Faulty variants of steps below: each is a plausible slip in the code, and *)
(* stands beside the specification to show that a property notices it.       *)

\* initialize returns early when there is an SDK already, without counting.
InitLock_Uncounted(t) ==
  /\ pc[t] = "init_lock"
  /\ lk = NoThread
  /\ lk' = t
  /\ \/ sdk # NoIface /\ Return(t, "ALREADY_INITIALIZED") /\ Goto(t, "init_return")
     \/ sdk = NoIface /\ UNCHANGED ret /\ Goto(t, "init_load")
  /\ UNCHANGED <<refCount, shouldShutdown, instance, sdk, agent, open, mine>>

\* _should_shutdown is never set.
InitFlag_Forgotten(t) ==
  /\ pc[t] = "init_flag"
  /\ Goto(t, "init_tech")
  /\ UNCHANGED <<lk, refCount, shouldShutdown, instance, sdk, agent, ret, open, mine>>

\* The test for the last reference is off by one, or missing.
LastReference_Early == refCount <= 2
LastReference_Never == FALSE

\* A failed native shutdown clears _should_shutdown all the same.
ShutNative_ClearsOnError(t) ==
  /\ pc[t] = "shut_native"
  /\ \/ agent' = "down" /\ UNCHANGED <<ret, shouldShutdown>> /\ Goto(t, "shut_clear")
     \/ /\ agent = "up" /\ UNCHANGED agent
        /\ shouldShutdown' = FALSE
        /\ Return(t, "error")
        /\ Goto(t, "shut_return")
  /\ UNCHANGED <<lk, refCount, instance, sdk, open, mine>>

\* The reset of _should_shutdown is missing.
ShutClear_Forgotten(t) ==
  /\ pc[t] = "shut_clear"
  /\ Goto(t, "shut_zero")
  /\ UNCHANGED <<lk, refCount, shouldShutdown, instance, sdk, agent, ret, open, mine>>

\* The SDK is withdrawn before the counter is zeroed.
ShutZero_WithdrawsFirst(t) ==
  /\ pc[t] = "shut_zero"
  /\ instance' = NoIface
  /\ Goto(t, "shut_unpublish")
  /\ UNCHANGED <<lk, refCount, shouldShutdown, sdk, agent, ret, open, mine>>

\* The SDK is not withdrawn.
ShutUnpublish_Forgotten(t) ==
  /\ pc[t] = "shut_unpublish"
  /\ Goto(t, "shut_drop")
  /\ UNCHANGED <<lk, refCount, shouldShutdown, instance, sdk, agent, ret, open, mine>>

\* The error path leaves the lock taken.
ShutReturn_KeepsLock(t) ==
  /\ pc[t] = "shut_return"
  /\ lk' = IF ret[t] = "error" THEN lk ELSE NoThread
  /\ open' = IF ret[t] = "error" THEN open \cup ({mine[t]} \ {NoTicket}) ELSE open
  /\ mine' = [mine EXCEPT ![t] = NoTicket]
  /\ Goto(t, "idle")
  /\ UNCHANGED <<refCount, shouldShutdown, instance, sdk, agent, ret>>

-----------------------------------------------------------------------------
(* initialize *)

CallInitialize(t) ==
  /\ pc[t] = "idle"
  /\ refCount < MaxRefs
  /\ \E k \in Tickets \ (open \cup {mine[u] : u \in Threads}) :
       mine' = [mine EXCEPT ![t] = k]
  /\ Return(t, "nothing")
  /\ Goto(t, "init_lock")
  /\ UNCHANGED <<lk, refCount, shouldShutdown, instance, sdk, agent, open>>

\* Takes the lock; an interface that exists already, of whatever kind, is kept.
InitLock(t) ==
  /\ pc[t] = "init_lock"
  /\ lk = NoThread
  /\ lk' = t
  /\ \/ sdk # NoIface /\ Return(t, "ALREADY_INITIALIZED") /\ Goto(t, "init_publish")
     \/ sdk = NoIface /\ UNCHANGED ret /\ Goto(t, "init_load")
  /\ UNCHANGED <<refCount, shouldShutdown, instance, sdk, agent, open, mine>>

\* nativeagent.initialize and the option loop: the library loads and every
\* option is passed on, possibly with a warning; or the library loads and
\* passing an option raises; or the library does not load and the null
\* interface takes its place.
InitLoad(t) ==
  /\ pc[t] = "init_load"
  /\ \/ /\ sdk' \in DllIfaces
        /\ \E r \in {"INITIALIZED", "INITIALIZED_WITH_WARNING"} : Return(t, r)
        /\ UNCHANGED shouldShutdown
        /\ Goto(t, "init_native")
     \/ /\ sdk' \in DllIfaces
        /\ Return(t, "INIT_ERROR")
        /\ shouldShutdown' = FALSE
        /\ Goto(t, "init_publish")
     \/ /\ sdk' \in NullIfaces
        /\ Return(t, "STUB_LOAD_ERROR")
        /\ shouldShutdown' = FALSE
        /\ Goto(t, "init_publish")
  /\ UNCHANGED <<lk, refCount, instance, agent, open, mine>>

\* The native onesdk_initialize_2: it brings the agent up, or it reports
\* AGENT_NOT_ACTIVE (a warning) or another error and leaves the agent as it is.
InitNative(t) ==
  /\ pc[t] = "init_native"
  /\ \/ /\ agent' = "up"
        /\ Goto(t, "init_flag")
        /\ UNCHANGED <<shouldShutdown, ret>>
     \/ /\ \E r \in {"INITIALIZED_WITH_WARNING", "INIT_ERROR"} : Return(t, r)
        /\ shouldShutdown' = FALSE
        /\ Goto(t, "init_publish")
        /\ UNCHANGED agent
  /\ UNCHANGED <<lk, refCount, instance, sdk, open, mine>>

InitFlag(t) ==
  /\ pc[t] = "init_flag"
  /\ shouldShutdown' = TRUE
  /\ Goto(t, "init_tech")
  /\ UNCHANGED <<lk, refCount, instance, sdk, agent, ret, open, mine>>

\* The two technology reports.  If one raises, the handler clears
\* _should_shutdown, although the native agent has been started.
InitTech(t) ==
  /\ pc[t] = "init_tech"
  /\ \/ UNCHANGED <<shouldShutdown, ret>>
     \/ /\ TechReportMayRaise
        /\ shouldShutdown' = FALSE
        /\ Return(t, "INIT_ERROR")
  /\ Goto(t, "init_publish")
  /\ UNCHANGED <<lk, refCount, instance, sdk, agent, open, mine>>

InitPublish(t) ==
  /\ pc[t] = "init_publish"
  /\ instance' = IF instance = NoIface THEN sdk ELSE instance
  /\ Goto(t, "init_count")
  /\ UNCHANGED <<lk, refCount, shouldShutdown, sdk, agent, ret, open, mine>>

InitCount(t) ==
  /\ pc[t] = "init_count"
  /\ refCount' = refCount + 1
  /\ Goto(t, "init_return")
  /\ UNCHANGED <<lk, shouldShutdown, instance, sdk, agent, ret, open, mine>>

InitReturn(t) ==
  /\ pc[t] = "init_return"
  /\ lk' = NoThread
  /\ open' = open \cup {mine[t]}
  /\ mine' = [mine EXCEPT ![t] = NoTicket]
  /\ Goto(t, "idle")
  /\ UNCHANGED <<refCount, shouldShutdown, instance, sdk, agent, ret>>

-----------------------------------------------------------------------------
(* shutdown *)

\* A disciplined caller gives up the ticket of an initialize call that returned.
CallShutdown(t) ==
  /\ pc[t] = "idle"
  /\ \/ \E k \in open : open' = open \ {k} /\ mine' = [mine EXCEPT ![t] = k]
     \/ ~Disciplined /\ UNCHANGED <<open, mine>>
  /\ Return(t, "nothing")
  /\ Goto(t, "shut_lock")
  /\ UNCHANGED <<lk, refCount, shouldShutdown, instance, sdk, agent>>

LastReference == refCount <= 1

\* Takes the lock.  Nothing to shut down, or not the last reference: done.
ShutLock(t) ==
  /\ pc[t] = "shut_lock"
  /\ lk = NoThread
  /\ lk' = t
  /\ \/ /\ sdk = NoIface
        /\ refCount' = 0
        /\ Return(t, "falsy")
        /\ Goto(t, "shut_return")
     \/ /\ sdk # NoIface /\ ~LastReference
        /\ refCount' = refCount - 1
        /\ Return(t, "falsy")
        /\ Goto(t, "shut_return")
     \/ /\ sdk # NoIface /\ LastReference
        /\ Goto(t, IF shouldShutdown THEN "shut_native" ELSE "shut_zero")
        /\ UNCHANGED <<refCount, ret>>
  /\ UNCHANGED <<shouldShutdown, instance, sdk, agent, open, mine>>

\* The native onesdk_shutdown: it stops the agent; or finds it stopped
\* (NOT_INITIALIZED, tolerated); or fails, and shutdown returns the error with
\* every global as it was.
ShutNative(t) ==
  /\ pc[t] = "shut_native"
  /\ \/ agent' = "down" /\ UNCHANGED ret /\ Goto(t, "shut_clear")
     \/ agent = "up" /\ UNCHANGED agent /\ Return(t, "error") /\ Goto(t, "shut_return")
  /\ UNCHANGED <<lk, refCount, shouldShutdown, instance, sdk, open, mine>>

ShutClear(t) ==
  /\ pc[t] = "shut_clear"
  /\ shouldShutdown' = FALSE
  /\ Goto(t, "shut_zero")
  /\ UNCHANGED <<lk, refCount, instance, sdk, agent, ret, open, mine>>

ShutZero(t) ==
  /\ pc[t] = "shut_zero"
  /\ refCount' = 0
  /\ Goto(t, "shut_unpublish")
  /\ UNCHANGED <<lk, shouldShutdown, instance, sdk, agent, ret, open, mine>>

ShutUnpublish(t) ==
  /\ pc[t] = "shut_unpublish"
  /\ instance' = NoIface
  /\ Goto(t, "shut_drop")
  /\ UNCHANGED <<lk, refCount, shouldShutdown, sdk, agent, ret, open, mine>>

ShutDrop(t) ==
  /\ pc[t] = "shut_drop"
  /\ sdk' = NoIface
  /\ Return(t, "falsy")
  /\ Goto(t, "shut_return")
  /\ UNCHANGED <<lk, refCount, shouldShutdown, instance, agent, open, mine>>

\* After an error the caller still owes the shutdown and may retry it.
ShutReturn(t) ==
  /\ pc[t] = "shut_return"
  /\ lk' = NoThread
  /\ open' = IF ret[t] = "error" THEN open \cup ({mine[t]} \ {NoTicket}) ELSE open
  /\ mine' = [mine EXCEPT ![t] = NoTicket]
  /\ Goto(t, "idle")
  /\ UNCHANGED <<refCount, shouldShutdown, instance, sdk, agent, ret>>

-----------------------------------------------------------------------------
(* get_sdk, and KeyboardInterrupt *)

\* The call and its test of _sdk_instance: a private no-op SDK if it is None.
GetSdk(t) ==
  /\ pc[t] = "idle"
  /\ \/ instance = NoIface /\ Return(t, "dummy") /\ UNCHANGED pc
     \/ instance # NoIface /\ Return(t, "nothing") /\ Goto(t, "get_return")
  /\ UNCHANGED <<lk, refCount, shouldShutdown, instance, sdk, agent, open, mine>>

\* get_sdk reads _sdk_instance a second time to return it.
GetReturn(t) ==
  /\ pc[t] = "get_return"
  /\ Return(t, IF instance = NoIface THEN "None" ELSE "shared")
  /\ Goto(t, "idle")
  /\ UNCHANGED <<lk, refCount, shouldShutdown, instance, sdk, agent, open, mine>>

\* KeyboardInterrupt before the next step of a thread that holds the lock: no
\* handler catches it, "with" releases the lock, and the caller does not know
\* whether its call took effect: it neither owns nor owes a reference.
Interrupt(t) ==
  /\ t \in Interruptible
  /\ pc[t] \in LockedSteps
  /\ lk' = NoThread
  /\ Return(t, "interrupted")
  /\ mine' = [mine EXCEPT ![t] = NoTicket]
  /\ Goto(t, "idle")
  /\ UNCHANGED <<refCount, shouldShutdown, instance, sdk, agent, open>>

-----------------------------------------------------------------------------

InitializeStep(t) ==
  \/ InitLock(t) \/ InitLoad(t) \/ InitNative(t) \/ InitFlag(t)
  \/ InitTech(t) \/ InitPublish(t) \/ InitCount(t) \/ InitReturn(t)

ShutdownStep(t) ==
  \/ ShutLock(t) \/ ShutNative(t) \/ ShutClear(t) \/ ShutZero(t)
  \/ ShutUnpublish(t) \/ ShutDrop(t) \/ ShutReturn(t)

\* A step of a call that is under way.
Run(t) == InitializeStep(t) \/ ShutdownStep(t) \/ GetReturn(t)

Next ==
  \E t \in Threads :
    \/ CallInitialize(t) \/ CallShutdown(t) \/ GetSdk(t)
    \/ Run(t) \/ Interrupt(t)

\* Every thread that can run is scheduled.  Nothing makes the lock fair.
Fairness == \A t \in Threads : WF_vars(Run(t))

Spec == Init /\ [][Next]_vars /\ Fairness

-----------------------------------------------------------------------------
(* Properties *)

\* _sdk_ref_lk is held by exactly the threads between its acquisition and its
\* release; no path out of the two "with" blocks, an error or an interrupt
\* included, forgets it.
LockDiscipline == \A t \in Threads : pc[t] \in LockedSteps <=> lk = t

\* The order of the assignments matters to get_sdk, which reads without the
\* lock, and to an interrupt: at every instant a counted reference implies a
\* published SDK, and a published SDK wraps the interface nativeagent holds.
PublishOrder ==
  /\ refCount > 0 => instance # NoIface
  /\ instance # NoIface => sdk = instance

\* The native shutdown is owed only for a library that was loaded: the null
\* interface is never asked to shut down.
OnlyDllShutDown == shouldShutdown => sdk \in DllIfaces

\* As long as somebody holds a reference there is a shared SDK, and the counter
\* stands for at least the references held, however initialize and shutdown
\* calls of other threads, failures and interrupts interleave.
HeldIsUsable ==
  Disciplined => /\ open # {} => instance # NoIface
                 /\ refCount >= Cardinality(open)

\* No shutdown call stops the agent while another holder has not shut down.
AgentStopsOnlyForLast ==
  [][Disciplined /\ agent = "up" /\ agent' = "down" => open = {}]_vars

\* get_sdk: "will always return the same object", for as long as a caller of
\* initialize has not shut down.
SharedObjectStable == [][Disciplined /\ open # {} => instance' = instance]_vars

\* A shutdown call that returned an error can be repeated: the session, the
\* reference and the agent are still there.
FailedShutdownRetryable ==
  \A t \in Threads :
    Disciplined /\ pc[t] = "shut_return" /\ ret[t] = "error" =>
      /\ sdk # NoIface /\ instance = sdk
      /\ shouldShutdown /\ agent = "up"
      /\ refCount = 1

\* A shutdown call that drops the interface and reports no error has stopped
\* the agent.
FalsyShutdownStops ==
  \A t \in Threads :
    pc[t] = "shut_return" /\ ret[t] = "falsy" /\ sdk = NoIface => agent = "down"

\* "Returns a shared SDK instance": get_sdk never returns None.
GetSdkNeverNone == \A t \in Threads : ret[t] # "None"

\* Whatever fails inside initialize or shutdown, the lock is free again and again.
LockReleased == []<>(lk = NoThread)

-----------------------------------------------------------------------------
(* Seen through _sdk_instance, which get_sdk reads without the lock, the   *)
(* two functions are atomic steps of a shared session.  initialize takes   *)
(* effect when it publishes; shutdown when it decrements the counter or    *)
(* withdraws the SDK.                                                      *)

HoldingSteps == {"init_count", "init_return", "shut_lock", "shut_native",
                 "shut_clear", "shut_zero", "shut_unpublish"}

Holding(t) ==
  \/ pc[t] \in HoldingSteps
  \/ pc[t] = "shut_return" /\ ret[t] = "error"

SessionHolders == open \cup ({mine[t] : t \in {u \in Threads : Holding(u)}} \ {NoTicket})

Session == INSTANCE SharedSession WITH
  Holders <- Tickets, Sessions <- Ifaces, NoSession <- NoIface,
  session <- instance, holders <- SessionHolders

\* initialize and shutdown implement the shared session.
ImplementsSession == Session!Spec
=============================================================================
