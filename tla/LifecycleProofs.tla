-------------------------- MODULE LifecycleProofs --------------------------
(***************************************************************************)
(* Theorems about Lifecycle, for every set of threads, tickets and         *)
(* interfaces, with and without interrupts, raising technology reports and *)
(* disciplined callers.                                                    *)
(***************************************************************************)
EXTENDS Lifecycle, FiniteSetTheorems, TLAPS

-----------------------------------------------------------------------------
(* Type correctness *)

\* A thread inside initialize works on a ticket.  Needed for the type of "open".
InitTicket ==
  \A t \in Threads : pc[t] \in {"init_lock"} \cup InitSteps => mine[t] # NoTicket

TypeInv == TypeOK /\ InitTicket

LEMMA TypeInit == Init => TypeInv
  <1> SUFFICES ASSUME Init PROVE TypeInv
    OBVIOUS
  <1> USE DEF Init
  <1>1. TypeOK
    BY DEF TypeOK, Ifaces, Steps, LockedSteps, Results
  <1>2. InitTicket
    BY DEF InitTicket, InitSteps
  <1> QED BY <1>1, <1>2 DEF TypeInv

LEMMA TypeStep ==
  ASSUME TypeInv, NEW t \in Threads,
         \/ CallInitialize(t) \/ CallShutdown(t) \/ GetSdk(t)
         \/ Run(t) \/ Interrupt(t)
  PROVE  TypeInv'
  <1> USE DEF TypeInv, TypeOK, InitTicket, Ifaces, Steps, LockedSteps, InitSteps, ShutSteps,
              Results, InitResults, Goto, Return
  <1>1. CASE CallInitialize(t)  BY <1>1, TicketAssumption DEF CallInitialize
  <1>2. CASE CallShutdown(t)    BY <1>2 DEF CallShutdown
  <1>3. CASE GetSdk(t)          BY <1>3 DEF GetSdk
  <1>4. CASE Interrupt(t)       BY <1>4 DEF Interrupt
  <1>5. CASE InitializeStep(t)
    <2>1. CASE InitLock(t)      BY <2>1 DEF InitLock
    <2>2. CASE InitLoad(t)      BY <2>2 DEF InitLoad
    <2>3. CASE InitNative(t)    BY <2>3 DEF InitNative
    <2>4. CASE InitFlag(t)      BY <2>4 DEF InitFlag
    <2>5. CASE InitTech(t)      BY <2>5 DEF InitTech
    <2>6. CASE InitPublish(t)   BY <2>6 DEF InitPublish
    <2>7. CASE InitCount(t)     BY <2>7 DEF InitCount
    <2>8. CASE InitReturn(t)    BY <2>8 DEF InitReturn
    <2> QED
      BY <1>5, <2>1, <2>2, <2>3, <2>4, <2>5, <2>6, <2>7, <2>8 DEF InitializeStep
  <1>6. CASE ShutdownStep(t)
    <2>1. CASE ShutLock(t)      BY <2>1 DEF ShutLock, LastReference
    <2>2. CASE ShutNative(t)    BY <2>2 DEF ShutNative
    <2>3. CASE ShutClear(t)     BY <2>3 DEF ShutClear
    <2>4. CASE ShutZero(t)      BY <2>4 DEF ShutZero
    <2>5. CASE ShutUnpublish(t) BY <2>5 DEF ShutUnpublish
    <2>6. CASE ShutDrop(t)      BY <2>6 DEF ShutDrop
    <2>7. CASE ShutReturn(t)    BY <2>7 DEF ShutReturn
    <2> QED
      BY <1>6, <2>1, <2>2, <2>3, <2>4, <2>5, <2>6, <2>7 DEF ShutdownStep
  <1>7. CASE GetReturn(t)       BY <1>7 DEF GetReturn
  <1> QED
    BY <1>1, <1>2, <1>3, <1>4, <1>5, <1>6, <1>7 DEF Run

\* The variables keep their types.
THEOREM TypeCorrect == Spec => []TypeOK
  <1>1. TypeInv /\ [Next]_vars => TypeInv'
    <2> SUFFICES ASSUME TypeInv, [Next]_vars PROVE TypeInv'
      OBVIOUS
    <2>1. CASE Next
      BY <2>1, TypeStep DEF Next
    <2>2. CASE UNCHANGED vars
      BY <2>2 DEF vars, TypeInv, TypeOK, InitTicket
    <2> QED BY <2>1, <2>2
  <1> QED
    BY <1>1, TypeInit, PTL DEF Spec, TypeInv

-----------------------------------------------------------------------------
(* The order of the assignments.  PublishOrder and OnlyDllShutDown are not  *)
(* inductive: they need to know that the lock keeps other threads away from *)
(* the globals, and what each step inside the lock can rely on.             *)

StepInv ==
  \A t \in Threads :
    /\ pc[t] = "init_load" => sdk = NoIface
    /\ pc[t] \in {"init_native", "init_flag", "init_tech"} => sdk \in DllIfaces
    /\ pc[t] = "init_publish" => sdk # NoIface
    /\ pc[t] = "init_count" => instance # NoIface
    /\ pc[t] \in {"shut_native", "shut_clear", "shut_zero"} => sdk # NoIface
    /\ pc[t] = "shut_native" => shouldShutdown
    /\ pc[t] \in {"shut_zero", "shut_unpublish", "shut_drop"} => ~shouldShutdown
    /\ pc[t] \in {"shut_unpublish", "shut_drop"} => refCount = 0
    /\ pc[t] = "shut_drop" => instance = NoIface

OrderInv ==
  TypeInv /\ LockDiscipline /\ PublishOrder /\ OnlyDllShutDown /\ StepInv

LEMMA OrderInit == Init => OrderInv
  <1> SUFFICES ASSUME Init PROVE OrderInv
    OBVIOUS
  <1>1. TypeInv
    BY TypeInit
  <1>2. LockDiscipline
    BY OwnerAssumption DEF Init, LockDiscipline, LockedSteps, InitSteps, ShutSteps
  <1>3. PublishOrder /\ OnlyDllShutDown /\ StepInv
    BY DEF Init, PublishOrder, OnlyDllShutDown, StepInv
  <1> QED BY <1>1, <1>2, <1>3 DEF OrderInv

LEMMA OrderStep ==
  ASSUME OrderInv, NEW t \in Threads,
         \/ CallInitialize(t) \/ CallShutdown(t) \/ GetSdk(t)
         \/ Run(t) \/ Interrupt(t)
  PROVE  OrderInv'
  <1>1. TypeInv'
    BY TypeStep DEF OrderInv
  <1>2. LockDiscipline' /\ PublishOrder' /\ OnlyDllShutDown' /\ StepInv'
    <2> USE OwnerAssumption, IfaceAssumption
        DEF OrderInv, TypeInv, TypeOK, LockDiscipline, PublishOrder,
            OnlyDllShutDown, StepInv, Ifaces, LockedSteps, InitSteps,
            ShutSteps, Goto, Return
    <2>1. CASE CallInitialize(t)  BY <2>1 DEF CallInitialize
    <2>2. CASE CallShutdown(t)    BY <2>2 DEF CallShutdown
    <2>3. CASE GetSdk(t)          BY <2>3 DEF GetSdk
    <2>4. CASE Interrupt(t)       BY <2>4 DEF Interrupt
    <2>5. CASE InitializeStep(t)
      <3>1. CASE InitLock(t)      BY <3>1 DEF InitLock
      <3>2. CASE InitLoad(t)      BY <3>2 DEF InitLoad
      <3>3. CASE InitNative(t)    BY <3>3 DEF InitNative
      <3>4. CASE InitFlag(t)      BY <3>4 DEF InitFlag
      <3>5. CASE InitTech(t)      BY <3>5 DEF InitTech
      <3>6. CASE InitPublish(t)   BY <3>6 DEF InitPublish
      <3>7. CASE InitCount(t)     BY <3>7 DEF InitCount
      <3>8. CASE InitReturn(t)    BY <3>8 DEF InitReturn
      <3> QED
        BY <2>5, <3>1, <3>2, <3>3, <3>4, <3>5, <3>6, <3>7, <3>8 DEF InitializeStep
    <2>6. CASE ShutdownStep(t)
      <3>1. CASE ShutLock(t)      BY <3>1 DEF ShutLock, LastReference
      <3>2. CASE ShutNative(t)    BY <3>2 DEF ShutNative
      <3>3. CASE ShutClear(t)     BY <3>3 DEF ShutClear
      <3>4. CASE ShutZero(t)      BY <3>4 DEF ShutZero
      <3>5. CASE ShutUnpublish(t) BY <3>5 DEF ShutUnpublish
      <3>6. CASE ShutDrop(t)      BY <3>6 DEF ShutDrop
      <3>7. CASE ShutReturn(t)    BY <3>7 DEF ShutReturn
      <3> QED
        BY <2>6, <3>1, <3>2, <3>3, <3>4, <3>5, <3>6, <3>7 DEF ShutdownStep
    <2>7. CASE GetReturn(t)       BY <2>7 DEF GetReturn
    <2> QED
      BY <2>1, <2>2, <2>3, <2>4, <2>5, <2>6, <2>7 DEF Run
  <1> QED BY <1>1, <1>2 DEF OrderInv

LEMMA OrderInvariant == Spec => []OrderInv
  <1>1. OrderInv /\ [Next]_vars => OrderInv'
    <2> SUFFICES ASSUME OrderInv, [Next]_vars PROVE OrderInv'
      OBVIOUS
    <2>1. CASE Next
      BY <2>1, OrderStep DEF Next
    <2>2. CASE UNCHANGED vars
      BY <2>2 DEF vars, OrderInv, TypeInv, TypeOK, InitTicket, LockDiscipline,
                  PublishOrder, OnlyDllShutDown, StepInv
    <2> QED BY <2>1, <2>2
  <1> QED
    BY <1>1, OrderInit, PTL DEF Spec

\* What get_sdk and an interrupt can see between two assignments is always in
\* order: a counted reference has a published SDK, which wraps the interface
\* nativeagent holds.
THEOREM PublishedInOrder == Spec => []PublishOrder
  <1>1. OrderInv => PublishOrder
    BY DEF OrderInv
  <1> QED
    BY <1>1, OrderInvariant, PTL

\* The native shutdown is never called on the null interface.
THEOREM NullNeverShutDown == Spec => []OnlyDllShutDown
  <1>1. OrderInv => OnlyDllShutDown
    BY DEF OrderInv
  <1> QED
    BY <1>1, OrderInvariant, PTL

-----------------------------------------------------------------------------
(* References.  The counter covers every reference that is held, which      *)
(* includes those of the calls under way that have counted theirs and not   *)
(* released it yet.                                                         *)

Counts(t) ==
  \/ pc[t] \in {"init_return", "shut_lock", "shut_native", "shut_clear", "shut_zero"}
  \/ pc[t] = "shut_return" /\ ret[t] = "error"

Counted == open \cup {mine[t] : t \in {u \in Threads : Counts(u)}}

\* A ticket is in one place at a time, and every call works on one.
TicketInv ==
  /\ \A t \in Threads :
       mine[t] = NoTicket <=> pc[t] \in {"idle", "get_return"}
  /\ \A t \in Threads : mine[t] \notin open
  /\ \A t, u \in Threads : mine[t] = mine[u] /\ t # u => mine[t] = NoTicket

CountInv == Cardinality(Counted) <= refCount

\* Teardown starts at the last reference, and a failed one changes nothing.
LastInv ==
  \A t \in Threads :
    /\ pc[t] \in {"shut_native", "shut_clear", "shut_zero"} => refCount <= 1
    /\ pc[t] = "shut_return" /\ ret[t] = "error" =>
         refCount <= 1 /\ shouldShutdown /\ agent = "up"

HoldInv == Disciplined => TicketInv /\ CountInv /\ LastInv

LEMMA CountedFinite ==
  ASSUME TypeOK, TicketInv
  PROVE  IsFiniteSet(Counted) /\ Cardinality(Counted) \in Nat
  <1>1. Counted \subseteq Tickets
    BY DEF TypeOK, TicketInv, Counted, Counts
  <1>2. IsFiniteSet(Counted)
    BY <1>1, TicketAssumption, FS_Subset
  <1> QED BY <1>2, FS_CardinalityType

\* A thread in the middle of a teardown still holds the reference it gives up.
LEMMA CountsPositive ==
  ASSUME TypeOK, TicketInv, CountInv, NEW t \in Threads, Counts(t)
  PROVE  mine[t] \in Counted /\ refCount > 0
  <1>1. mine[t] \in Counted
    BY DEF Counted
  <1>2. Cardinality(Counted) # 0
    BY <1>1, CountedFinite, FS_EmptySet
  <1> QED BY <1>1, <1>2, CountedFinite DEF CountInv, TypeOK

LEMMA HoldInit == Init => HoldInv
  <1> SUFFICES ASSUME Init PROVE HoldInv
    OBVIOUS
  <1>1. TicketInv /\ LastInv
    BY DEF Init, TicketInv, LastInv
  <1>2. Counted = {}
    BY DEF Init, Counted, Counts
  <1>3. CountInv
    BY <1>2, FS_EmptySet DEF CountInv, Init
  <1> QED BY <1>1, <1>3 DEF HoldInv

LEMMA TicketStep ==
  ASSUME TypeOK, Disciplined, TicketInv, NEW t \in Threads,
         \/ CallInitialize(t) \/ CallShutdown(t) \/ GetSdk(t)
         \/ Run(t) \/ Interrupt(t)
  PROVE  TicketInv'
  <1> USE TicketAssumption
      DEF TypeOK, TicketInv, LockedSteps, InitSteps, ShutSteps, Goto, Return
  <1>1. CASE CallInitialize(t)  BY <1>1 DEF CallInitialize
  <1>2. CASE CallShutdown(t)    BY <1>2 DEF CallShutdown
  <1>3. CASE GetSdk(t)          BY <1>3 DEF GetSdk
  <1>4. CASE Interrupt(t)       BY <1>4 DEF Interrupt
  <1>5. CASE InitializeStep(t)
    <2>1. CASE InitReturn(t)    BY <2>1 DEF InitReturn
    <2>2. CASE ~InitReturn(t)
      <3>1. pc[t] # "idle" /\ pc[t] # "get_return" /\ UNCHANGED <<open, mine>>
        BY <1>5, <2>2 DEF InitializeStep, InitLock, InitLoad, InitNative,
                          InitFlag, InitTech, InitPublish, InitCount
      <3>2. \E l : Goto(t, l) /\ l # "idle" /\ l # "get_return"
        BY <1>5, <2>2 DEF InitializeStep, InitLock, InitLoad, InitNative,
                          InitFlag, InitTech, InitPublish, InitCount
      <3> QED BY <3>1, <3>2
    <2> QED BY <2>1, <2>2
  <1>6. CASE ShutdownStep(t)
    <2>1. CASE ShutReturn(t)    BY <2>1 DEF ShutReturn
    <2>2. CASE ~ShutReturn(t)
      <3>1. pc[t] # "idle" /\ pc[t] # "get_return" /\ UNCHANGED <<open, mine>>
        BY <1>6, <2>2 DEF ShutdownStep, ShutLock, ShutNative, ShutClear,
                          ShutZero, ShutUnpublish, ShutDrop
      <3>2. \E l : Goto(t, l) /\ l # "idle" /\ l # "get_return"
        BY <1>6, <2>2 DEF ShutdownStep, ShutLock, ShutNative, ShutClear,
                          ShutZero, ShutUnpublish, ShutDrop
      <3> QED BY <3>1, <3>2
    <2> QED BY <2>1, <2>2
  <1>7. CASE GetReturn(t)       BY <1>7 DEF GetReturn
  <1> QED
    BY <1>1, <1>2, <1>3, <1>4, <1>5, <1>6, <1>7 DEF Run

LEMMA LastStep ==
  ASSUME OrderInv, Disciplined, LastInv, NEW t \in Threads,
         \/ CallInitialize(t) \/ CallShutdown(t) \/ GetSdk(t)
         \/ Run(t) \/ Interrupt(t)
  PROVE  LastInv'
  <1> USE OwnerAssumption
      DEF OrderInv, StepInv, LockDiscipline, TypeInv, TypeOK, LastInv,
          LockedSteps, InitSteps, ShutSteps, Goto, Return
  <1>1. CASE CallInitialize(t)  BY <1>1 DEF CallInitialize
  <1>2. CASE CallShutdown(t)    BY <1>2 DEF CallShutdown
  <1>3. CASE GetSdk(t)          BY <1>3 DEF GetSdk
  <1>4. CASE Interrupt(t)       BY <1>4 DEF Interrupt
  <1>5. CASE InitializeStep(t)
    <2>1. CASE InitLock(t)      BY <2>1 DEF InitLock
    <2>2. CASE InitLoad(t)      BY <2>2 DEF InitLoad
    <2>3. CASE InitNative(t)    BY <2>3 DEF InitNative
    <2>4. CASE InitFlag(t)      BY <2>4 DEF InitFlag
    <2>5. CASE InitTech(t)      BY <2>5 DEF InitTech
    <2>6. CASE InitPublish(t)   BY <2>6 DEF InitPublish
    <2>7. CASE InitCount(t)     BY <2>7 DEF InitCount
    <2>8. CASE InitReturn(t)    BY <2>8 DEF InitReturn
    <2> QED
      BY <1>5, <2>1, <2>2, <2>3, <2>4, <2>5, <2>6, <2>7, <2>8 DEF InitializeStep
  <1>6. CASE ShutdownStep(t)
    <2>1. CASE ShutLock(t)      BY <2>1 DEF ShutLock, LastReference
    <2>2. CASE ShutNative(t)    BY <2>2 DEF ShutNative
    <2>3. CASE ShutClear(t)     BY <2>3 DEF ShutClear
    <2>4. CASE ShutZero(t)      BY <2>4 DEF ShutZero
    <2>5. CASE ShutUnpublish(t) BY <2>5 DEF ShutUnpublish
    <2>6. CASE ShutDrop(t)      BY <2>6 DEF ShutDrop
    <2>7. CASE ShutReturn(t)    BY <2>7 DEF ShutReturn
    <2> QED
      BY <1>6, <2>1, <2>2, <2>3, <2>4, <2>5, <2>6, <2>7 DEF ShutdownStep
  <1>7. CASE GetReturn(t)       BY <1>7 DEF GetReturn
  <1> QED
    BY <1>1, <1>2, <1>3, <1>4, <1>5, <1>6, <1>7 DEF Run

\* Every step of a call but an interrupt keeps the counter and the counted
\* tickets in step.
LEMMA CountEffect ==
  ASSUME Disciplined, TypeOK, PublishOrder, TicketInv, CountInv, LastInv,
         NEW t \in Threads,
         CallInitialize(t) \/ CallShutdown(t) \/ GetSdk(t) \/ Run(t)
  PROVE  \/ Counted' = Counted /\ refCount' = refCount
         \/ /\ mine[t] \notin Counted
            /\ Counted' = Counted \cup {mine[t]}
            /\ refCount' = refCount + 1
         \/ /\ Counts(t)
            /\ Counted' = Counted \ {mine[t]}
            /\ refCount' = refCount - 1
  <1> USE DEF TypeOK, TicketInv, Goto, Return
  <1>1. CASE CallInitialize(t)
    BY <1>1 DEF CallInitialize, Counted, Counts
  <1>2. CASE CallShutdown(t)
    <2>1. ASSUME NEW k \in open, open' = open \ {k}, mine' = [mine EXCEPT ![t] = k]
          PROVE  Counted' = Counted
      BY <1>2, <2>1 DEF CallShutdown, Counted, Counts
    <2> QED BY <1>2, <2>1 DEF CallShutdown
  <1>3. CASE GetSdk(t) \/ GetReturn(t)
    BY <1>3 DEF GetSdk, GetReturn, Counted, Counts
  <1>4. CASE InitializeStep(t)
    <2>1. CASE InitCount(t)
      <3>1. mine[t] \notin Counted
        BY <2>1 DEF InitCount, Counted, Counts
      <3>2. Counted' = Counted \cup {mine[t]}
        BY <2>1 DEF InitCount, Counted, Counts
      <3> QED BY <2>1, <3>1, <3>2 DEF InitCount
    <2>2. CASE InitReturn(t)
      BY <2>2 DEF InitReturn, Counted, Counts
    <2>3. CASE ~InitCount(t) /\ ~InitReturn(t)
      <3>1. refCount' = refCount /\ UNCHANGED <<open, mine>>
        BY <1>4, <2>3 DEF InitializeStep, InitLock, InitLoad, InitNative,
                          InitFlag, InitTech, InitPublish
      <3>2. \A u \in Threads : Counts(u)' <=> Counts(u)
        BY <1>4, <2>3 DEF InitializeStep, InitLock, InitLoad, InitNative,
                          InitFlag, InitTech, InitPublish, Counts
      <3> QED BY <3>1, <3>2 DEF Counted
    <2> QED BY <2>1, <2>2, <2>3
  <1>5. CASE ShutdownStep(t)
    <2>1. CASE ShutLock(t)
      <3>1. Counts(t)
        BY <2>1 DEF ShutLock, LastReference, Counts
      <3>2. sdk # NoIface
        BY <3>1, CountsPositive DEF PublishOrder
      <3>3. CASE refCount > 1
        <4>1. Counted' = Counted \ {mine[t]}
          BY <2>1, <3>2, <3>3 DEF ShutLock, LastReference, Counted, Counts
        <4> QED BY <2>1, <3>1, <3>2, <3>3, <4>1 DEF ShutLock, LastReference
      <3>4. CASE refCount <= 1
        BY <2>1, <3>2, <3>4 DEF ShutLock, LastReference, Counted, Counts
      <3> QED BY <3>3, <3>4
    <2>2. CASE ShutZero(t)
      <3>1. Counts(t) /\ refCount = 1
        BY <2>2, CountsPositive DEF ShutZero, Counts, LastInv
      <3>2. Counted' = Counted \ {mine[t]}
        BY <2>2 DEF ShutZero, Counted, Counts
      <3> QED BY <2>2, <3>1, <3>2 DEF ShutZero
    <2>3. CASE ShutReturn(t)
      <3>1. CASE ret[t] = "error"
        BY <2>3, <3>1 DEF ShutReturn, Counted, Counts
      <3>2. CASE ret[t] # "error"
        BY <2>3, <3>2 DEF ShutReturn, Counted, Counts
      <3> QED BY <3>1, <3>2
    <2>4. CASE ~ShutLock(t) /\ ~ShutZero(t) /\ ~ShutReturn(t)
      <3>1. refCount' = refCount /\ UNCHANGED <<open, mine>>
        BY <1>5, <2>4 DEF ShutdownStep, ShutNative, ShutClear, ShutUnpublish, ShutDrop
      <3>2. \A u \in Threads : Counts(u)' <=> Counts(u)
        BY <1>5, <2>4 DEF ShutdownStep, ShutNative, ShutClear, ShutUnpublish,
                          ShutDrop, Counts
      <3> QED BY <3>1, <3>2 DEF Counted
    <2> QED BY <2>1, <2>2, <2>3, <2>4
  <1> QED
    BY <1>1, <1>2, <1>3, <1>4, <1>5 DEF Run

\* How the cardinality follows.
LEMMA CountArithmetic ==
  ASSUME TypeOK, TicketInv, CountInv, NEW t \in Threads,
         \/ /\ mine[t] \notin Counted
            /\ Counted' = Counted \cup {mine[t]}
            /\ refCount' = refCount + 1
         \/ /\ Counts(t)
            /\ Counted' = Counted \ {mine[t]}
            /\ refCount' = refCount - 1
  PROVE  Cardinality(Counted') - refCount' = Cardinality(Counted) - refCount
         /\ Cardinality(Counted') \in Int /\ refCount' \in Int
  <1>1. IsFiniteSet(Counted) /\ Cardinality(Counted) \in Nat /\ refCount \in Nat
    BY CountedFinite DEF TypeOK
  <1>2. CASE /\ mine[t] \notin Counted
             /\ Counted' = Counted \cup {mine[t]}
             /\ refCount' = refCount + 1
    <2>1. Cardinality(Counted') = Cardinality(Counted) + 1
      BY <1>1, <1>2, FS_AddElement
    <2> QED BY <1>1, <1>2, <2>1
  <1>3. CASE /\ Counts(t)
             /\ Counted' = Counted \ {mine[t]}
             /\ refCount' = refCount - 1
    <2>1. Cardinality(Counted') = Cardinality(Counted) - 1
      BY <1>1, <1>3, CountsPositive, FS_RemoveElement
    <2> QED BY <1>1, <1>3, <2>1
  <1> QED BY <1>2, <1>3

LEMMA CountStep ==
  ASSUME OrderInv, Disciplined, TicketInv, CountInv, LastInv, NEW t \in Threads,
         \/ CallInitialize(t) \/ CallShutdown(t) \/ GetSdk(t)
         \/ Run(t) \/ Interrupt(t)
  PROVE  CountInv'
  <1>1. TypeOK /\ PublishOrder
    BY DEF OrderInv, TypeInv
  <1>2. IsFiniteSet(Counted) /\ Cardinality(Counted) \in Nat /\ refCount \in Nat
    BY <1>1, CountedFinite DEF TypeOK
  <1>3. CASE Interrupt(t)
    <2>1. Counted' \subseteq Counted /\ refCount' = refCount
      BY <1>1, <1>3 DEF Interrupt, Counted, Counts, TypeOK, TicketInv, Goto, Return
    <2>2. IsFiniteSet(Counted') /\ Cardinality(Counted') <= Cardinality(Counted)
      BY <1>2, <2>1, FS_Subset
    <2>3. Cardinality(Counted') \in Nat
      BY <2>2, FS_CardinalityType
    <2> QED BY <1>2, <2>1, <2>2, <2>3 DEF CountInv
  <1>4. CASE ~Interrupt(t)
    <2>1. CallInitialize(t) \/ CallShutdown(t) \/ GetSdk(t) \/ Run(t)
      BY <1>4
    <2>2. CASE Counted' = Counted /\ refCount' = refCount
      BY <2>2 DEF CountInv
    <2>3. CASE ~(Counted' = Counted /\ refCount' = refCount)
      <3>1. /\ Cardinality(Counted') - refCount' = Cardinality(Counted) - refCount
            /\ Cardinality(Counted') \in Int /\ refCount' \in Int
        BY <1>1, <2>1, <2>3, CountEffect, CountArithmetic
      <3> QED BY <1>2, <3>1 DEF CountInv
    <2> QED BY <2>2, <2>3
  <1> QED BY <1>3, <1>4

\* What the theorems below rest on.
FullInv == OrderInv /\ HoldInv

LEMMA FullStep ==
  ASSUME FullInv, [Next]_vars
  PROVE  FullInv'
  <1>1. CASE Next
    <2>1. PICK t \in Threads : \/ CallInitialize(t) \/ CallShutdown(t) \/ GetSdk(t)
                               \/ Run(t) \/ Interrupt(t)
      BY <1>1 DEF Next
    <2>2. OrderInv'
      BY <2>1, OrderStep DEF FullInv
    <2>3. ASSUME Disciplined PROVE TicketInv' /\ CountInv' /\ LastInv'
      <3>1. OrderInv /\ TypeOK /\ TicketInv /\ CountInv /\ LastInv
        BY <2>3 DEF FullInv, HoldInv, OrderInv, TypeInv
      <3>2. TicketInv'
        BY <2>1, <2>3, <3>1, TicketStep
      <3>3. CountInv'
        BY <2>1, <2>3, <3>1, CountStep
      <3>4. LastInv'
        BY <2>1, <2>3, <3>1, LastStep
      <3> QED BY <3>2, <3>3, <3>4
    <2> QED BY <2>2, <2>3 DEF FullInv, HoldInv
  <1>2. CASE UNCHANGED vars
    BY <1>2 DEF vars, FullInv, HoldInv, OrderInv, TypeInv, TypeOK, InitTicket,
                LockDiscipline, PublishOrder, OnlyDllShutDown, StepInv,
                TicketInv, CountInv, Counted, Counts, LastInv
  <1> QED BY <1>1, <1>2

LEMMA FullInvariant == Spec => []FullInv
  <1>1. Init => FullInv
    BY OrderInit, HoldInit DEF FullInv
  <1>2. FullInv /\ [Next]_vars => FullInv'
    BY FullStep
  <1> QED BY <1>1, <1>2, PTL DEF Spec

\* As long as somebody holds a reference there is a shared SDK, and the counter
\* covers the references held.
THEOREM HeldUsable == Spec => []HeldIsUsable
  <1>1. FullInv => HeldIsUsable
    <2> SUFFICES ASSUME FullInv, Disciplined
                 PROVE  /\ open # {} => instance # NoIface
                        /\ refCount >= Cardinality(open)
      BY DEF HeldIsUsable
    <2>1. TypeOK /\ TicketInv /\ CountInv /\ PublishOrder
      BY DEF FullInv, HoldInv, OrderInv, TypeInv
    <2>2. IsFiniteSet(Counted) /\ Cardinality(Counted) \in Nat
      BY <2>1, CountedFinite
    <2>3. open \subseteq Counted
      BY DEF Counted
    <2>4. IsFiniteSet(open) /\ Cardinality(open) <= Cardinality(Counted)
      BY <2>2, <2>3, FS_Subset
    <2>5. Cardinality(open) \in Nat /\ (Cardinality(open) = 0 <=> open = {})
      BY <2>4, FS_CardinalityType, FS_EmptySet
    <2>6. refCount >= Cardinality(open)
      BY <2>1, <2>2, <2>4, <2>5 DEF CountInv, TypeOK
    <2> QED BY <2>1, <2>5, <2>6 DEF PublishOrder, TypeOK
  <1> QED BY <1>1, FullInvariant, PTL

\* Whoever tears down holds the only reference there is.
LEMMA AloneInTeardown ==
  ASSUME TypeOK, TicketInv, CountInv, NEW t \in Threads, Counts(t), refCount <= 1
  PROVE  open = {}
  <1>1. Cardinality(Counted \ {mine[t]}) = Cardinality(Counted) - 1
        /\ IsFiniteSet(Counted \ {mine[t]})
    BY CountsPositive, CountedFinite, FS_RemoveElement
  <1>2. Cardinality(Counted \ {mine[t]}) \in Nat
    BY <1>1, FS_CardinalityType
  <1>3. Cardinality(Counted \ {mine[t]}) = 0
    BY <1>1, <1>2, CountedFinite DEF CountInv, TypeOK
  <1>4. Counted \ {mine[t]} = {}
    BY <1>1, <1>3, FS_EmptySet
  <1> QED BY <1>4 DEF Counted, TicketInv

\* No shutdown call stops the agent while another holder has not shut down.
THEOREM AgentStopsForLast == Spec => AgentStopsOnlyForLast
  <1>1. FullInv /\ [Next]_vars =>
          [Disciplined /\ agent = "up" /\ agent' = "down" => open = {}]_vars
    <2> SUFFICES ASSUME FullInv, [Next]_vars, Disciplined,
                        agent = "up", agent' = "down"
                 PROVE  open = {}
      OBVIOUS
    <2>1. PICK t \in Threads : ShutNative(t)
      BY DEF Next, vars, CallInitialize, CallShutdown, GetSdk, Run, Interrupt,
             InitializeStep, InitLock, InitLoad, InitNative, InitFlag, InitTech,
             InitPublish, InitCount, InitReturn, ShutdownStep, ShutLock,
             ShutClear, ShutZero, ShutUnpublish, ShutDrop, ShutReturn, GetReturn
    <2>2. TypeOK /\ TicketInv /\ CountInv /\ LastInv
      BY DEF FullInv, HoldInv, OrderInv, TypeInv
    <2>3. Counts(t) /\ refCount <= 1
      BY <2>1, <2>2 DEF ShutNative, Counts, LastInv
    <2> QED BY <2>2, <2>3, AloneInTeardown
  <1> QED BY <1>1, FullInvariant, PTL DEF Spec, AgentStopsOnlyForLast

\* get_sdk hands out one object for as long as somebody holds a reference.
THEOREM SharedObjectIsStable == Spec => SharedObjectStable
  <1>1. FullInv /\ HeldIsUsable /\ [Next]_vars =>
          [Disciplined /\ open # {} => instance' = instance]_vars
    <2> SUFFICES ASSUME FullInv, HeldIsUsable, Next, Disciplined, open # {},
                        instance' # instance
                 PROVE  FALSE
      BY DEF vars
    <2>1. PICK t \in Threads : InitPublish(t) \/ ShutUnpublish(t)
      BY DEF Next, CallInitialize, CallShutdown, GetSdk, Run, Interrupt,
             InitializeStep, InitLock, InitLoad, InitNative, InitFlag, InitTech,
             InitCount, InitReturn, ShutdownStep, ShutLock, ShutNative,
             ShutClear, ShutZero, ShutDrop, ShutReturn, GetReturn
    <2>2. instance # NoIface
      BY DEF HeldIsUsable
    <2>3. ShutUnpublish(t)
      BY <2>1, <2>2 DEF InitPublish
    <2>4. refCount = 0
      BY <2>3 DEF ShutUnpublish, FullInv, OrderInv, StepInv
    <2>5. open \subseteq Tickets
      BY DEF FullInv, OrderInv, TypeInv, TypeOK
    <2>6. IsFiniteSet(open)
      BY <2>5, TicketAssumption, FS_Subset
    <2>7. Cardinality(open) \in Nat /\ Cardinality(open) # 0
      BY <2>6, FS_CardinalityType, FS_EmptySet
    <2> QED BY <2>4, <2>7 DEF HeldIsUsable
  <1> QED BY <1>1, FullInvariant, HeldUsable, PTL DEF Spec, SharedObjectStable

\* A shutdown call that returned an error can be repeated.
THEOREM FailedShutdownIsRetryable == Spec => []FailedShutdownRetryable
  <1>1. FullInv => FailedShutdownRetryable
    <2> SUFFICES ASSUME FullInv, Disciplined, NEW t \in Threads,
                        pc[t] = "shut_return", ret[t] = "error"
                 PROVE  /\ sdk # NoIface /\ instance = sdk
                        /\ shouldShutdown /\ agent = "up"
                        /\ refCount = 1
      BY DEF FailedShutdownRetryable
    <2>1. TypeOK /\ TicketInv /\ CountInv /\ LastInv /\ PublishOrder
      BY DEF FullInv, HoldInv, OrderInv, TypeInv
    <2>2. refCount > 0
      BY <2>1, CountsPositive DEF Counts
    <2>3. refCount <= 1 /\ shouldShutdown /\ agent = "up"
      BY <2>1 DEF LastInv
    <2> QED BY <2>1, <2>2, <2>3 DEF PublishOrder, TypeOK
  <1> QED BY <1>1, FullInvariant, PTL

-----------------------------------------------------------------------------
(* The agent does not outlive the session, provided that nothing interrupts *)
(* initialize between the native initialization and the publication.        *)

AgentInv ==
  /\ agent = "up" =>
       /\ sdk # NoIface
       /\ shouldShutdown \/ \E t \in Threads : pc[t] = "init_flag"
  /\ \A t \in Threads :
       pc[t] \in {"init_load", "init_native", "shut_clear"} => agent = "down"

LEMMA AgentStep ==
  ASSUME OrderInv, AgentInv, ~TechReportMayRaise, Interruptible = {}, [Next]_vars
  PROVE  AgentInv'
  <1> USE OwnerAssumption
      DEF OrderInv, StepInv, LockDiscipline, TypeInv, TypeOK, AgentInv,
          LockedSteps, InitSteps, ShutSteps, Ifaces, Goto, Return
  <1>1. ASSUME NEW t \in Threads, CallInitialize(t) PROVE AgentInv'
    BY <1>1 DEF CallInitialize
  <1>2. ASSUME NEW t \in Threads, CallShutdown(t) PROVE AgentInv'
    BY <1>2 DEF CallShutdown
  <1>3. ASSUME NEW t \in Threads, GetSdk(t) \/ GetReturn(t) PROVE AgentInv'
    BY <1>3 DEF GetSdk, GetReturn
  <1>4. ASSUME NEW t \in Threads, InitializeStep(t) PROVE AgentInv'
    <2>1. CASE InitLock(t)      BY <2>1 DEF InitLock
    <2>2. CASE InitLoad(t)      BY <2>2, IfaceAssumption DEF InitLoad
    <2>3. CASE InitNative(t)    BY <2>3, IfaceAssumption DEF InitNative
    <2>4. CASE InitFlag(t)      BY <2>4 DEF InitFlag
    <2>5. CASE InitTech(t)      BY <2>5 DEF InitTech
    <2>6. CASE InitPublish(t)   BY <2>6 DEF InitPublish
    <2>7. CASE InitCount(t)     BY <2>7 DEF InitCount
    <2>8. CASE InitReturn(t)    BY <2>8 DEF InitReturn
    <2> QED
      BY <1>4, <2>1, <2>2, <2>3, <2>4, <2>5, <2>6, <2>7, <2>8 DEF InitializeStep
  <1>5. ASSUME NEW t \in Threads, ShutdownStep(t) PROVE AgentInv'
    <2>1. CASE ShutLock(t)      BY <2>1 DEF ShutLock, LastReference
    <2>2. CASE ShutNative(t)    BY <2>2 DEF ShutNative
    <2>3. CASE ShutClear(t)     BY <2>3 DEF ShutClear
    <2>4. CASE ShutZero(t)      BY <2>4 DEF ShutZero
    <2>5. CASE ShutUnpublish(t) BY <2>5 DEF ShutUnpublish
    <2>6. CASE ShutDrop(t)      BY <2>6 DEF ShutDrop
    <2>7. CASE ShutReturn(t)    BY <2>7 DEF ShutReturn
    <2> QED
      BY <1>5, <2>1, <2>2, <2>3, <2>4, <2>5, <2>6, <2>7 DEF ShutdownStep
  <1>6. CASE UNCHANGED vars
    BY <1>6 DEF vars
  <1> QED
    BY <1>1, <1>2, <1>3, <1>4, <1>5, <1>6 DEF Next, Run, Interrupt

\* Without interrupts and raising technology reports, a shutdown call that
\* drops the interface and reports no error has stopped the agent.
THEOREM FalsyShutdownIsDown ==
  ASSUME ~TechReportMayRaise, Interruptible = {}
  PROVE  Spec => []FalsyShutdownStops
  <1>1. Init => AgentInv
    BY DEF Init, AgentInv
  <1>2. OrderInv /\ AgentInv /\ [Next]_vars => AgentInv'
    BY AgentStep
  <1>3. AgentInv /\ TypeInv => FalsyShutdownStops
    BY DEF AgentInv, FalsyShutdownStops, TypeInv, TypeOK
  <1>4. OrderInv => TypeInv
    BY DEF OrderInv
  <1> QED
    BY <1>1, <1>2, <1>3, <1>4, OrderInvariant, PTL DEF Spec

-----------------------------------------------------------------------------
(* Refinement.  For callers that shut down what they initialized, and       *)
(* without interrupts, the counter is exact and every step of Lifecycle is  *)
(* a step of SharedSession or leaves the session as it is.                  *)

ExactInv ==
  /\ Cardinality(Counted) = refCount
  /\ \A t \in Threads : pc[t] = "shut_unpublish" => instance # NoIface

LEMMA ExactInit == Init => ExactInv
  <1> SUFFICES ASSUME Init PROVE ExactInv
    OBVIOUS
  <1>1. Counted = {}
    BY DEF Init, Counted, Counts
  <1> QED BY <1>1, FS_EmptySet DEF ExactInv, Init

LEMMA ExactStep ==
  ASSUME FullInv, ExactInv, Disciplined, Interruptible = {}, [Next]_vars
  PROVE  ExactInv'
  <1>1. TypeOK /\ PublishOrder /\ LockDiscipline /\ TicketInv /\ CountInv /\ LastInv
    BY DEF FullInv, HoldInv, OrderInv, TypeInv
  <1>2. CASE Next
    <2>1. PICK t \in Threads : CallInitialize(t) \/ CallShutdown(t) \/ GetSdk(t) \/ Run(t)
      BY <1>2 DEF Next, Interrupt
    <2>2. Cardinality(Counted') = refCount'
      <3>1. CASE Counted' = Counted /\ refCount' = refCount
        BY <3>1 DEF ExactInv
      <3>2. CASE ~(Counted' = Counted /\ refCount' = refCount)
        <4>1. /\ Cardinality(Counted') - refCount' = Cardinality(Counted) - refCount
              /\ Cardinality(Counted') \in Int /\ refCount' \in Int
          BY <1>1, <2>1, <3>2, CountEffect, CountArithmetic
        <4> QED BY <1>1, <4>1 DEF ExactInv, TypeOK
      <3> QED BY <3>1, <3>2
    <2>3. ASSUME NEW u \in Threads, pc'[u] = "shut_unpublish"
          PROVE  instance' # NoIface
      <3>1. CASE ShutZero(t)
        <4>1. refCount > 0
          BY <1>1, <3>1, CountsPositive DEF ShutZero, Counts
        <4> QED BY <3>1, <4>1 DEF ShutZero, FullInv, OrderInv, PublishOrder
      <3>2. CASE ~ShutZero(t)
        <4>1. pc[u] = "shut_unpublish" /\ lk = u
          BY <1>1, <2>1, <2>3, <3>2
             DEF Run, InitializeStep, ShutdownStep, CallInitialize, CallShutdown,
                 GetSdk, GetReturn, InitLock, InitLoad, InitNative, InitFlag,
                 InitTech, InitPublish, InitCount, InitReturn, ShutLock,
                 ShutNative, ShutClear, ShutUnpublish, ShutDrop, ShutReturn,
                 LockDiscipline, LockedSteps, ShutSteps, TypeOK, Goto
        <4>2. ~ShutUnpublish(t) /\ ~InitPublish(t)
          BY <1>1, <2>3, <4>1 DEF ShutUnpublish, InitPublish, LockDiscipline,
                           LockedSteps, InitSteps, ShutSteps, TypeOK, Goto
        <4>3. instance' = instance
          BY <2>1, <3>2, <4>2
             DEF Run, InitializeStep, ShutdownStep, CallInitialize, CallShutdown,
                 GetSdk, GetReturn, InitLock, InitLoad, InitNative, InitFlag,
                 InitTech, InitCount, InitReturn, ShutLock, ShutNative,
                 ShutClear, ShutDrop, ShutReturn
        <4> QED BY <4>1, <4>3 DEF ExactInv
      <3> QED BY <3>1, <3>2
    <2> QED BY <2>2, <2>3 DEF ExactInv
  <1>3. CASE UNCHANGED vars
    BY <1>3 DEF vars, ExactInv, Counted, Counts
  <1> QED BY <1>2, <1>3

\* The holders of the session are the counted tickets, and those of a call that
\* has published and not yet counted, or zeroed the counter and not yet withdrawn.
LEMMA HoldersAreCounted ==
  SessionHolders \ {mine[u] : u \in {v \in Threads : pc[v] \in {"init_count", "shut_unpublish"}}}
    \subseteq Counted
  BY DEF SessionHolders, Holding, HoldingSteps, Counted, Counts

LEMMA NobodyHoldsNothing ==
  ASSUME FullInv, ExactInv, Disciplined, instance = NoIface
  PROVE  SessionHolders = {}
  <1>1. TypeOK /\ PublishOrder /\ TicketInv /\ StepInv
    BY DEF FullInv, HoldInv, OrderInv, TypeInv
  <1>2. refCount = 0
    BY <1>1 DEF PublishOrder, TypeOK
  <1>3. Counted = {}
    BY <1>1, <1>2, CountedFinite, FS_EmptySet DEF ExactInv
  <1>4. \A u \in Threads : pc[u] # "init_count" /\ pc[u] # "shut_unpublish"
    BY <1>1 DEF ExactInv, StepInv
  <1> QED BY <1>3, <1>4, HoldersAreCounted

\* initialize opens or joins the session when it publishes.
LEMMA PublishSimulates ==
  ASSUME FullInv, ExactInv, Disciplined, NEW t \in Threads, InitPublish(t)
  PROVE  Session!Next
  <1>1. TypeOK /\ PublishOrder /\ TicketInv /\ StepInv
    BY DEF FullInv, HoldInv, OrderInv, TypeInv
  <1>2. mine[t] \in Tickets /\ mine[t] \notin SessionHolders
    BY <1>1 DEF InitPublish, SessionHolders, Holding, HoldingSteps, TypeOK, TicketInv
  <1>3. SessionHolders' = SessionHolders \cup {mine[t]}
    BY <1>1 DEF InitPublish, SessionHolders, Holding, HoldingSteps, TypeOK,
                TicketInv, Goto
  <1>4. CASE instance = NoIface
    <2>1. instance' \in Ifaces
      BY <1>1, <1>4 DEF InitPublish, StepInv, TypeOK
    <2>2. SessionHolders' = {mine[t]}
      BY <1>3, <1>4, NobodyHoldsNothing
    <2>3. Session!Open(mine[t])
      BY <1>4, <2>1, <2>2 DEF Session!Open
    <2> QED BY <1>2, <2>3 DEF Session!Next
  <1>5. CASE instance # NoIface
    <2>1. Session!Join(mine[t])
      BY <1>2, <1>3, <1>5 DEF InitPublish, Session!Join
    <2> QED BY <1>2, <2>1 DEF Session!Next
  <1> QED BY <1>4, <1>5

\* shutdown leaves the session when it decrements the counter.
LEMMA DecrementSimulates ==
  ASSUME FullInv, ExactInv, Disciplined, NEW t \in Threads, ShutLock(t)
  PROVE  Session!Next \/ UNCHANGED <<instance, SessionHolders>>
  <1>1. TypeOK /\ PublishOrder /\ TicketInv /\ CountInv
    BY DEF FullInv, HoldInv, OrderInv, TypeInv
  <1>2. Counts(t)
    BY DEF ShutLock, LastReference, Counts
  <1>3. mine[t] \in Counted /\ sdk # NoIface
    BY <1>1, <1>2, CountsPositive DEF PublishOrder
  <1>4. CASE refCount <= 1
    BY <1>1, <1>3, <1>4 DEF ShutLock, LastReference, SessionHolders, Holding, HoldingSteps,
                            TypeOK, TicketInv, Goto
  <1>5. CASE refCount > 1
    <2>1. SessionHolders' = SessionHolders \ {mine[t]}
      BY <1>1, <1>3, <1>5 DEF ShutLock, LastReference, SessionHolders, Holding, HoldingSteps,
                              TypeOK, TicketInv, Goto, Return
    <2>2. Counted \ {mine[t]} # {}
      <3>1. /\ IsFiniteSet(Counted \ {mine[t]})
            /\ Cardinality(Counted \ {mine[t]}) = refCount - 1
        BY <1>1, <1>3, CountedFinite, FS_RemoveElement DEF ExactInv
      <3> QED BY <1>1, <1>5, <3>1, FS_EmptySet DEF TypeOK
    <2>3. Counted \subseteq SessionHolders
      BY <1>1 DEF Counted, Counts, SessionHolders, Holding, HoldingSteps, TypeOK, TicketInv
    <2>4. mine[t] \in Tickets
      BY <1>1 DEF ShutLock, LastReference, TypeOK, TicketInv
    <2>5. Session!Leave(mine[t])
      BY <1>3, <2>1, <2>2, <2>3 DEF ShutLock, LastReference, Session!Leave
    <2> QED BY <2>4, <2>5 DEF Session!Next
  <1> QED BY <1>1, <1>4, <1>5 DEF TypeOK

\* shutdown closes the session when it withdraws the SDK.
LEMMA UnpublishSimulates ==
  ASSUME FullInv, ExactInv, Disciplined, NEW t \in Threads, ShutUnpublish(t)
  PROVE  Session!Next
  <1>1. TypeOK /\ TicketInv /\ StepInv /\ LockDiscipline
    BY DEF FullInv, HoldInv, OrderInv, TypeInv
  <1>2. Counted = {}
    <2>1. refCount = 0
      BY <1>1 DEF ShutUnpublish, StepInv
    <2> QED BY <1>1, <2>1, CountedFinite, FS_EmptySet DEF ExactInv
  <1>3. \A u \in Threads : pc[u] \in {"init_count", "shut_unpublish"} => u = t
    BY <1>1 DEF ShutUnpublish, LockDiscipline, LockedSteps, InitSteps, ShutSteps
  <1>4. mine[t] \in Tickets
    BY <1>1 DEF ShutUnpublish, TypeOK, TicketInv
  <1>5. SessionHolders = {mine[t]}
    <2>1. SessionHolders \subseteq {mine[t]}
      BY <1>2, <1>3, HoldersAreCounted
    <2>2. mine[t] \in SessionHolders
      BY <1>4, TicketAssumption DEF ShutUnpublish, SessionHolders, Holding, HoldingSteps
    <2> QED BY <2>1, <2>2
  <1>6. SessionHolders' = SessionHolders \ {mine[t]}
    BY <1>1 DEF ShutUnpublish, SessionHolders, Holding, HoldingSteps, TypeOK,
                TicketInv, Goto
  <1>7. Session!Close(mine[t])
    BY <1>5, <1>6 DEF ShutUnpublish, Session!Close
  <1> QED BY <1>4, <1>7 DEF Session!Next

\* Every other step keeps the session and who holds it.
LEMMA OtherStepsStutter ==
  ASSUME FullInv, ExactInv, Disciplined, Interruptible = {}, NEW t \in Threads,
         CallInitialize(t) \/ CallShutdown(t) \/ GetSdk(t) \/ Run(t),
         ~InitPublish(t), ~ShutLock(t), ~ShutUnpublish(t)
  PROVE  UNCHANGED <<instance, SessionHolders>>
  <1>1. TypeOK /\ TicketInv
    BY DEF FullInv, HoldInv, OrderInv, TypeInv
  <1> USE <1>1 DEF TypeOK, TicketInv, Goto, Return, SessionHolders, Holding, HoldingSteps
  <1>2. CASE CallInitialize(t)
    BY <1>2 DEF CallInitialize
  <1>3. CASE CallShutdown(t)
    <2>1. ASSUME NEW k \in open, open' = open \ {k}, mine' = [mine EXCEPT ![t] = k]
          PROVE  SessionHolders' = SessionHolders
      BY <1>3, <2>1, TicketAssumption DEF CallShutdown
    <2> QED BY <1>3, <2>1 DEF CallShutdown
  <1>4. CASE GetSdk(t) \/ GetReturn(t)
    BY <1>4 DEF GetSdk, GetReturn
  <1>5. CASE InitReturn(t)
    BY <1>5 DEF InitReturn
  <1>6. CASE ShutReturn(t)
    <2>1. CASE ret[t] = "error"
      BY <1>6, <2>1 DEF ShutReturn
    <2>2. CASE ret[t] # "error"
      BY <1>6, <2>2 DEF ShutReturn
    <2> QED BY <2>1, <2>2
  <1>7. CASE InitializeStep(t) /\ ~InitReturn(t)
    <2>1. UNCHANGED <<instance, open, mine>>
      BY <1>7 DEF InitializeStep, InitLock, InitLoad, InitNative, InitFlag,
                  InitTech, InitCount
    <2>2. \A u \in Threads : Holding(u)' <=> Holding(u)
      BY <1>7 DEF InitializeStep, InitLock, InitLoad, InitNative, InitFlag,
                  InitTech, InitCount
    <2> QED BY <2>1, <2>2
  <1>8. CASE ShutdownStep(t) /\ ~ShutReturn(t)
    <2>1. UNCHANGED <<instance, open, mine>>
      BY <1>8 DEF ShutdownStep, ShutNative, ShutClear, ShutZero, ShutDrop
    <2>2. \A u \in Threads : Holding(u)' <=> Holding(u)
      BY <1>8 DEF ShutdownStep, ShutNative, ShutClear, ShutZero, ShutDrop
    <2> QED BY <2>1, <2>2
  <1> QED
    BY <1>2, <1>3, <1>4, <1>5, <1>6, <1>7, <1>8 DEF Run

\* initialize and shutdown, step by step and seen without the lock, are the
\* atomic operations of a shared session.
THEOREM LifecycleImplementsSession ==
  ASSUME Disciplined, Interruptible = {}
  PROVE  Spec => ImplementsSession
  <1>1. Init => Session!Init
    BY DEF Init, Session!Init, SessionHolders, Holding, HoldingSteps
  <1>2. FullInv /\ ExactInv /\ [Next]_vars => [Session!Next]_(Session!vars)
    <2> SUFFICES ASSUME FullInv, ExactInv, [Next]_vars
                 PROVE  Session!Next \/ UNCHANGED <<instance, SessionHolders>>
      BY DEF Session!vars
    <2>1. CASE UNCHANGED vars
      BY <2>1 DEF vars, SessionHolders, Holding
    <2>2. ASSUME NEW t \in Threads,
                 CallInitialize(t) \/ CallShutdown(t) \/ GetSdk(t) \/ Run(t)
          PROVE  Session!Next \/ UNCHANGED <<instance, SessionHolders>>
      BY <2>2, PublishSimulates, DecrementSimulates, UnpublishSimulates,
         OtherStepsStutter
    <2> QED BY <2>1, <2>2 DEF Next, Interrupt
  <1>3. FullInv /\ ExactInv /\ [Next]_vars => ExactInv'
    BY ExactStep
  <1> QED
    BY <1>1, <1>2, <1>3, ExactInit, FullInvariant, PTL
       DEF Spec, ImplementsSession, Session!Spec

-----------------------------------------------------------------------------
(* get_sdk of a holder, and the way to the release of the lock               *)

\* The counterpart of GetSdkNeverNone, which does not hold: get_sdk answers with
\* None or with a private SDK only while nobody holds a reference, whether calls
\* of other threads fall between its two reads or not.
HoldersGetShared ==
  [][\A t \in Threads : Disciplined /\ ret'[t] \in {"None", "dummy"} /\ ret'[t] # ret[t] =>
       open = {}]_vars

\* A caller of initialize that has not shut down gets the shared SDK.
THEOREM GetSdkIsShared == Spec => HoldersGetShared
  <1>1. FullInv /\ HeldIsUsable /\ [Next]_vars =>
          [\A t \in Threads : Disciplined /\ ret'[t] \in {"None", "dummy"} /\ ret'[t] # ret[t] =>
             open = {}]_vars
    <2> SUFFICES ASSUME FullInv, HeldIsUsable, Next, Disciplined, NEW t \in Threads,
                        ret'[t] \in {"None", "dummy"}, ret'[t] # ret[t], open # {}
                 PROVE  FALSE
      OBVIOUS
    <2>1. ret \in [Threads -> Results] /\ instance # NoIface
      BY DEF FullInv, OrderInv, TypeInv, TypeOK, HeldIsUsable
    <2>2. PICK u \in Threads : GetSdk(u) \/ GetReturn(u)
      BY <2>1 DEF Next, CallInitialize, CallShutdown, Run, Interrupt, Return,
             InitializeStep, InitLock, InitLoad, InitNative, InitFlag, InitTech, InitPublish,
             InitCount, InitReturn, ShutdownStep, ShutLock, ShutNative, ShutClear, ShutZero,
             ShutUnpublish, ShutDrop, ShutReturn
    <2>3. ret' \in {[ret EXCEPT ![u] = "nothing"], [ret EXCEPT ![u] = "shared"]}
      BY <2>1, <2>2 DEF GetSdk, GetReturn, Return
    <2> QED BY <2>1, <2>3
  <1> QED BY <1>1, FullInvariant, HeldUsable, PTL DEF Spec, HoldersGetShared

\* How many steps a thread is away from the release of the lock at most.
StepsLeft ==
  [step \in Steps |->
     CASE step = "init_load" -> 7
       [] step \in {"init_native", "shut_native"} -> 6
       [] step \in {"init_flag", "shut_clear"} -> 5
       [] step \in {"init_tech", "shut_zero"} -> 4
       [] step \in {"init_publish", "shut_unpublish"} -> 3
       [] step \in {"init_count", "shut_drop"} -> 2
       [] step \in {"init_return", "shut_return"} -> 1
       [] OTHER -> 0]

\* The part of LockReleased that is no matter of fairness: whatever fails inside
\* initialize and shutdown, each step of the owner of the lock brings it nearer to
\* the release, which is where no steps are left; and no other thread can take the
\* lock, or bring the owner back.
LockRunsDown ==
  [][\A t \in Threads : lk = t =>
       \/ lk' = t /\ pc'[t] = pc[t]
       \/ lk' = t /\ 0 < StepsLeft[pc'[t]] /\ StepsLeft[pc'[t]] < StepsLeft[pc[t]]
       \/ lk' = NoThread /\ StepsLeft[pc'[t]] = 0]_vars

LEMMA StepsLeftOf ==
  /\ StepsLeft["idle"] = 0 /\ StepsLeft["init_lock"] = 0 /\ StepsLeft["shut_lock"] = 0
  /\ StepsLeft["get_return"] = 0
  /\ StepsLeft["init_load"] = 7 /\ StepsLeft["init_native"] = 6 /\ StepsLeft["init_flag"] = 5
  /\ StepsLeft["init_tech"] = 4 /\ StepsLeft["init_publish"] = 3 /\ StepsLeft["init_count"] = 2
  /\ StepsLeft["init_return"] = 1
  /\ StepsLeft["shut_native"] = 6 /\ StepsLeft["shut_clear"] = 5 /\ StepsLeft["shut_zero"] = 4
  /\ StepsLeft["shut_unpublish"] = 3 /\ StepsLeft["shut_drop"] = 2
  /\ StepsLeft["shut_return"] = 1
  BY DEF StepsLeft, Steps, LockedSteps, InitSteps, ShutSteps

\* Between taking the lock and releasing it a thread takes at most eight steps.
THEOREM LockIsRunDown == Spec => LockRunsDown
  <1>1. OrderInv /\ [Next]_vars =>
          [\A t \in Threads : lk = t =>
             \/ lk' = t /\ pc'[t] = pc[t]
             \/ lk' = t /\ 0 < StepsLeft[pc'[t]] /\ StepsLeft[pc'[t]] < StepsLeft[pc[t]]
             \/ lk' = NoThread /\ StepsLeft[pc'[t]] = 0]_vars
    <2> SUFFICES ASSUME OrderInv, Next, NEW t \in Threads, lk = t
                 PROVE  \/ lk' = t /\ pc'[t] = pc[t]
                        \/ /\ lk' = t /\ 0 < StepsLeft[pc'[t]]
                           /\ StepsLeft[pc'[t]] < StepsLeft[pc[t]]
                        \/ lk' = NoThread /\ StepsLeft[pc'[t]] = 0
      OBVIOUS
    <2>1. pc \in [Threads -> Steps] /\ pc[t] \in LockedSteps /\ t # NoThread
          /\ \A u \in Threads : u # t => pc[u] \notin LockedSteps
      BY OwnerAssumption DEF OrderInv, TypeInv, TypeOK, LockDiscipline
    <2>2. PICK u \in Threads : \/ CallInitialize(u) \/ CallShutdown(u) \/ GetSdk(u)
                               \/ Run(u) \/ Interrupt(u)
      BY DEF Next
    <2> USE StepsLeftOf DEF LockedSteps, InitSteps, ShutSteps, Goto
    <2>3. CASE u # t
      <3>1. pc'[t] = pc[t] /\ lk' = lk
        BY <2>1, <2>2, <2>3
           DEF CallInitialize, CallShutdown, GetSdk, Run, Interrupt, InitializeStep, InitLock,
               InitLoad, InitNative, InitFlag, InitTech, InitPublish, InitCount, InitReturn,
               ShutdownStep, ShutLock, ShutNative, ShutClear, ShutZero, ShutUnpublish,
               ShutDrop, ShutReturn, GetReturn
      <3> QED BY <3>1
    <2>4. CASE u = t /\ InitializeStep(t)
      BY <2>1, <2>4 DEF InitializeStep, InitLock, InitLoad, InitNative, InitFlag, InitTech,
                        InitPublish, InitCount, InitReturn
    <2>5. CASE u = t /\ ShutdownStep(t)
      BY <2>1, <2>5 DEF ShutdownStep, ShutLock, ShutNative, ShutClear, ShutZero,
                        ShutUnpublish, ShutDrop, ShutReturn
    <2>6. CASE u = t /\ Interrupt(t)
      BY <2>1, <2>6 DEF Interrupt
    <2>7. CASE u = t /\ (CallInitialize(t) \/ CallShutdown(t) \/ GetSdk(t) \/ GetReturn(t))
      BY <2>1, <2>7 DEF CallInitialize, CallShutdown, GetSdk, GetReturn
    <2> QED BY <2>2, <2>3, <2>4, <2>5, <2>6, <2>7 DEF Run
  <1> QED BY <1>1, OrderInvariant, PTL DEF Spec, LockRunsDown
=============================================================================
