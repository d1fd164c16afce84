------------------------ MODULE DiagCallbacksProofs ------------------------
(***************************************************************************)
(* Theorems about DiagCallbacks, for any number of threads, interfaces and *)
(* thunks, whatever callbacks the threads set and however their calls      *)
(* interleave.                                                             *)
(***************************************************************************)
EXTENDS DiagCallbacks, TLAPS

-----------------------------------------------------------------------------
(* Type correctness *)

\* The local variables of the call a thread is in.
CallInv ==
  \A t \in Threads :
    /\ pc[t] = "idle" => job[t] = NoJob
    /\ pc[t] # "idle" => job[t].iface \in Ifaces
    /\ pc[t] = "store_py" => job[t].slot = "warning"

TypeInv == TypeOK /\ CallInv

LEMMA TypeInit == Init => TypeInv
  BY DEF Init, TypeInv, TypeOK, CallInv, NoJob, Jobs, Slots

LEMMA TypeStep == TypeInv /\ [Next]_vars => TypeInv'
  <1> SUFFICES ASSUME TypeInv, [Next]_vars PROVE TypeInv'
    OBVIOUS
  <1> USE NoIfaceAssumption, NoThunkAssumption
      DEF TypeInv, TypeOK, CallInv, Jobs, Slots, ifaceVars, raceVars
  <1>1. CASE Unload
    BY <1>1 DEF Unload
  <1>2. ASSUME NEW i \in Ifaces, Load(i) \/ Release(i) PROVE TypeInv'
    <2>1. CASE Load(i)
      <3>1. /\ phase' = [phase EXCEPT ![i] = "alive"]
            /\ kept' = kept \cup {i} /\ current' = i
            /\ UNCHANGED <<registered, through, stored, pyCallback, pc, job, alone, raced>>
        BY <2>1 DEF Load
      <3>2. /\ \A j \in kept' : phase'[j] = "alive"
            /\ \A t \in Threads : job[t].iface # NoIface => phase'[job[t].iface] = "alive"
        BY <3>1
      <3> QED BY <3>1, <3>2
    <2>2. CASE Release(i)
      BY <2>2 DEF Release
    <2> QED BY <1>2, <2>1, <2>2
  <1>3. ASSUME NEW i \in Ifaces, Collect(i) PROVE TypeInv'
    <2>1. stored' \in [Ifaces -> [Slots -> Thunks \cup {NoThunk}]]
      BY <1>3 DEF Collect
    <2>2. pyCallback' \in [Ifaces -> Thunks \cup {NoThunk}]
      BY <1>3 DEF Collect
    <2>3. /\ phase' = [phase EXCEPT ![i] = "deleted"]
          /\ i \notin kept /\ \A t \in Threads : job[t].iface # i
          /\ UNCHANGED <<current, kept, registered, through, pc, job, alone, raced>>
      BY <1>3 DEF Collect, Collectable
    <2>4. /\ \A j \in kept : phase'[j] = "alive"
          /\ \A t \in Threads : job[t].iface # NoIface => phase'[job[t].iface] = "alive"
      BY <2>3
    <2>5. phase' \in [Ifaces -> {"unborn", "alive", "deleted"}]
      BY <2>3
    <2> QED BY <2>1, <2>2, <2>3, <2>4, <2>5
  <1>4. ASSUME NEW t \in Threads, CallSet(t) PROVE TypeInv'
    <2>1. PICK i \in kept, s \in Slots, k \in {x \in Thunks : ~InUse(x)} \cup {NoThunk} :
            /\ job' = [job EXCEPT ![t] = [iface |-> i, slot |-> s, thunk |-> k]]
            /\ alone' \subseteq alone \cup {t} /\ raced' \subseteq raced \cup {s}
      BY <1>4 DEF CallSet
    <2>2. /\ pc[t] = "idle"
          /\ pc' = [pc EXCEPT ![t] = "register"]
          /\ UNCHANGED <<current, phase, kept, registered, through, stored, pyCallback>>
      BY <1>4 DEF CallSet
    <2>3. i \in Ifaces /\ k \in Thunks \cup {NoThunk}
      OBVIOUS
    <2> QED BY <2>1, <2>2, <2>3
  <1>5. ASSUME NEW t \in Threads, Register(t) PROVE TypeInv'
    <2>1. /\ pc[t] = "register" /\ job[t] \in Jobs /\ NoJob \in Jobs
          /\ UNCHANGED <<current, phase, kept, stored, pyCallback>>
      BY <1>5 DEF Register, NoJob
    <2>2. CASE /\ registered' = [registered EXCEPT ![job[t].slot] = job[t].thunk]
               /\ through' = [through EXCEPT ![job[t].slot] =
                                IF job[t].thunk = NoThunk THEN NoIface ELSE job[t].iface]
               /\ pc' = [pc EXCEPT ![t] = "store"] /\ UNCHANGED <<job, alone>>
               /\ raced' \subseteq raced
      <3>1. /\ registered' \in [Slots -> Thunks \cup {NoThunk}]
            /\ through' \in [Slots -> Ifaces \cup {NoIface}]
        BY <2>1, <2>2
      <3>2. CallInv'
        BY <2>1, <2>2
      <3> QED BY <2>1, <2>2, <3>1, <3>2
    <2>3. CASE /\ UNCHANGED <<registered, through, raced>>
               /\ pc' = [pc EXCEPT ![t] = "idle"] /\ job' = [job EXCEPT ![t] = NoJob]
               /\ alone' = alone \ {t}
      <3>1. CallInv'
        BY <2>1, <2>3
      <3>2. \A u \in Threads : job'[u].iface # NoIface => job'[u] = job[u]
        BY <2>1, <2>3 DEF NoJob
      <3> QED BY <2>1, <2>3, <3>1, <3>2
    <2>4. \/ /\ registered' = [registered EXCEPT ![job[t].slot] = job[t].thunk]
             /\ through' = [through EXCEPT ![job[t].slot] =
                              IF job[t].thunk = NoThunk THEN NoIface ELSE job[t].iface]
             /\ pc' = [pc EXCEPT ![t] = "store"] /\ UNCHANGED <<job, alone>>
             /\ raced' \subseteq raced
          \/ /\ UNCHANGED <<registered, through, raced>>
             /\ pc' = [pc EXCEPT ![t] = "idle"] /\ job' = [job EXCEPT ![t] = NoJob]
             /\ alone' = alone \ {t}
      BY <1>5 DEF Register, AfterRegister, Goto
    <2> QED BY <2>2, <2>3, <2>4
  <1>6. ASSUME NEW t \in Threads, Store(t) PROVE TypeInv'
    <2>1. /\ pc[t] = "store" /\ job[t] \in Jobs /\ NoJob \in Jobs
          /\ stored' = [stored EXCEPT ![job[t].iface][job[t].slot] = job[t].thunk]
          /\ UNCHANGED <<current, phase, kept, registered, through, pyCallback, raced>>
      BY <1>6 DEF Store, Attribute, NoJob
    <2>2. \/ /\ pc' = [pc EXCEPT ![t] = "idle"] /\ job' = [job EXCEPT ![t] = NoJob]
             /\ alone' = alone \ {t}
          \/ /\ job[t].slot = "warning" /\ pc' = [pc EXCEPT ![t] = "store_py"]
             /\ UNCHANGED <<job, alone>>
      BY <1>6 DEF Store, AfterStore, Goto
    <2>3. stored' \in [Ifaces -> [Slots -> Thunks \cup {NoThunk}]]
      BY <2>1
    <2>4. CallInv'
      BY <2>1, <2>2
    <2>5. \A u \in Threads : job'[u].iface # NoIface => job'[u] = job[u]
      BY <2>1, <2>2 DEF NoJob
    <2>6. /\ pc' \in [Threads -> {"idle", "register", "store", "store_py"}]
          /\ job' \in [Threads -> Jobs] /\ alone' \subseteq Threads
      <3> HIDE DEF Jobs, CallInv
      <3>1. CASE pc' = [pc EXCEPT ![t] = "idle"] /\ job' = [job EXCEPT ![t] = NoJob]
        BY <2>1, <2>2, <3>1
      <3>2. CASE pc' = [pc EXCEPT ![t] = "store_py"] /\ UNCHANGED <<job, alone>>
        BY <3>2
      <3> QED BY <2>2, <3>1, <3>2
    <2> QED BY <2>1, <2>3, <2>4, <2>5, <2>6
  <1>7. ASSUME NEW t \in Threads, StorePy(t) PROVE TypeInv'
    <2>1. /\ pc[t] = "store_py" /\ job[t] \in Jobs /\ NoJob \in Jobs
          /\ pyCallback' = [pyCallback EXCEPT ![job[t].iface] = job[t].thunk]
          /\ pc' = [pc EXCEPT ![t] = "idle"] /\ job' = [job EXCEPT ![t] = NoJob]
          /\ alone' = alone \ {t}
          /\ UNCHANGED <<current, phase, kept, registered, through, stored, raced>>
      BY <1>7 DEF StorePy, Goto, NoJob
    <2>2. pyCallback' \in [Ifaces -> Thunks \cup {NoThunk}]
      BY <2>1
    <2>3. CallInv'
      BY <2>1
    <2>4. \A u \in Threads : job'[u].iface # NoIface => job'[u] = job[u]
      BY <2>1 DEF NoJob
    <2> QED BY <2>1, <2>2, <2>3, <2>4
  <1>8. CASE UNCHANGED vars
    BY <1>8 DEF vars
  <1> QED BY <1>1, <1>2, <1>3, <1>4, <1>5, <1>6, <1>7, <1>8 DEF Next

\* The variables keep their types.
THEOREM TypeCorrect == Spec => []TypeOK
  BY TypeInit, TypeStep, PTL DEF Spec, TypeInv

-----------------------------------------------------------------------------
(* Races.  A call that is alone is the only one that sets its callback, and  *)
(* where calls were never beside each other, every call is alone.            *)

RaceInv ==
  \A t \in Threads :
    /\ t \in alone =>
         /\ pc[t] # "idle"
         /\ \A u \in Threads : u # t /\ pc[u] # "idle" => job[u].slot # job[t].slot
    /\ pc[t] # "idle" /\ job[t].slot \notin raced => t \in alone

LEMMA RaceInit == Init => RaceInv
  BY DEF Init, RaceInv

\* A thread that goes on or returns leaves the others where they are.
LEMMA RaceGoto ==
  ASSUME TypeInv, RaceInv, NEW t \in Threads, pc[t] # "idle",
         NEW step \in {"idle", "register", "store", "store_py"}, Goto(t, step),
         raced' = raced \/ (t \in alone /\ raced' = raced \ {job[t].slot})
  PROVE  RaceInv'
  <1> USE DEF TypeInv, TypeOK
  <1>1. CASE step = "idle"
    <2>1. /\ pc'[t] = "idle" /\ alone' = alone \ {t}
          /\ \A u \in Threads : u # t => pc'[u] = pc[u] /\ job'[u] = job[u]
      BY <1>1 DEF Goto
    <2> QED BY <2>1 DEF RaceInv
  <1>2. CASE step # "idle"
    <2>1. /\ alone' = alone /\ job' = job
          /\ \A u \in Threads : pc'[u] # "idle" <=> pc[u] # "idle"
      BY <1>2 DEF Goto
    <2> QED BY <2>1 DEF RaceInv
  <1> QED BY <1>1, <1>2

LEMMA RaceStep == TypeInv /\ RaceInv /\ [Next]_vars => RaceInv'
  <1> SUFFICES ASSUME TypeInv, RaceInv, [Next]_vars PROVE RaceInv'
    OBVIOUS
  <1>1. ASSUME UNCHANGED <<pc, job, raceVars>> PROVE RaceInv'
    BY <1>1 DEF RaceInv, raceVars
  <1>2. ASSUME NEW t \in Threads, CallSet(t) PROVE RaceInv'
    <2>1. PICK i \in kept, s \in Slots, k \in {x \in Thunks : ~InUse(x)} \cup {NoThunk} :
            /\ job' = [job EXCEPT ![t] = [iface |-> i, slot |-> s, thunk |-> k]]
            /\ \/ /\ Setting(s) = {}
                  /\ alone' = alone \cup {t} /\ UNCHANGED raced
               \/ /\ Setting(s) # {}
                  /\ alone' = alone \ Setting(s) /\ raced' = raced \cup {s}
      BY <1>2 DEF CallSet
    <2>2. /\ pc[t] = "idle" /\ t \notin alone
          /\ pc'[t] = "register" /\ job'[t].slot = s
          /\ \A u \in Threads : u # t => pc'[u] = pc[u] /\ job'[u] = job[u]
      BY <1>2, <2>1 DEF CallSet, TypeInv, TypeOK, RaceInv
    <2>3. CASE Setting(s) = {} /\ alone' = alone \cup {t} /\ UNCHANGED raced
      BY <2>2, <2>3 DEF RaceInv, Setting
    <2>4. CASE Setting(s) # {} /\ alone' = alone \ Setting(s) /\ raced' = raced \cup {s}
      BY <2>2, <2>4 DEF RaceInv, Setting
    <2> QED BY <2>1, <2>3, <2>4
  <1>3. ASSUME NEW t \in Threads, Register(t) PROVE RaceInv'
    BY <1>3, RaceGoto DEF Register, AfterRegister
  <1>4. ASSUME NEW t \in Threads, Store(t) PROVE RaceInv'
    BY <1>4, RaceGoto DEF Store, AfterStore
  <1>5. ASSUME NEW t \in Threads, StorePy(t) PROVE RaceInv'
    BY <1>5, RaceGoto DEF StorePy
  <1>6. CASE Next
    BY <1>1, <1>2, <1>3, <1>4, <1>5, <1>6 DEF Next, Unload, Load, Release, Collect
  <1>7. CASE UNCHANGED vars
    BY <1>1, <1>7 DEF vars
  <1> QED BY <1>6, <1>7

-----------------------------------------------------------------------------
(* The thunk in the library.  Until a call has stored its thunk, the call    *)
(* itself is what keeps the thunk alive; if it is alone, nobody registers    *)
(* another one for the same slot in between.                                 *)

\* What a call registered is still registered when it assigns the attributes.
Undisturbed ==
  \A t \in Threads :
    pc[t] \in {"store", "store_py"} /\ job[t].slot \notin raced
    => registered[job[t].slot] = job[t].thunk

\* A call that registered the thunk of a slot and is about to store it, or to
\* assign the callback of the Python side.
Pending(s, steps) ==
  \E t \in Threads :
    /\ pc[t] \in steps
    /\ job[t].iface = through[s] /\ job[t].slot = s /\ job[t].thunk = registered[s]

Storing(s) == Pending(s, {"store"})
Assigning == Pending("warning", {"store", "store_py"})

ThroughInv ==
  \A s \in Slots :
    registered[s] # NoThunk => through[s] \in Ifaces /\ phase[through[s]] # "unborn"

\* The interface whose thunk a slot has lives, and no calls raced for the slot.
Sound(s) == s \notin raced /\ registered[s] # NoThunk /\ phase[through[s]] = "alive"

KeptInv ==
  \A s \in Slots : Sound(s) => stored[through[s]][s] = registered[s] \/ Storing(s)

PythonInv ==
  Sound("warning") => pyCallback[through["warning"]] = registered["warning"] \/ Assigning

SlotInv == Undisturbed /\ ThroughInv /\ KeptInv /\ PythonInv

CallbackInv == TypeInv /\ RaceInv /\ SlotInv

LEMMA CallbackInit == Init => CallbackInv
  BY TypeInit, RaceInit
     DEF Init, CallbackInv, SlotInv, Undisturbed, ThroughInv, KeptInv, PythonInv, Sound, Slots

\* Steps of the interface objects.
LEMMA IfaceSlots ==
  ASSUME CallbackInv, UNCHANGED <<registered, through, pc, job, raceVars>>,
         \A s \in Slots : registered[s] # NoThunk =>
           /\ phase'[through[s]] # "unborn"
           /\ phase'[through[s]] = "alive" =>
                /\ phase[through[s]] = "alive"
                /\ stored'[through[s]] = stored[through[s]]
                /\ pyCallback'[through[s]] = pyCallback[through[s]]
  PROVE  SlotInv'
  <1>1. /\ \A s \in Slots : Sound(s)' => Sound(s)
        /\ \A s \in Slots : Storing(s) => Storing(s)'
        /\ Assigning => Assigning'
    BY DEF Sound, Storing, Assigning, Pending, raceVars
  <1>2. Undisturbed' /\ ThroughInv'
    BY DEF CallbackInv, SlotInv, Undisturbed, ThroughInv, raceVars
  <1>3. KeptInv'
    BY <1>1 DEF CallbackInv, SlotInv, KeptInv, Sound
  <1>4. PythonInv'
    BY <1>1 DEF CallbackInv, SlotInv, PythonInv, Sound, Slots
  <1> QED BY <1>2, <1>3, <1>4 DEF SlotInv

LEMMA CallSetSlots ==
  ASSUME CallbackInv, NEW t \in Threads, CallSet(t)
  PROVE  SlotInv'
  <1>1. /\ pc[t] = "idle" /\ pc'[t] = "register"
        /\ \A u \in Threads : u # t => pc'[u] = pc[u] /\ job'[u] = job[u]
        /\ raced \subseteq raced'
        /\ UNCHANGED <<phase, registered, through, stored, pyCallback>>
    BY DEF CallSet, CallbackInv, TypeInv, TypeOK, ifaceVars
  <1>2. /\ \A s \in Slots : Sound(s)' => Sound(s)
        /\ \A s \in Slots : Storing(s) => Storing(s)'
        /\ Assigning => Assigning'
    BY <1>1 DEF Sound, Storing, Assigning, Pending
  <1>3. Undisturbed' /\ ThroughInv'
    BY <1>1 DEF CallbackInv, SlotInv, Undisturbed, ThroughInv
  <1>4. KeptInv'
    BY <1>1, <1>2 DEF CallbackInv, SlotInv, KeptInv
  <1>5. PythonInv'
    BY <1>1, <1>2 DEF CallbackInv, SlotInv, PythonInv, Slots
  <1> QED BY <1>3, <1>4, <1>5 DEF SlotInv

LEMMA RegisterSlots ==
  ASSUME CallbackInv, NEW t \in Threads, Register(t)
  PROVE  SlotInv'
  <1> DEFINE r == job[t].slot
  <1> USE NoIfaceAssumption, NoThunkAssumption DEF CallbackInv, TypeInv, TypeOK, CallInv, Jobs, ifaceVars
  <1>1. /\ pc[t] = "register" /\ r \in Slots /\ job[t].iface \in Ifaces
        /\ UNCHANGED <<phase, stored, pyCallback>>
    BY DEF Register
  <1>2. CASE /\ registered' = [registered EXCEPT ![r] = job[t].thunk]
             /\ through' = [through EXCEPT ![r] =
                              IF job[t].thunk = NoThunk THEN NoIface ELSE job[t].iface]
             /\ raced' = IF t \in alone THEN raced \ {r} ELSE raced
             /\ pc' = [pc EXCEPT ![t] = "store"] /\ job' = job
    <2>1. \A u \in Threads : u # t => pc'[u] = pc[u]
      BY <1>2
    <2>2. \A u \in Threads : u # t /\ pc[u] # "idle" /\ job[u].slot = r => r \in raced'
      BY <1>1, <1>2 DEF RaceInv
    <2>3. Undisturbed'
      <3> SUFFICES ASSUME NEW u \in Threads, pc'[u] \in {"store", "store_py"},
                          job[u].slot \notin raced'
                   PROVE  registered'[job[u].slot] = job[u].thunk
        BY <1>2 DEF Undisturbed
      <3>1. CASE u = t
        BY <1>1, <1>2, <3>1
      <3>2. CASE u # t
        <4>1. pc[u] \in {"store", "store_py"} /\ job[u].slot # r /\ job[u].slot \notin raced
          BY <1>2, <2>1, <2>2, <3>2
        <4> QED BY <1>2, <4>1 DEF SlotInv, Undisturbed
      <3> QED BY <3>1, <3>2
    <2>4. ThroughInv'
      BY <1>1, <1>2 DEF SlotInv, ThroughInv
    <2>5. ASSUME NEW s \in Slots, s # r
          PROVE  /\ registered'[s] = registered[s] /\ through'[s] = through[s]
                 /\ Sound(s)' => Sound(s)
      BY <1>1, <1>2, <2>5 DEF Sound
    <2>6. /\ \A s \in Slots : s # r /\ Storing(s) => Storing(s)'
          /\ r # "warning" /\ Assigning => Assigning'
      BY <1>2, <2>1, <2>5 DEF Storing, Assigning, Pending, Slots
    <2>7. /\ \A s \in Slots : s = r /\ registered'[s] # NoThunk => Storing(s)'
          /\ r = "warning" /\ registered'[r] # NoThunk => Assigning'
      BY <1>1, <1>2 DEF Storing, Assigning, Pending
    <2>8. KeptInv'
      <3> SUFFICES ASSUME NEW s \in Slots, Sound(s)'
                   PROVE  stored[through'[s]][s] = registered'[s] \/ Storing(s)'
        BY <1>1 DEF KeptInv
      <3>1. CASE s = r
        BY <2>7, <3>1 DEF Sound
      <3>2. CASE s # r
        <4>1. registered'[s] = registered[s] /\ through'[s] = through[s] /\ Sound(s)
          BY <2>5, <3>2
        <4>2. stored[through[s]][s] = registered[s] \/ Storing(s)
          BY <4>1 DEF SlotInv, KeptInv
        <4> QED BY <2>6, <3>2, <4>1, <4>2
      <3> QED BY <3>1, <3>2
    <2>9. PythonInv'
      BY <1>1, <2>5, <2>6, <2>7 DEF SlotInv, PythonInv, Sound, Slots
    <2> QED BY <2>3, <2>4, <2>8, <2>9 DEF SlotInv
  <1>3. CASE /\ UNCHANGED <<registered, through, raced>>
             /\ pc' = [pc EXCEPT ![t] = "idle"] /\ job' = [job EXCEPT ![t] = NoJob]
    <2>1. pc'[t] = "idle" /\ \A u \in Threads : u # t => pc'[u] = pc[u] /\ job'[u] = job[u]
      BY <1>3
    <2>2. /\ \A s \in Slots : Sound(s)' => Sound(s)
          /\ \A s \in Slots : Storing(s) => Storing(s)'
          /\ Assigning => Assigning'
      BY <1>1, <1>3, <2>1 DEF Sound, Storing, Assigning, Pending
    <2>3. Undisturbed' /\ ThroughInv'
      BY <1>1, <1>3, <2>1 DEF SlotInv, Undisturbed, ThroughInv
    <2>4. KeptInv'
      BY <1>1, <1>3, <2>2 DEF SlotInv, KeptInv
    <2>5. PythonInv'
      BY <1>1, <1>3, <2>2 DEF SlotInv, PythonInv, Slots
    <2> QED BY <2>3, <2>4, <2>5 DEF SlotInv
  <1> QED BY <1>2, <1>3 DEF Register, AfterRegister, Goto

LEMMA StoreSlots ==
  ASSUME CallbackInv, NEW t \in Threads, Store(t)
  PROVE  SlotInv'
  <1> DEFINE i == job[t].iface
             s == job[t].slot
             k == job[t].thunk
  <1> USE NoIfaceAssumption, NoThunkAssumption DEF CallbackInv, TypeInv, TypeOK, CallInv, Jobs, ifaceVars
  <1>1. /\ pc[t] = "store" /\ i \in Ifaces /\ s \in Slots
        /\ stored' = [stored EXCEPT ![i][s] = k]
        /\ pc' = [pc EXCEPT ![t] = AfterStore(s)]
        /\ job' = IF AfterStore(s) = "idle" THEN [job EXCEPT ![t] = NoJob] ELSE job
        /\ UNCHANGED <<phase, registered, through, pyCallback, raced>>
    BY DEF Store, Attribute, Goto
  <1>2. s \notin raced => registered[s] = k
    BY <1>1 DEF SlotInv, Undisturbed
  <1>3. \A u \in Threads : u # t => pc'[u] = pc[u] /\ job'[u] = job[u]
    BY <1>1
  <1>4. /\ pc'[t] = AfterStore(s)
        /\ pc'[t] # "idle" => pc'[t] = "store_py" /\ s = "warning" /\ job'[t] = job[t]
    BY <1>1 DEF AfterStore
  <1>5. Undisturbed'
    <2> SUFFICES ASSUME NEW u \in Threads, pc'[u] \in {"store", "store_py"}, job'[u].slot \notin raced
                 PROVE  registered[job'[u].slot] = job'[u].thunk
      BY <1>1 DEF Undisturbed
    <2>1. CASE u = t
      BY <1>2, <1>4, <2>1
    <2>2. CASE u # t
      BY <1>3, <2>2 DEF SlotInv, Undisturbed
    <2> QED BY <2>1, <2>2
  <1>6. ThroughInv'
    BY <1>1 DEF SlotInv, ThroughInv
  <1>7. ASSUME NEW r \in Slots, Sound(r)
        PROVE  stored'[through[r]][r] = registered[r] \/ Storing(r)'
    <2>1. through[r] \in Ifaces
      BY <1>7 DEF SlotInv, ThroughInv, Sound
    <2>2. CASE stored[through[r]][r] = registered[r]
      <3>1. CASE through[r] = i /\ r = s
        BY <1>1, <1>2, <1>7, <2>1, <3>1 DEF Sound
      <3>2. CASE ~(through[r] = i /\ r = s)
        BY <1>1, <2>1, <2>2, <3>2
      <3> QED BY <3>1, <3>2
    <2>3. CASE Storing(r)
      <3>1. PICK u \in Threads : /\ pc[u] = "store" /\ job[u].iface = through[r]
                                 /\ job[u].slot = r /\ job[u].thunk = registered[r]
        BY <2>3 DEF Storing, Pending
      <3>2. CASE u = t
        BY <1>1, <2>1, <3>1, <3>2
      <3>3. CASE u # t
        BY <1>1, <1>3, <3>1, <3>3 DEF Storing, Pending
      <3> QED BY <3>2, <3>3
    <2> QED BY <1>7, <2>2, <2>3 DEF SlotInv, KeptInv
  <1>8. KeptInv'
    BY <1>1, <1>7 DEF KeptInv, Sound
  <1>9. ASSUME Assigning PROVE Assigning'
    <2>1. PICK u \in Threads : /\ pc[u] \in {"store", "store_py"}
                               /\ job[u].iface = through["warning"]
                               /\ job[u].slot = "warning"
                               /\ job[u].thunk = registered["warning"]
      BY <1>9 DEF Assigning, Pending
    <2>2. pc'[u] \in {"store", "store_py"} /\ job'[u] = job[u]
      BY <1>1, <1>3, <2>1 DEF AfterStore
    <2> QED BY <1>1, <2>1, <2>2 DEF Assigning, Pending
  <1>10. PythonInv'
    BY <1>1, <1>9 DEF SlotInv, PythonInv, Sound
  <1> QED BY <1>5, <1>6, <1>8, <1>10 DEF SlotInv

LEMMA StorePySlots ==
  ASSUME CallbackInv, NEW t \in Threads, StorePy(t)
  PROVE  SlotInv'
  <1> USE NoIfaceAssumption, NoThunkAssumption DEF CallbackInv, TypeInv, TypeOK, CallInv, Jobs, ifaceVars
  <1>1. /\ pc[t] = "store_py" /\ job[t].slot = "warning" /\ job[t].iface \in Ifaces
        /\ pyCallback' = [pyCallback EXCEPT ![job[t].iface] = job[t].thunk]
        /\ pc'[t] = "idle"
        /\ \A u \in Threads : u # t => pc'[u] = pc[u] /\ job'[u] = job[u]
        /\ UNCHANGED <<phase, registered, through, stored, raced>>
    BY DEF StorePy, Goto
  <1>2. "warning" \notin raced => registered["warning"] = job[t].thunk
    BY <1>1 DEF SlotInv, Undisturbed
  <1>3. Undisturbed' /\ ThroughInv'
    BY <1>1 DEF SlotInv, Undisturbed, ThroughInv
  <1>4. KeptInv'
    <2>1. \A s \in Slots : Storing(s) => Storing(s)'
      BY <1>1 DEF Storing, Pending
    <2> QED BY <1>1, <2>1 DEF SlotInv, KeptInv, Sound
  <1>5. ASSUME Sound("warning")
        PROVE  pyCallback'[through["warning"]] = registered["warning"] \/ Assigning'
    <2>1. through["warning"] \in Ifaces /\ registered["warning"] = job[t].thunk
      BY <1>2, <1>5 DEF SlotInv, ThroughInv, Sound, Slots
    <2>2. CASE through["warning"] = job[t].iface
      BY <1>1, <2>1, <2>2
    <2>3. CASE through["warning"] # job[t].iface
      <3>1. pyCallback'[through["warning"]] = pyCallback[through["warning"]]
        BY <1>1, <2>1, <2>3
      <3>2. ASSUME Assigning PROVE Assigning'
        <4>1. PICK u \in Threads : /\ pc[u] \in {"store", "store_py"}
                                   /\ job[u].iface = through["warning"]
                                   /\ job[u].slot = "warning"
                                   /\ job[u].thunk = registered["warning"]
          BY <3>2 DEF Assigning, Pending
        <4>2. u # t
          BY <2>3, <4>1
        <4>3. pc'[u] = pc[u] /\ job'[u] = job[u]
          BY <1>1, <4>2
        <4> QED BY <1>1, <4>1, <4>3 DEF Assigning, Pending
      <3> QED BY <1>5, <3>1, <3>2 DEF SlotInv, PythonInv
    <2> QED BY <2>2, <2>3
  <1>6. PythonInv'
    BY <1>1, <1>5 DEF PythonInv, Sound
  <1> QED BY <1>3, <1>4, <1>6 DEF SlotInv

LEMMA CallbackStep == CallbackInv /\ [Next]_vars => CallbackInv'
  <1> SUFFICES ASSUME CallbackInv, [Next]_vars PROVE SlotInv'
    BY TypeStep, RaceStep DEF CallbackInv
  <1>1. ASSUME NEW i \in Ifaces, Load(i) PROVE SlotInv'
    <2>1. \A s \in Slots : registered[s] # NoThunk => through[s] # i /\ through[s] \in Ifaces
      BY <1>1 DEF Load, CallbackInv, SlotInv, ThroughInv
    <2>2. \A j \in Ifaces : j # i => phase'[j] = phase[j]
      BY <1>1 DEF Load, CallbackInv, TypeInv, TypeOK
    <2>3. \A s \in Slots : registered[s] # NoThunk => phase[through[s]] # "unborn"
      BY DEF CallbackInv, SlotInv, ThroughInv
    <2> QED BY <1>1, <2>1, <2>2, <2>3, IfaceSlots DEF Load
  <1>2. ASSUME NEW i \in Ifaces, Collect(i) PROVE SlotInv'
    <2>1. \A s \in Slots : registered[s] # NoThunk => phase[through[s]] # "unborn" /\ through[s] \in Ifaces
      BY DEF CallbackInv, SlotInv, ThroughInv
    <2>2. phase'[i] = "deleted"
      BY <1>2 DEF Collect, CallbackInv, TypeInv, TypeOK
    <2>3. \A j \in Ifaces : j # i =>
            phase'[j] = phase[j] /\ stored'[j] = stored[j] /\ pyCallback'[j] = pyCallback[j]
      BY <1>2 DEF Collect, CallbackInv, TypeInv, TypeOK
    <2> QED BY <1>2, <2>1, <2>2, <2>3, IfaceSlots DEF Collect
  <1>3. ASSUME UNCHANGED <<phase, registered, through, stored, pyCallback, pc, job, raceVars>>
        PROVE  SlotInv'
    <2>1. \A s \in Slots : registered[s] # NoThunk => phase[through[s]] # "unborn"
      BY DEF CallbackInv, SlotInv, ThroughInv
    <2> QED BY <1>3, <2>1, IfaceSlots
  <1>4. CASE Next
    BY <1>1, <1>2, <1>3, <1>4, CallSetSlots, RegisterSlots, StoreSlots, StorePySlots
       DEF Next, Unload, Release
  <1>5. CASE UNCHANGED vars
    BY <1>3, <1>5 DEF vars, ifaceVars
  <1> QED BY <1>4, <1>5

\* The library never holds a freed thunk of an interface that lives, but where
\* several calls raced for one callback; the next one that is alone mends it.
THEOREM RegisteredIsReferenced == Spec => []RegisteredStaysReferenced
  <1>1. CallbackInv => RegisteredStaysReferenced
    BY DEF CallbackInv, TypeInv, TypeOK, SlotInv, ThroughInv, KeptInv, Sound, Storing, Pending,
           RegisteredStaysReferenced, Referenced
  <1> QED BY <1>1, CallbackInit, CallbackStep, PTL DEF Spec

\* Between calls, Python warns through the callback the library has, but where
\* several calls raced to set it.
THEOREM PythonAgrees == Spec => []PythonAgreesWithLibrary
  <1>1. CallbackInv => PythonAgreesWithLibrary
    BY DEF CallbackInv, SlotInv, PythonInv, Sound, Assigning, Pending, PythonAgreesWithLibrary, Setting
  <1> QED BY <1>1, CallbackInit, CallbackStep, PTL DEF Spec
=============================================================================
