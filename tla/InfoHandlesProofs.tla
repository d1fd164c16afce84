------------------------- MODULE InfoHandlesProofs -------------------------
(***************************************************************************)
(* Theorems about InfoHandles, for any number of threads and wrappers,     *)
(* whichever threads close and use them and however they interleave.       *)
(***************************************************************************)
EXTENDS InfoHandles, TLAPS

LEMMA TypeStep == TypeOK /\ [Next]_vars => TypeOK'
  <1> SUFFICES ASSUME TypeOK, [Next]_vars PROVE TypeOK'
    OBVIOUS
  <1> USE NoHandleAssumption DEF TypeOK, calls, besides
  <1>1. CASE Publish \/ Withdraw
    BY <1>1 DEF Publish, Withdraw
  <1>2. ASSUME NEW h \in Handles, Drop(h) PROVE TypeOK'
    BY <1>2 DEF Drop
  <1>3. ASSUME NEW t \in Threads, NativeDelete(t) PROVE TypeOK'
    BY <1>3 DEF NativeDelete, Goto
  <1>10. ASSUME NEW t \in Threads, ReadHandle(t) PROVE TypeOK'
    BY <1>10 DEF ReadHandle, Goto, Leave
  <1>4. ASSUME NEW t \in Threads, Clear(t) PROVE TypeOK'
    BY <1>4 DEF Clear, Leave
  <1>5. ASSUME NEW t \in Threads, Warn(t) PROVE TypeOK'
    BY <1>5 DEF Warn, AfterWarning, Goto
  <1>6. ASSUME NEW t \in Threads, NativeUse(t) PROVE TypeOK'
    BY <1>6 DEF NativeUse, Leave
  <1>7. ASSUME NEW t \in Threads, NEW h \in Handles, Create(t, h) PROVE TypeOK'
    BY <1>7 DEF Create, MadeBy, NativeCreated
  <1>8. ASSUME NEW t \in Threads, NEW h \in Handles, Close(t, h) \/ Finalize(t, h) \/ Use(t, h)
        PROVE  TypeOK'
    BY <1>8 DEF Close, Finalize, Use, Enter, Noting
  <1>9. CASE UNCHANGED vars
    BY <1>9 DEF vars
  <1> QED BY <1>1, <1>2, <1>3, <1>4, <1>5, <1>6, <1>7, <1>8, <1>9, <1>10 DEF Next, Run

\* The variables keep their types.
THEOREM TypeCorrect == Spec => []TypeOK
  <1>1. Init => TypeOK
    BY NoHandleAssumption DEF Init, TypeOK
  <1> QED BY <1>1, TypeStep, PTL DEF Spec

-----------------------------------------------------------------------------
(* Who closes.  What makes the test of the handle last until it is cleared is *)
(* that nobody else gets in: __del__ waits for the last frame that refers to  *)
(* the wrapper, and a wrapper that another call closes or uses in between is  *)
(* one of closedBeside or usedBeside.                                         *)

\* A thread that closes alone found the wrapper open.
CloserInv ==
  \A t \in Threads, h \in Handles \ closedBeside :
    Closing(t, h) =>
      /\ wrapper[h] = "open"
      /\ \A u \in Threads : Closing(u, h) => u = t

\* Nobody closes what a factory alone is about to pass on.
UserInv ==
  \A t \in Threads, h \in Handles \ usedBeside :
    Using(t, h) => wrapper[h] = "open" /\ \A u \in Threads : ~Closing(u, h)

\* What the library was told about the object of a wrapper.  It is deleted
\* before the handle is cleared, by a call that will clear it.
ObjectInv ==
  \A h \in Handles :
    /\ maker[h] = "null" \/ wrapper[h] = "none" => native[h] = "none" /\ deletions[h] = 0
    /\ maker[h] = "dll" /\ wrapper[h] # "none" => native[h] \in {"live", "deleted"}
    /\ native[h] # "deleted" => deletions[h] = 0
    /\ h \notin closedBeside => deletions[h] <= 1
    /\ native[h] = "deleted" /\ wrapper[h] = "open" =>
         \E t \in Threads : arg[t] = h /\ pc[t] = "clear"
    /\ wrapper[h] = "cleared" => native[h] # "live"

\* Calls are about wrappers that were made; the native call is done when the
\* handle is about to be cleared.
CallInv ==
  \A t \in Threads :
    /\ pc[t] # "idle" => wrapper[arg[t]] # "none"
    /\ pc[t] = "clear" => native[arg[t]] # "live"

CloseInv ==
  TypeOK /\ CloserInv /\ UserInv /\ ObjectInv /\ CallInv /\ misused \subseteq usedBeside

LEMMA CloseInit == Init => CloseInv
  BY NoHandleAssumption
     DEF Init, CloseInv, TypeOK, CloserInv, UserInv, ObjectInv, CallInv, Closing, Using

\* A thread that goes on with its call or returns: no other call begins.
LEMMA Proceeds ==
  ASSUME CloseInv, NEW t \in Threads, pc[t] # "idle",
         NEW step \in {"idle", "read", "delete", "clear"},
         pc' = [pc EXCEPT ![t] = step],
         IF step = "idle" THEN arg' = [arg EXCEPT ![t] = NoHandle]
                          ELSE UNCHANGED arg /\ pc[t] # "use",
         UNCHANGED besides
  PROVE  /\ \A u \in Threads, h \in Handles : Closing(u, h)' => Closing(u, h)
         /\ \A u \in Threads, h \in Handles : Using(u, h)' => Using(u, h)
         /\ UNCHANGED wrapper => CloserInv' /\ UserInv'
  <1> USE NoHandleAssumption
  <1>1. /\ \A u \in Threads, h \in Handles : Closing(u, h)' => Closing(u, h)
        /\ \A u \in Threads, h \in Handles : Using(u, h)' => Using(u, h)
    BY DEF Closing, Using, CloseInv, TypeOK
  <1>2. ASSUME UNCHANGED wrapper PROVE CloserInv' /\ UserInv'
    BY <1>1, <1>2 DEF CloserInv, UserInv, CloseInv, besides
  <1> QED BY <1>1, <1>2

LEMMA DeleteStep ==
  ASSUME CloseInv, NEW t \in Threads, NativeDelete(t), TypeOK'
  PROVE  CloseInv'
  <1> DEFINE h == arg[t]
  <1> USE NoHandleAssumption DEF besides
  <1>1. /\ h \in Handles /\ Closing(t, h) /\ pc[t] = "delete"
        /\ pc' = [pc EXCEPT ![t] = "clear"]
        /\ UNCHANGED <<iface, sessions, wrapper, maker, held, misused, arg, besides>>
    BY DEF NativeDelete, Goto, CloseInv, TypeOK, Closing
  <1>2. CloserInv' /\ UserInv'
    BY <1>1, Proceeds
  <1>3. wrapper[h] # "none"
    BY <1>1 DEF CloseInv, CallInv
  <1>4. h \notin closedBeside => native[h] # "deleted"
    BY <1>1 DEF CloseInv, CloserInv, ObjectInv, Closing
  <1>5. /\ \A g \in Handles \ {h} : native'[g] = native[g] /\ deletions'[g] = deletions[g]
        /\ maker[h] = "dll" => native'[h] = "deleted" /\ deletions'[h] = deletions[h] + 1
        /\ maker[h] = "null" => native'[h] = "none" /\ deletions'[h] = 0
    BY <1>1, <1>3 DEF NativeDelete, ClosedThrough, CloseInv, TypeOK, ObjectInv
  <1>6. CallInv'
    BY <1>1, <1>5 DEF CloseInv, TypeOK, CallInv
  <1>7. ASSUME NEW g \in Handles, native'[g] = "deleted", wrapper[g] = "open"
        PROVE  \E u \in Threads : arg[u] = g /\ pc'[u] = "clear"
    BY <1>1, <1>5, <1>7 DEF CloseInv, TypeOK, ObjectInv
  <1>8. \A g \in Handles : g \notin closedBeside => deletions'[g] <= 1
    BY <1>1, <1>4, <1>5 DEF CloseInv, TypeOK, ObjectInv
  <1>9. ObjectInv'
    BY <1>1, <1>3, <1>5, <1>7, <1>8 DEF CloseInv, TypeOK, ObjectInv
  <1> QED BY <1>1, <1>2, <1>6, <1>9 DEF CloseInv

LEMMA ClearStep ==
  ASSUME CloseInv, NEW t \in Threads, Clear(t), TypeOK'
  PROVE  CloseInv'
  <1> DEFINE h == arg[t]
  <1> USE NoHandleAssumption DEF besides
  <1>1. /\ h \in Handles /\ Closing(t, h) /\ pc[t] = "clear" /\ native[h] # "live"
        /\ wrapper' = [wrapper EXCEPT ![h] = "cleared"]
        /\ pc' = [pc EXCEPT ![t] = "idle"] /\ arg' = [arg EXCEPT ![t] = NoHandle]
        /\ UNCHANGED <<iface, sessions, maker, held, native, deletions, misused, besides>>
    BY DEF Clear, Leave, CloseInv, TypeOK, CallInv, Closing
  <1>2. /\ \A u \in Threads, g \in Handles : Closing(u, g)' => Closing(u, g) /\ u # t
        /\ \A u \in Threads, g \in Handles : Using(u, g)' => Using(u, g)
    BY <1>1 DEF Closing, Using, CloseInv, TypeOK
  <1>3. CloserInv'
    BY <1>1, <1>2 DEF CloseInv, TypeOK, CloserInv
  <1>4. UserInv'
    BY <1>1, <1>2 DEF CloseInv, TypeOK, UserInv
  <1>5. wrapper[h] # "none"
    BY <1>1 DEF CloseInv, CallInv
  <1>6. CallInv'
    BY <1>1, <1>5 DEF CloseInv, TypeOK, CallInv
  <1>7. ASSUME NEW g \in Handles, native[g] = "deleted", wrapper'[g] = "open"
        PROVE  \E u \in Threads : arg'[u] = g /\ pc'[u] = "clear"
    <2>1. g # h /\ wrapper[g] = "open"
      BY <1>1, <1>7 DEF CloseInv, TypeOK
    <2>2. PICK u \in Threads : arg[u] = g /\ pc[u] = "clear"
      BY <1>7, <2>1 DEF CloseInv, ObjectInv
    <2>3. u # t
      BY <2>1, <2>2
    <2> QED BY <1>1, <2>2, <2>3 DEF CloseInv, TypeOK
  <1>8. ObjectInv'
    BY <1>1, <1>5, <1>7 DEF CloseInv, TypeOK, ObjectInv
  <1> QED BY <1>1, <1>3, <1>4, <1>6, <1>8 DEF CloseInv

LEMMA CreateStep ==
  ASSUME CloseInv, NEW t \in Threads, NEW h \in Handles, Create(t, h), TypeOK'
  PROVE  CloseInv'
  <1> USE DEF calls, besides
  <1>1. /\ wrapper[h] = "none" /\ wrapper' = [wrapper EXCEPT ![h] = "open"]
        /\ maker' = [maker EXCEPT ![h] = iface] /\ held' = held \cup {h}
        /\ native' = [native EXCEPT ![h] = IF iface = "dll" THEN "live" ELSE "none"]
        /\ UNCHANGED <<iface, sessions, deletions, misused, pc, arg, closedBeside, usedBeside>>
    BY DEF Create, MadeBy, NativeCreated
  <1>2. \A u \in Threads : ~Closing(u, h) /\ ~Using(u, h) /\ (pc[u] # "idle" => arg[u] # h)
    BY <1>1 DEF CloseInv, CallInv, Closing, Using
  <1>3. \A u \in Threads, g \in Handles :
          (Closing(u, g)' <=> Closing(u, g)) /\ (Using(u, g)' <=> Using(u, g))
    BY <1>1 DEF Closing, Using
  <1>4. CloserInv'
    BY <1>1, <1>2, <1>3 DEF CloseInv, TypeOK, CloserInv
  <1>5. UserInv'
    BY <1>1, <1>2, <1>3 DEF CloseInv, TypeOK, UserInv
  <1>6. CallInv'
    BY <1>1, <1>2 DEF CloseInv, TypeOK, CallInv
  <1>7. ObjectInv'
    BY <1>1 DEF CloseInv, TypeOK, ObjectInv
  <1> QED BY <1>1, <1>4, <1>5, <1>6, <1>7 DEF CloseInv

\* A call that begins, alone or noted in the history.
LEMMA BeginStep ==
  ASSUME CloseInv, TypeOK', NEW t \in Threads, NEW h \in Handles,
         NEW step \in {"read", "warn", "use"},
         pc[t] = "idle", wrapper[h] = "open",
         pc' = [pc EXCEPT ![t] = step], arg' = [arg EXCEPT ![t] = h],
         UNCHANGED <<iface, sessions, wrapper, maker, held, native, deletions, misused>>,
         closedBeside \subseteq closedBeside', usedBeside \subseteq usedBeside',
         step # "use" => h \in closedBeside' \/ \A u \in Threads : ~Closing(u, h),
         step # "use" => h \in usedBeside' \/ \A u \in Threads : ~Using(u, h),
         step = "use" => h \in usedBeside' \/ \A u \in Threads : ~Closing(u, h)
  PROVE  CloseInv'
  <1>1. ASSUME NEW u \in Threads, NEW g \in Handles
        PROVE  /\ Closing(u, g)' <=> Closing(u, g) \/ (u = t /\ g = h /\ step # "use")
               /\ Using(u, g)' <=> Using(u, g) \/ (u = t /\ g = h /\ step = "use")
    BY DEF Closing, Using, CloseInv, TypeOK
  <1>2. CloserInv'
    BY <1>1 DEF CloseInv, TypeOK, CloserInv
  <1>3. UserInv'
    BY <1>1 DEF CloseInv, TypeOK, UserInv
  <1>4. CallInv'
    BY DEF CloseInv, TypeOK, CallInv
  <1>5. ObjectInv'
    BY DEF CloseInv, TypeOK, ObjectInv
  <1> QED BY <1>2, <1>3, <1>4, <1>5 DEF CloseInv

LEMMA CloseStep == CloseInv /\ [Next]_vars => CloseInv'
  <1> SUFFICES ASSUME CloseInv, [Next]_vars PROVE CloseInv'
    OBVIOUS
  <1> USE DEF calls, besides
  <1>1. TypeOK'
    BY TypeStep DEF CloseInv
  <1>2. CASE Publish \/ Withdraw \/ UNCHANGED vars \/ \E h \in Handles : Drop(h)
    BY <1>1, <1>2
       DEF Publish, Withdraw, Drop, vars, CloseInv, CloserInv, UserInv, ObjectInv, CallInv,
           Closing, Using
  <1>3. ASSUME NEW t \in Threads, ReadHandle(t) \/ Warn(t) PROVE CloseInv'
    <2>1. PICK step \in {"idle", "read", "delete"} :
            /\ pc[t] \in {"read", "warn"} /\ pc' = [pc EXCEPT ![t] = step]
            /\ IF step = "idle" THEN arg' = [arg EXCEPT ![t] = NoHandle] ELSE UNCHANGED arg
            /\ UNCHANGED <<iface, sessions, wrapper, maker, held, native, deletions, misused,
                           closedBeside, usedBeside>>
      BY <1>3 DEF ReadHandle, Warn, AfterWarning, Goto, Leave
    <2>2. CloserInv' /\ UserInv'
      BY <2>1, Proceeds
    <2>3. CallInv'
      BY <2>1 DEF CloseInv, TypeOK, CallInv
    <2>4. ObjectInv'
      BY <2>1 DEF CloseInv, TypeOK, ObjectInv
    <2> QED BY <1>1, <2>1, <2>2, <2>3, <2>4 DEF CloseInv
  <1>4. ASSUME NEW t \in Threads, NativeUse(t) PROVE CloseInv'
    <2>1. /\ pc[t] = "use" /\ pc' = [pc EXCEPT ![t] = "idle"]
          /\ arg' = [arg EXCEPT ![t] = NoHandle] /\ arg[t] \in Handles
          /\ UNCHANGED <<iface, sessions, wrapper, maker, held, native, deletions,
                         closedBeside, usedBeside>>
      BY <1>4, NoHandleAssumption DEF NativeUse, Leave, CloseInv, TypeOK
    <2>2. native[arg[t]] = "deleted" => arg[t] \in usedBeside
      BY <2>1 DEF CloseInv, UserInv, ObjectInv, Using, Closing
    <2>3. CloserInv' /\ UserInv'
      BY <2>1, Proceeds
    <2>4. CallInv'
      BY <2>1 DEF CloseInv, TypeOK, CallInv
    <2>5. ObjectInv'
      BY <2>1 DEF CloseInv, TypeOK, ObjectInv
    <2>6. misused' \subseteq usedBeside
      BY <1>4, <2>2 DEF NativeUse, CloseInv
    <2> QED BY <1>1, <2>1, <2>3, <2>4, <2>5, <2>6 DEF CloseInv
  <1>5. ASSUME NEW t \in Threads, NEW h \in Handles, Close(t, h) PROVE CloseInv'
    BY <1>1, <1>5, BeginStep DEF Close, Enter, Noting
  <1>6. ASSUME NEW t \in Threads, NEW h \in Handles, Finalize(t, h) PROVE CloseInv'
    BY <1>1, <1>6, BeginStep DEF Finalize, Finalizable, KeptAlive, Enter, Closing, Using
  <1>7. ASSUME NEW t \in Threads, NEW h \in Handles, Use(t, h) PROVE CloseInv'
    BY <1>1, <1>7, BeginStep DEF Use, Enter, Noting
  <1> QED
    BY <1>1, <1>2, <1>3, <1>4, <1>5, <1>6, <1>7, DeleteStep, ClearStep, CreateStep
       DEF Next, Run

LEMMA CloseCorrect == Spec => []CloseInv
  BY CloseInit, CloseStep, PTL DEF Spec

\* The library is told once to delete an object, however close, with blocks and
\* __del__ follow on each other: only calls of close at the same time, never
\* __del__ beside one, can make it two.
THEOREM DeletesOnce == Spec => []DeletedOnce
  <1>1. CloseInv => DeletedOnce
    BY DEF CloseInv, ObjectInv, DeletedOnce
  <1> QED BY <1>1, CloseCorrect, PTL

\* Whatever sessions begin and end and whoever closes it, a wrapper is closed
\* through its maker.
THEOREM ClosesThroughMaker == Spec => []ClosedByMaker
  <1>1. CloseInv => ClosedByMaker
    BY DEF CloseInv, ObjectInv, ClosedByMaker
  <1> QED BY <1>1, CloseCorrect, PTL

\* Factories hand on live objects, although the application may drop a wrapper
\* in the middle of a call and __del__ is due; only a close at the same time
\* can come between.
THEOREM UsesLive == Spec => []UsedIsLive
  <1>1. CloseInv => UsedIsLive
    BY DEF CloseInv, UsedIsLive
  <1> QED BY <1>1, CloseCorrect, PTL
=============================================================================
