------------------------ MODULE FinishedPathsProofs ------------------------
(***************************************************************************)
(* Theorems about what the threads leave in finished_paths: a path is      *)
(* recorded when it is complete, and does not change from then on.         *)
(*                                                                         *)
(* RootOf and InFinished are recursive along parent.  That parent has no   *)
(* cycle is an invariant, so it takes the place of an induction principle: *)
(* a set without an element whose parent is outside it is empty.  That the *)
(* equation of RootOf has a solution is part of the invariant too: it has  *)
(* one initially, and each start gives one for the larger forest.          *)
(***************************************************************************)
EXTENDS TracerPathProofs

-----------------------------------------------------------------------------
(* Forests                                                                  *)

Acyclic(p) == \A S \in SUBSET Tracers : S # {} => \E x \in S : p[x] \notin S

IsRootMap(p, f) == f = [x \in Tracers |-> IF p[x] = NoTracer THEN x ELSE f[p[x]]]

IsFinishedMap(p, F, g) ==
  g = [x \in Tracers |-> x \in F \/ (p[x] # NoTracer /\ g[p[x]])]

\* A forest has one map to the roots only.
LEMMA RootMapUnique ==
  ASSUME NEW p \in [Tracers -> Tracers \cup {NoTracer}], Acyclic(p),
         NEW f, IsRootMap(p, f), NEW g, IsRootMap(p, g)
  PROVE  f = g
  <1> DEFINE S == {x \in Tracers : f[x] # g[x]}
  <1>1. \A x \in Tracers : /\ f[x] = IF p[x] = NoTracer THEN x ELSE f[p[x]]
                           /\ g[x] = IF p[x] = NoTracer THEN x ELSE g[p[x]]
    BY DEF IsRootMap
  <1>2. ASSUME S # {} PROVE FALSE
    <2>1. PICK x \in S : p[x] \notin S
      BY <1>2 DEF Acyclic
    <2>2. p[x] # NoTracer => f[p[x]] = g[p[x]]
      BY <2>1
    <2> QED BY <1>1, <2>1, <2>2
  <1>3. \A x \in Tracers : f[x] = g[x]
    BY <1>2
  <1>4. f = [x \in Tracers |-> f[x]] /\ g = [x \in Tracers |-> g[x]]
    BY DEF IsRootMap
  <1> QED BY <1>3, <1>4

\* The same for membership in the trees of a set of tracers.
LEMMA FinishedMapUnique ==
  ASSUME NEW p \in [Tracers -> Tracers \cup {NoTracer}], Acyclic(p), NEW F,
         NEW f, IsFinishedMap(p, F, f), NEW g, IsFinishedMap(p, F, g)
  PROVE  f = g
  <1> DEFINE S == {x \in Tracers : f[x] # g[x]}
  <1>1. \A x \in Tracers : /\ f[x] = (x \in F \/ (p[x] # NoTracer /\ f[p[x]]))
                           /\ g[x] = (x \in F \/ (p[x] # NoTracer /\ g[p[x]]))
    BY DEF IsFinishedMap
  <1>2. ASSUME S # {} PROVE FALSE
    <2>1. PICK x \in S : p[x] \notin S
      BY <1>2 DEF Acyclic
    <2>2. p[x] # NoTracer => f[p[x]] = g[p[x]]
      BY <2>1
    <2> QED BY <1>1, <2>1, <2>2
  <1>3. \A x \in Tracers : f[x] = g[x]
    BY <1>2
  <1>4. f = [x \in Tracers |-> f[x]] /\ g = [x \in Tracers |-> g[x]]
    BY DEF IsFinishedMap
  <1> QED BY <1>3, <1>4

\* The root of a tracer is a tracer without parent, in every set that has the
\* parents of its elements.
LEMMA RootsAreRoots ==
  ASSUME NEW p \in [Tracers -> Tracers \cup {NoTracer}], Acyclic(p),
         NEW f, IsRootMap(p, f), NEW B \in SUBSET Tracers,
         \A x \in B : p[x] # NoTracer => p[x] \in B
  PROVE  \A x \in B : f[x] \in B /\ p[f[x]] = NoTracer
  <1> DEFINE S == {x \in B : ~(f[x] \in B /\ p[f[x]] = NoTracer)}
  <1>1. \A x \in Tracers : f[x] = IF p[x] = NoTracer THEN x ELSE f[p[x]]
    BY DEF IsRootMap
  <1>2. ASSUME S # {} PROVE FALSE
    <2>1. PICK x \in S : p[x] \notin S
      BY <1>2 DEF Acyclic
    <2>2. CASE p[x] = NoTracer
      BY <1>1, <2>1, <2>2
    <2>3. CASE p[x] # NoTracer
      <3>1. p[x] \in B
        BY <2>1, <2>3
      <3>2. f[p[x]] \in B /\ p[f[p[x]]] = NoTracer
        BY <2>1, <3>1
      <3> QED BY <1>1, <2>1, <2>3, <3>2
    <2> QED BY <2>2, <2>3
  <1> QED BY <1>2

\* A tracer is in the tree of a root of the set if and only if its root is in
\* the set.
LEMMA FinishedByRoot ==
  ASSUME NEW p \in [Tracers -> Tracers \cup {NoTracer}], NEW F \in SUBSET Tracers,
         \A x \in F : p[x] = NoTracer,
         NEW f, IsRootMap(p, f)
  PROVE  IsFinishedMap(p, F, [x \in Tracers |-> f[x] \in F])
  <1> DEFINE g == [x \in Tracers |-> f[x] \in F]
  <1> SUFFICES ASSUME NEW x \in Tracers
               PROVE  (f[x] \in F) = (x \in F \/ (p[x] # NoTracer /\ g[p[x]]))
    BY Zenon DEF IsFinishedMap
  <1>1. f[x] = IF p[x] = NoTracer THEN x ELSE f[p[x]]
    BY DEF IsRootMap
  <1>2. CASE p[x] = NoTracer
    BY <1>1, <1>2
  <1>3. CASE p[x] # NoTracer
    <2>1. p[x] \in Tracers /\ x \notin F
      BY <1>3
    <2>2. g[p[x]] = (f[x] \in F)
      BY <1>1, <1>3, <2>1
    <2>3. (f[x] \in F) = (x \in F \/ (p[x] # NoTracer /\ f[x] \in F))
      BY <1>3, <2>1
    <2> HIDE DEF g
    <2> QED BY <2>2, <2>3, Zenon
  <1> QED BY <1>2, <1>3

\* A definition by recursion has its equation, if the equation has a solution.
LEMMA RootEquation ==
  ASSUME \E f : IsRootMap(parent, f)
  PROVE  IsRootMap(parent, RootOf)
  BY DEF IsRootMap, RootOf

LEMMA NextRootEquation ==
  ASSUME \E f : IsRootMap(parent', f)
  PROVE  IsRootMap(parent', RootOf')
  BY DEF IsRootMap, RootOf

LEMMA FinishedEquation ==
  ASSUME \E g : IsFinishedMap(parent, finished, g)
  PROVE  IsFinishedMap(parent, finished, InFinished)
  BY DEF IsFinishedMap, InFinished

-----------------------------------------------------------------------------
(* The invariant                                                            *)

RootsDefined == IsRootMap(parent, RootOf)

\* All tracers on a stack are in the tree of the first one.
StackRoots ==
  \A t \in Threads : \A i \in 1..Len(stack[t]) : RootOf[stack[t][i]] = stack[t][1]

\* A tracer that was never on a path has no parent.
UnbegunIsAlone == \A x \in Tracers : x \notin began => parent[x] = NoTracer

\* Only roots are recorded, and each of them when it has left its stack.
FinishedAreRoots == \A x \in finished : x \in began /\ parent[x] = NoTracer
PoppedIsRecorded ==
  \A x \in began : parent[x] = NoTracer => (x \in finished <=> ~OnStack(x))

\* A tracer that has left its stack is forgotten by its Tracer.
PoppedIsReleased == \A x \in began : ~OnStack(x) => handle[x] = "cleared"

RecordInv ==
  /\ RootsDefined /\ StackRoots /\ UnbegunIsAlone
  /\ FinishedAreRoots /\ PoppedIsRecorded /\ PoppedIsReleased

PathInv == CausalInv /\ RecordInv

LEMMA RecordInit == Init => PathInv
  <1> SUFFICES ASSUME Init PROVE RecordInv
    BY CausalInit DEF PathInv
  <1>1. IsRootMap(parent, [x \in Tracers |-> x])
    BY DEF Init, IsRootMap
  <1>2. RootsDefined
    BY <1>1, RootEquation DEF RootsDefined
  <1>3. StackRoots
    <2>1. \A t \in Threads : Len(stack[t]) = 0
      BY DEF Init
    <2> QED BY <2>1 DEF StackRoots
  <1> QED BY <1>2, <1>3 DEF Init, RecordInv, UnbegunIsAlone, FinishedAreRoots,
                            PoppedIsRecorded, PoppedIsReleased

\* The forest does not change when the parents do not.
LEMMA SameRoots ==
  ASSUME RootsDefined, parent' = parent
  PROVE  RootsDefined' /\ RootOf' = RootOf
  <1>1. RootOf' = RootOf
    BY DEF RootOf
  <1> QED BY <1>1 DEF RootsDefined

\* What the parents of a larger forest are, when a tracer is started.
LEMMA RootsOfStart ==
  ASSUME PathInv, CausalInv', NEW t \in Threads, NEW x \in Tracers, Start(t, x)
  PROVE  /\ RootsDefined'
         /\ \A y \in Tracers : y # x => RootOf'[y] = RootOf[y]
         /\ RootOf'[x] = IF Top(t) = NoTracer THEN x ELSE RootOf[Top(t)]
  <1> USE DEF PathInv, CausalInv, HandleInv, StackInv, TypeInv, TypeOK
  <1> DEFINE f == [y \in Tracers |->
                     IF y = x THEN IF Top(t) = NoTracer THEN x ELSE RootOf[Top(t)]
                              ELSE RootOf[y]]
  <1>1. parent' = [parent EXCEPT ![x] = Top(t)] /\ x \notin began
    BY DEF Start, NewParent, BegunInv
  <1>2. Top(t) \in Tracers \cup {NoTracer} /\ (Top(t) # NoTracer => Top(t) \in began)
    BY TopFacts DEF ActiveChain
  <1>3. \A y \in Tracers : parent[y] # x /\ Top(t) # x
    BY <1>1, <1>2, NoTracerAssumption DEF BegunInv
  <1>4. \A y \in Tracers : RootOf[y] = IF parent[y] = NoTracer THEN y ELSE RootOf[parent[y]]
    BY DEF RecordInv, RootsDefined, IsRootMap
  <1>5. \A y \in Tracers : f[y] = IF parent'[y] = NoTracer THEN y ELSE f[parent'[y]]
    <2> TAKE y \in Tracers
    <2>1. CASE y = x
      <3>1. parent'[y] = Top(t)
        BY <1>1, <2>1
      <3>2. Top(t) # NoTracer => f[Top(t)] = RootOf[Top(t)]
        BY <1>2, <1>3
      <3> QED BY <2>1, <3>1, <3>2
    <2>2. CASE y # x
      <3>1. parent'[y] = parent[y]
        BY <1>1, <2>2
      <3>2. parent[y] # NoTracer => f[parent[y]] = RootOf[parent[y]]
        BY <1>3
      <3> QED BY <1>4, <2>2, <3>1, <3>2
    <2> QED BY <2>1, <2>2
  <1>6. IsRootMap(parent', f)
    BY <1>5, Zenon DEF IsRootMap
  <1>7. IsRootMap(parent', RootOf')
    BY <1>6, NextRootEquation
  <1>8. parent' \in [Tracers -> Tracers \cup {NoTracer}] /\ Acyclic(parent')
    BY DEF CausalOrder, Acyclic
  <1>9. RootOf' = f
    <2> HIDE DEF f
    <2> QED BY <1>6, <1>7, <1>8, RootMapUnique
  <1> QED BY <1>7, <1>9 DEF RootsDefined

\* The stack of a thread when a tracer is started, and when one is popped.
LEMMA PushedStack ==
  ASSUME StackInv, NEW t \in Threads, NEW x \in Tracers, Start(t, x)
  PROVE  /\ Len(stack[t]) \in Nat
         /\ Len(stack'[t]) = Len(stack[t]) + 1
         /\ \A i \in 1..Len(stack[t]) : stack'[t][i] = stack[t][i]
         /\ stack'[t][Len(stack[t]) + 1] = x
         /\ \A u \in Threads : u # t => stack'[u] = stack[u]
  <1> USE DEF StackInv, TypeInv, TypeOK
  <1>1. stack' = [stack EXCEPT ![t] = Append(stack[t], x)]
    BY DEF Start
  <1> QED BY <1>1, PushFacts

LEMMA PoppedStack ==
  ASSUME StackInv, NEW t \in Threads, NEW x \in Tracers, TracerEnd(t, x), Ends(t, x)
  PROVE  /\ Len(stack[t]) \in Nat \ {0}
         /\ stack[t][Len(stack[t])] = x
         /\ Len(stack'[t]) = Len(stack[t]) - 1
         /\ \A i \in 1..(Len(stack[t]) - 1) : stack'[t][i] = stack[t][i]
         /\ \A u \in Threads : u # t => stack'[u] = stack[u]
  <1> USE DEF StackInv, TypeInv, TypeOK
  <1> DEFINE s == stack[t]
  <1>1. s \in Seq(Tracers) /\ s # <<>> /\ s[Len(s)] = x
    <2>1. Top(t) = x
      BY DEF Ends
    <2> QED BY <2>1, TopFacts, NoTracerAssumption
  <1>2. stack' = [stack EXCEPT ![t] = Pop(s)]
    BY DEF TracerEnd, NativeEnd
  <1>3. stack'[t] = Pop(s) /\ \A u \in Threads : u # t => stack'[u] = stack[u]
    BY <1>2
  <1>4. /\ Len(s) \in Nat \ {0}
        /\ Len(Pop(s)) = Len(s) - 1
        /\ \A i \in 1..(Len(s) - 1) : Pop(s)[i] = s[i]
    <2> HIDE DEF s
    <2> QED BY <1>1, PopFacts
  <1> HIDE DEF s
  <1>5. stack[t] = s
    BY DEF s
  <1> QED BY <1>1, <1>3, <1>4, <1>5

\* What that does to the set of tracers on a stack.
LEMMA OnStackAfterStart ==
  ASSUME StackInv, NEW t \in Threads, NEW x \in Tracers, Start(t, x), NEW y
  PROVE  OnStack(y)' <=> OnStack(y) \/ y = x
  <1> DEFINE n == Len(stack[t])
  <1>1. /\ n \in Nat /\ Len(stack'[t]) = n + 1
        /\ \A i \in 1..n : stack'[t][i] = stack[t][i]
        /\ stack'[t][n + 1] = x
        /\ \A u \in Threads : u # t => stack'[u] = stack[u]
    BY PushedStack
  <1>2. ASSUME OnStack(y) PROVE OnStack(y)'
    <2>0. PICK u \in Threads : \E i \in 1..Len(stack[u]) : stack[u][i] = y
      BY <1>2 DEF OnStack
    <2>1. PICK i \in 1..Len(stack[u]) : stack[u][i] = y
      BY <2>0
    <2>2. i \in 1..Len(stack'[u]) /\ stack'[u][i] = y
      BY <1>1, <2>1
    <2> QED BY <2>2 DEF OnStack
  <1>3. OnStack(x)'
    <2>1. n + 1 \in 1..Len(stack'[t])
      BY <1>1
    <2> QED BY <1>1, <2>1 DEF OnStack
  <1>4. ASSUME OnStack(y)', y # x PROVE OnStack(y)
    <2>0. PICK u \in Threads : \E i \in 1..Len(stack'[u]) : stack'[u][i] = y
      BY <1>4 DEF OnStack
    <2>1. PICK i \in 1..Len(stack'[u]) : stack'[u][i] = y
      BY <2>0
    <2>2. i \in 1..Len(stack[u]) /\ stack[u][i] = y
      <3>1. CASE u = t
        <4>1. i \in 1..n
          BY <1>1, <1>4, <2>1, <3>1
        <4> QED BY <1>1, <2>1, <3>1, <4>1
      <3>2. CASE u # t
        BY <1>1, <2>1, <3>2
      <3> QED BY <3>1, <3>2
    <2> QED BY <2>2 DEF OnStack
  <1> QED BY <1>2, <1>3, <1>4

LEMMA OnStackAfterEnd ==
  ASSUME StackInv, NEW t \in Threads, NEW x \in Tracers, TracerEnd(t, x), Ends(t, x), NEW y
  PROVE  OnStack(y)' <=> OnStack(y) /\ y # x
  <1> DEFINE n == Len(stack[t])
  <1>1. /\ n \in Nat \ {0} /\ stack[t][n] = x /\ Len(stack'[t]) = n - 1
        /\ \A i \in 1..(n - 1) : stack'[t][i] = stack[t][i]
        /\ \A u \in Threads : u # t => stack'[u] = stack[u]
    BY PoppedStack
  <1>2. owner[x] = t
    BY DEF TracerEnd, OnOwnThread
  <1>3. ASSUME OnStack(y), y # x PROVE OnStack(y)'
    <2>0. PICK u \in Threads : \E i \in 1..Len(stack[u]) : stack[u][i] = y
      BY <1>3 DEF OnStack
    <2>1. PICK i \in 1..Len(stack[u]) : stack[u][i] = y
      BY <2>0
    <2>2. i \in 1..Len(stack'[u]) /\ stack'[u][i] = y
      <3>1. CASE u = t
        <4>1. i \in 1..(n - 1)
          BY <1>1, <1>3, <2>1, <3>1
        <4> QED BY <1>1, <2>1, <3>1, <4>1
      <3>2. CASE u # t
        BY <1>1, <2>1, <3>2
      <3> QED BY <3>1, <3>2
    <2> QED BY <2>2 DEF OnStack
  <1>4. ASSUME OnStack(y)' PROVE OnStack(y) /\ y # x
    <2>0. PICK u \in Threads : \E i \in 1..Len(stack'[u]) : stack'[u][i] = y
      BY <1>4 DEF OnStack
    <2>1. PICK i \in 1..Len(stack'[u]) : stack'[u][i] = y
      BY <2>0
    <2>2. i \in 1..Len(stack[u]) /\ stack[u][i] = y
      BY <1>1, <2>1
    <2>3. y # x
      <3>1. CASE u = t
        <4>1. i \in 1..n /\ n \in 1..n /\ i # n
          BY <1>1, <2>1, <3>1
        <4> QED BY <1>1, <2>2, <3>1, <4>1 DEF StackInv, NoRepeats
      <3>2. CASE u # t
        BY <1>2, <2>2, <3>2 DEF StackInv, ActiveChain
      <3> QED BY <3>1, <3>2
    <2> QED BY <2>2, <2>3 DEF OnStack
  <1> QED BY <1>3, <1>4

\* A step that leaves the paths alone keeps the invariant, if it gives no handle
\* back to a tracer that was on a path.
LEMMA SamePaths ==
  ASSUME PathInv, UNCHANGED <<stack, parent, began, finished>>,
         \A x \in began : handle[x] = "cleared" => handle'[x] = "cleared"
  PROVE  RecordInv'
  <1> USE DEF PathInv, RecordInv
  <1>1. RootsDefined' /\ RootOf' = RootOf
    BY SameRoots
  <1>2. \A x : OnStack(x)' <=> OnStack(x)
    BY DEF OnStack
  <1> QED BY <1>1, <1>2 DEF StackRoots, UnbegunIsAlone, FinishedAreRoots, PoppedIsRecorded,
                            PoppedIsReleased

LEMMA RecordStart ==
  ASSUME PathInv, CausalInv', NEW t \in Threads, NEW x \in Tracers, Start(t, x)
  PROVE  RecordInv'
  <1> DEFINE n == Len(stack[t])
  <1>0. StackInv /\ TypeOK
    BY DEF PathInv, CausalInv, HandleInv, StackInv, TypeInv
  <1>1. /\ n \in Nat /\ Len(stack'[t]) = n + 1
        /\ \A i \in 1..n : stack'[t][i] = stack[t][i]
        /\ stack'[t][n + 1] = x
        /\ \A u \in Threads : u # t => stack'[u] = stack[u]
    BY <1>0, PushedStack
  <1>2. /\ x \notin began /\ began' = began \cup {x} /\ began \subseteq Tracers
        /\ parent' = [parent EXCEPT ![x] = Top(t)]
        /\ UNCHANGED <<handle, finished>>
    BY <1>0 DEF Start, NewParent, StackInv, BegunInv, TypeOK
  <1>3. /\ RootsDefined'
        /\ \A y \in Tracers : y # x => RootOf'[y] = RootOf[y]
        /\ RootOf'[x] = IF Top(t) = NoTracer THEN x ELSE RootOf[Top(t)]
    BY RootsOfStart
  <1>4. \A u \in Threads : \A i \in 1..Len(stack[u]) :
          /\ stack[u][i] \in Tracers /\ stack[u][i] # x
          /\ RootOf[stack[u][i]] = stack[u][1]
    BY <1>0, <1>2 DEF StackInv, ActiveChain, PathInv, RecordInv, StackRoots
  <1>5. StackRoots'
    <2> SUFFICES ASSUME NEW u \in Threads, NEW i \in 1..Len(stack'[u])
                 PROVE  RootOf'[stack'[u][i]] = stack'[u][1]
      BY DEF StackRoots
    <2>1. CASE u # t
      BY <1>1, <1>3, <1>4, <2>1
    <2>2. CASE u = t /\ i \in 1..n
      <3>1. 1 \in 1..n
        BY <1>1, <2>2
      <3> QED BY <1>1, <1>3, <1>4, <2>2, <3>1
    <2>3. CASE u = t /\ i = n + 1 /\ n = 0
      <3>1. Top(t) = NoTracer
        BY <1>0, <2>3, TopFacts
      <3> QED BY <1>1, <1>3, <2>3, <3>1
    <2>4. CASE u = t /\ i = n + 1 /\ n # 0
      <3>1. Top(t) = stack[t][n] /\ Top(t) # NoTracer
        BY <1>0, <2>4, TopFacts
      <3>2. n \in 1..n /\ 1 \in 1..n
        BY <1>1, <2>4
      <3>3. RootOf[Top(t)] = stack[t][1] /\ stack'[t][1] = stack[t][1]
        BY <1>1, <1>4, <3>1, <3>2
      <3> QED BY <1>1, <1>3, <2>4, <3>1, <3>3
    <2> QED BY <1>1, <2>1, <2>2, <2>3, <2>4
  <1>6. \A y : OnStack(y)' <=> OnStack(y) \/ y = x
    BY <1>0, OnStackAfterStart
  <1>7. \A y \in began : y # x /\ parent'[y] = parent[y]
    BY <1>0, <1>2 DEF TypeOK
  <1>8. FinishedAreRoots'
    BY <1>2, <1>7 DEF FinishedAreRoots, PathInv, RecordInv
  <1>9. PoppedIsRecorded'
    <2>1. x \notin finished
      BY <1>2 DEF FinishedAreRoots, PathInv, RecordInv
    <2> QED BY <1>2, <1>6, <1>7, <2>1 DEF PoppedIsRecorded, PathInv, RecordInv
  <1>10. PoppedIsReleased'
    BY <1>2, <1>6 DEF PoppedIsReleased, PathInv, RecordInv
  <1>11. UnbegunIsAlone'
    BY <1>0, <1>2 DEF UnbegunIsAlone, PathInv, RecordInv, TypeOK
  <1> QED BY <1>3, <1>5, <1>8, <1>9, <1>10, <1>11 DEF RecordInv

LEMMA RecordEnd ==
  ASSUME PathInv, NEW t \in Threads, NEW x \in Tracers, TracerEnd(t, x)
  PROVE  RecordInv'
  <1> DEFINE n == Len(stack[t])
  <1>0. StackInv /\ TypeOK
    BY DEF PathInv, CausalInv, HandleInv, StackInv, TypeInv
  <1>1. UNCHANGED <<parent, began>> /\ began \subseteq Tracers
    BY <1>0 DEF TracerEnd, TypeOK
  <1>2. \A y \in Tracers : handle[y] = "cleared" => handle'[y] = "cleared"
    BY <1>0 DEF TracerEnd, OnOwnThread, TypeOK
  <1>3. CASE ~Ends(t, x)
    <2>1. UNCHANGED <<stack, finished>>
      BY <1>3 DEF TracerEnd, NativeEnd
    <2> QED BY <1>1, <1>2, <2>1, SamePaths
  <1>4. CASE Ends(t, x)
    <2>1. /\ n \in Nat \ {0} /\ stack[t][n] = x /\ Len(stack'[t]) = n - 1
          /\ \A i \in 1..(n - 1) : stack'[t][i] = stack[t][i]
          /\ \A u \in Threads : u # t => stack'[u] = stack[u]
      BY <1>0, <1>4, PoppedStack
    <2>2. finished' = IF n = 1 THEN finished \cup {x} ELSE finished
      BY <1>4 DEF TracerEnd, NativeEnd, FinishedBy
    <2>3. handle'[x] = "cleared"
      BY <1>0, <1>4 DEF TracerEnd, EndSucceeds, TypeOK
    <2>4. \A y : OnStack(y)' <=> OnStack(y) /\ y # x
      BY <1>0, <1>4, OnStackAfterEnd
    <2>5. x \in began /\ (parent[x] = NoTracer <=> n = 1)
      <3>1. n \in 1..n
        BY <2>1
      <3>2. x \in began /\ parent[x] = IF n = 1 THEN NoTracer ELSE stack[t][n - 1]
        BY <1>0, <2>1, <3>1 DEF StackInv, ActiveChain
      <3>3. n # 1 => n - 1 \in 1..n
        <4>1. n \in Nat \ {0}
          BY <2>1
        <4> HIDE DEF n
        <4> QED BY <4>1
      <3>4. n # 1 => stack[t][n - 1] \in Tracers
        BY <1>0, <3>3 DEF TypeOK
      <3> QED BY <3>2, <3>4, NoTracerAssumption
    <2>6. RootsDefined' /\ RootOf' = RootOf
      BY <1>1, SameRoots DEF PathInv, RecordInv
    <2>7. StackRoots'
      <3> SUFFICES ASSUME NEW u \in Threads, NEW i \in 1..Len(stack'[u])
                   PROVE  RootOf[stack'[u][i]] = stack'[u][1]
        BY <2>6 DEF StackRoots
      <3>1. CASE u # t
        BY <2>1, <3>1 DEF PathInv, RecordInv, StackRoots
      <3>2. CASE u = t
        <4>1. i \in 1..(n - 1) /\ 1 \in 1..(n - 1) /\ i \in 1..n
          BY <2>1, <3>2
        <4>2. stack'[t][i] = stack[t][i] /\ stack'[t][1] = stack[t][1]
          BY <2>1, <4>1
        <4>3. RootOf[stack[t][i]] = stack[t][1]
          BY <4>1 DEF PathInv, RecordInv, StackRoots
        <4> QED BY <3>2, <4>2, <4>3
      <3> QED BY <3>1, <3>2
    <2>8. FinishedAreRoots' /\ PoppedIsRecorded' /\ PoppedIsReleased'
      BY <1>1, <1>2, <2>2, <2>3, <2>4, <2>5
         DEF FinishedAreRoots, PoppedIsRecorded, PoppedIsReleased, PathInv, RecordInv
    <2>9. UnbegunIsAlone'
      BY <1>1 DEF UnbegunIsAlone, PathInv, RecordInv
    <2> QED BY <2>6, <2>7, <2>8, <2>9 DEF RecordInv
  <1> QED BY <1>3, <1>4

LEMMA RecordStep == PathInv /\ [Next]_vars => PathInv'
  <1> SUFFICES ASSUME PathInv, [Next]_vars PROVE RecordInv'
    BY CausalStep DEF PathInv
  <1>0. CausalInv'
    BY CausalStep DEF PathInv
  <1>1. \A x \in began : x \in Tracers /\ handle[x] # "none"
    BY DEF PathInv, CausalInv, HandleInv, StackInv, TypeInv, TypeOK, MarkInv, BegunInv
  <1>2. handle \in [Tracers -> {"none", "held", "cleared", "lost"}]
    BY DEF PathInv, CausalInv, HandleInv, StackInv, TypeInv, TypeOK
  <1>3. ASSUME NEW t \in Threads, NEW x \in Tracers, Create(t, x) PROVE RecordInv'
    BY <1>1, <1>2, <1>3, SamePaths DEF Create
  <1>4. ASSUME NEW t \in Threads, NEW x \in Tracers, FactoryFails(t, x) PROVE RecordInv'
    BY <1>1, <1>2, <1>4, SamePaths DEF FactoryFails
  <1>5. ASSUME NEW t \in Threads, NEW x \in Tracers, Start(t, x) PROVE RecordInv'
    BY <1>0, <1>5, RecordStart
  <1>6. ASSUME NEW t \in Threads, NEW x \in Tracers, End(t, x) \/ ExitWithException(t, x)
        PROVE  RecordInv'
    BY <1>6, RecordEnd DEF End, ExitWithException
  <1>7. ASSUME NEW t \in Threads, NEW x \in Tracers, MarkFailed(t, x) PROVE RecordInv'
    BY <1>7, SamePaths DEF MarkFailed
  <1>8. ASSUME NEW t \in Threads, GetTag(t) \/ AddAttribute(t) PROVE RecordInv'
    BY <1>8, SamePaths DEF GetTag, AddAttribute
  <1>9. CASE LinkTags \/ UNCHANGED vars
    BY <1>9, SamePaths DEF LinkTags, vars
  <1> QED BY <1>3, <1>4, <1>5, <1>6, <1>7, <1>8, <1>9 DEF Next

-----------------------------------------------------------------------------
(* What is recorded                                                         *)

\* The parents form a forest.
LEMMA Forest ==
  ASSUME PathInv
  PROVE  /\ parent \in [Tracers -> Tracers \cup {NoTracer}] /\ Acyclic(parent)
         /\ finished \in SUBSET Tracers /\ began \in SUBSET Tracers
         /\ \A x \in Tracers : parent[x] # NoTracer => parent[x] \in began
  BY DEF PathInv, CausalInv, HandleInv, StackInv, TypeInv, TypeOK, BegunInv, CausalOrder,
         Acyclic

\* A tracer is recorded if and only if its root is, and only after it began.
LEMMA RecordedByRoot ==
  ASSUME PathInv, NEW x \in Tracers
  PROVE  /\ InFinished[x] <=> RootOf[x] \in finished
         /\ InFinished[x] => x \in began
  <1> DEFINE g == [y \in Tracers |-> RootOf[y] \in finished]
  <1>1. IsRootMap(parent, RootOf) /\ \A y \in finished : y \in began /\ parent[y] = NoTracer
    BY DEF PathInv, RecordInv, RootsDefined, FinishedAreRoots
  <1>2. IsFinishedMap(parent, finished, g)
    BY <1>1, Forest, FinishedByRoot
  <1>3. InFinished = g
    <2>1. IsFinishedMap(parent, finished, InFinished)
      BY <1>2, FinishedEquation
    <2> HIDE DEF g
    <2> QED BY <1>2, <2>1, Forest, FinishedMapUnique
  <1>4. InFinished[x] <=> RootOf[x] \in finished
    BY <1>3
  <1>5. RootOf[x] \in finished => x \in began
    <2>1. RootOf[x] = IF parent[x] = NoTracer THEN x ELSE RootOf[parent[x]]
      BY <1>1 DEF IsRootMap
    <2>2. ASSUME x \notin began, RootOf[x] \in finished PROVE FALSE
      <3>1. parent[x] = NoTracer
        BY <2>2 DEF PathInv, RecordInv, UnbegunIsAlone
      <3> QED BY <1>1, <2>1, <2>2, <3>1
    <2> QED BY <2>2
  <1> QED BY <1>4, <1>5

\* A tracer on a stack has its root on that stack.
LEMMA RootOnStack ==
  ASSUME PathInv, NEW x, OnStack(x)
  PROVE  OnStack(RootOf[x])
  <1>1. PICK t \in Threads : \E i \in 1..Len(stack[t]) : stack[t][i] = x
    BY DEF OnStack
  <1>2. PICK i \in 1..Len(stack[t]) : stack[t][i] = x
    BY <1>1
  <1>3. RootOf[x] = stack[t][1]
    BY <1>2 DEF PathInv, RecordInv, StackRoots
  <1>4. 1 \in 1..Len(stack[t])
    <2>1. Len(stack[t]) \in Nat
      BY DEF PathInv, CausalInv, HandleInv, StackInv, TypeInv, TypeOK
    <2> QED BY <1>2, <2>1
  <1> QED BY <1>3, <1>4 DEF OnStack

LEMMA FinishedFacts == PathInv => FinishedComplete
  <1> SUFFICES ASSUME PathInv, NEW x \in began
               PROVE  /\ x \in FinishedNodes => x \notin live /\ state[x] = "ended"
                      /\ x \in FinishedNodes <=> ~OnStack(RootOf[x])
    BY DEF FinishedComplete
  <1>1. x \in Tracers
    BY Forest
  <1>2. x \in FinishedNodes <=> RootOf[x] \in finished
    BY <1>1, RecordedByRoot DEF FinishedNodes
  <1>3. RootOf[x] \in began /\ parent[RootOf[x]] = NoTracer
    <2>1. IsRootMap(parent, RootOf)
      BY DEF PathInv, RecordInv, RootsDefined
    <2>2. \A y \in began : parent[y] # NoTracer => parent[y] \in began
      BY Forest
    <2> QED BY <2>1, <2>2, Forest, RootsAreRoots
  <1>4. RootOf[x] \in finished <=> ~OnStack(RootOf[x])
    BY <1>3 DEF PathInv, RecordInv, PoppedIsRecorded
  <1>5. ~OnStack(RootOf[x]) => x \notin live /\ state[x] = "ended"
    <2>1. ~OnStack(RootOf[x]) => handle[x] = "cleared"
      BY RootOnStack DEF PathInv, RecordInv, PoppedIsReleased
    <2> QED BY <1>1, <2>1 DEF PathInv, CausalInv, HandleInv, ReleasedInv
  <1> QED BY <1>2, <1>4, <1>5

\* A tree is in finished_paths if and only if none of its tracers is on a stack
\* or open.
THEOREM FinishedAreComplete == Spec => []FinishedComplete
  BY RecordInit, RecordStep, FinishedFacts, PTL DEF Spec

RecordedTrees ==
  \A x \in Tracers : /\ x \in FinishedNodes <=> RootOf[x] \in finished
                     /\ x \in FinishedNodes => x \in began

LEMMA RecordedFacts == PathInv => RecordedTrees
  BY RecordedByRoot DEF FinishedNodes, RecordedTrees

\* Nothing changes in a recorded tree.
LEMMA FinishedStays ==
  ASSUME PathInv, PathInv', [Next]_vars, NEW x \in FinishedNodes
  PROVE  /\ x \in FinishedNodes'
         /\ x \notin live' /\ state'[x] = "ended"
         /\ {c \in Tracers : parent'[c] = x} = {c \in Tracers : parent[c] = x}
  <1>1. x \in Tracers /\ RootOf[x] \in finished /\ x \in began
    <2>1. x \in Tracers
      BY DEF FinishedNodes
    <2> QED BY <2>1, RecordedFacts DEF RecordedTrees
  <1>2. finished \subseteq finished' /\ began \subseteq began'
    BY DEF Next, vars, Create, FactoryFails, Start, GetTag, MarkFailed, AddAttribute, End,
           ExitWithException, TracerEnd, NativeEnd, FinishedBy, LinkTags
  <1>3. FinishedComplete'
    BY FinishedFacts, PTL
  <1>4. ~OnStack(x)
    BY <1>1, FinishedFacts, RootOnStack DEF FinishedComplete
  <1>5. /\ RootOf'[x] = RootOf[x]
        /\ {c \in Tracers : parent'[c] = x} = {c \in Tracers : parent[c] = x}
    <2>1. CASE parent' = parent
      BY <2>1, SameRoots DEF PathInv, RecordInv
    <2>2. ASSUME NEW t \in Threads, NEW y \in Tracers, Start(t, y)
          PROVE  /\ RootOf'[x] = RootOf[x]
                 /\ {c \in Tracers : parent'[c] = x} = {c \in Tracers : parent[c] = x}
      <3>1. y \notin began /\ parent' = [parent EXCEPT ![y] = Top(t)]
        BY <2>2 DEF Start, NewParent, PathInv, CausalInv, HandleInv, StackInv, BegunInv
      <3>2. RootOf'[x] = RootOf[x]
        BY <1>1, <2>2, <3>1, RootsOfStart DEF PathInv
      <3>3. parent[y] = NoTracer /\ x # NoTracer
        BY <1>1, <3>1, NoTracerAssumption DEF PathInv, RecordInv, UnbegunIsAlone
      <3>4. Top(t) # x
        <4>1. TypeOK
          BY DEF PathInv, CausalInv, HandleInv, StackInv, TypeInv
        <4>2. CASE stack[t] = <<>>
          BY <3>3, <4>2 DEF Top
        <4>3. CASE stack[t] # <<>>
          <5>1. Len(stack[t]) \in 1..Len(stack[t]) /\ Top(t) = stack[t][Len(stack[t])]
            BY <4>1, <4>3, TopFacts
          <5> QED BY <1>4, <5>1 DEF OnStack
        <4> QED BY <4>2, <4>3
      <3>5. \A c \in Tracers : parent'[c] = x <=> parent[c] = x
        BY <3>1, <3>3, <3>4, Forest
      <3> QED BY <3>2, <3>5
    <2>3. parent' = parent \/ \E t \in Threads, y \in Tracers : Start(t, y)
      BY DEF Next, vars, Create, FactoryFails, GetTag, MarkFailed, AddAttribute, End,
             ExitWithException, TracerEnd, LinkTags
    <2> QED BY <2>1, <2>2, <2>3
  <1>6. x \in FinishedNodes'
    <2>1. RecordedTrees'
      BY RecordedFacts, PTL
    <2> QED BY <1>1, <1>2, <1>5, <2>1 DEF RecordedTrees
  <1>7. x \notin live' /\ state'[x] = "ended"
    BY <1>1, <1>2, <1>3, <1>6 DEF FinishedComplete
  <1> QED BY <1>5, <1>6, <1>7

\* Recorded paths are final.
THEOREM FinishedPathsAreFinal == Spec => FinishedIsFinal
  <1>1. PathInv /\ PathInv' /\ [Next]_vars =>
          [\A x \in FinishedNodes :
             /\ x \in FinishedNodes'
             /\ x \notin live' /\ state'[x] = "ended"
             /\ {c \in Tracers : parent'[c] = x} = {c \in Tracers : parent[c] = x}]_vars
    BY FinishedStays
  <1> QED BY <1>1, RecordInit, RecordStep, PTL DEF Spec, FinishedIsFinal
=============================================================================
