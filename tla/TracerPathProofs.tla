------------------------- MODULE TracerPathProofs -------------------------
(***************************************************************************)
(* Theorems about TracerPath, for every set of threads and tracers of any  *)
(* kinds, and for an application that ends them in any order.              *)
(***************************************************************************)
EXTENDS TracerPath, SequenceTheorems, TLAPS

-----------------------------------------------------------------------------
(* Stacks *)

\* Positions on a stack.
LEMMA Positions ==
  ASSUME NEW n \in Nat
  PROVE  /\ \A i \in 1..(n + 1) : i \in 1..n \/ i = n + 1
         /\ \A i \in 1..n : i \in 1..(n - 1) \/ i = n
         /\ \A i \in 1..(n - 1) : i \in 1..n /\ i # n
         /\ \A i \in 1..n : i # 1 => i - 1 \in 1..n /\ i - 1 # n
  OBVIOUS

\* What Append does to a stack.
LEMMA PushFacts ==
  ASSUME NEW T, NEW s \in Seq(T), NEW x \in T
  PROVE  /\ Append(s, x) \in Seq(T)
         /\ Append(s, x) # <<>>
         /\ Len(Append(s, x)) = Len(s) + 1
         /\ \A i \in 1..Len(s) : Append(s, x)[i] = s[i]
         /\ Append(s, x)[Len(s) + 1] = x
  OBVIOUS

\* What Pop does to a stack.
LEMMA PopFacts ==
  ASSUME NEW T, NEW s \in Seq(T), s # <<>>
  PROVE  /\ Pop(s) \in Seq(T)
         /\ Len(s) \in Nat \ {0}
         /\ Len(Pop(s)) = Len(s) - 1
         /\ \A i \in 1..(Len(s) - 1) : Pop(s)[i] = s[i]
         /\ Pop(s) = <<>> <=> Len(s) = 1
  <1>1. Len(s) \in Nat /\ Len(s) # 0
    OBVIOUS
  <1>2. \A i \in 1..(Len(s) - 1) : s[i] \in T
    BY <1>1
  <1>3. /\ Pop(s) \in Seq(T)
        /\ Len(Pop(s)) = IF 1 <= Len(s) - 1 THEN Len(s) - 1 - 1 + 1 ELSE 0
        /\ \A i \in 1..(Len(s) - 1 - 1 + 1) : Pop(s)[i] = s[1 + i - 1]
    BY <1>1, <1>2, SubSeqProperties DEF Pop
  <1>4. Len(Pop(s)) = Len(s) - 1
    <2> DEFINE n == Len(s)
               m == Len(Pop(s))
    <2>1. n \in Nat /\ n # 0 /\ m = IF 1 <= n - 1 THEN n - 1 - 1 + 1 ELSE 0
      BY <1>1, <1>3
    <2> HIDE DEF n, m
    <2>2. m = n - 1
      BY <2>1
    <2> QED BY <2>2 DEF n, m
  <1>5. \A i \in 1..(Len(s) - 1) : Pop(s)[i] = s[i]
    BY <1>1, <1>3
  <1>6. Pop(s) = <<>> <=> Len(s) = 1
    BY <1>1, <1>3, <1>4
  <1> QED BY <1>1, <1>3, <1>4, <1>5, <1>6

\* The top of a stack is its last element.
LEMMA TopFacts ==
  ASSUME TypeOK, NEW t \in Threads
  PROVE  /\ stack[t] \in Seq(Tracers)
         /\ Len(stack[t]) \in Nat
         /\ stack[t] = <<>> <=> Len(stack[t]) = 0
         /\ stack[t] = <<>> => Top(t) = NoTracer
         /\ stack[t] # <<>> => /\ Top(t) = stack[t][Len(stack[t])]
                               /\ Top(t) \in Tracers
                               /\ Top(t) # NoTracer
  BY NoTracerAssumption DEF TypeOK, Top

-----------------------------------------------------------------------------
(* Type correctness *)

\* A tracer is marked twice only by the exit that ends it.
MarkInv ==
  \A x \in Tracers :
    /\ handle[x] = "none" => state[x] = "none"
    /\ state[x] # "ended" => marks[x] <= 1

TypeInv == TypeOK /\ MarkInv

LEMMA TypeInit == Init => TypeInv
  BY DEF Init, TypeInv, TypeOK, MarkInv

LEMMA TypeOfNativeEnd ==
  ASSUME TypeInv, NEW t \in Threads, NEW x \in Tracers, NativeEnd(t, x),
         UNCHANGED hasPath
  PROVE  /\ state' \in [Tracers -> {"none", "created", "started", "ended"}]
         /\ state' = [state EXCEPT ![x] = "ended"]
         /\ live' \subseteq Tracers
         /\ stack' \in [Threads -> Seq(Tracers)]
         /\ \A u \in Threads : stack'[u] # <<>> => u \in hasPath
         /\ finished' \subseteq Tracers
  <1> USE DEF TypeInv, TypeOK
  <1>1. CASE Ends(t, x)
    <2>1. stack[t] # <<>>
      BY <1>1, NoTracerAssumption DEF Ends, Top
    <2>2. stack' = [stack EXCEPT ![t] = Pop(@)] /\ finished' = FinishedBy(t, x)
      BY <1>1 DEF NativeEnd
    <2>3. Pop(stack[t]) \in Seq(Tracers)
      BY <2>1, PopFacts
    <2> QED BY <2>1, <2>2, <2>3 DEF NativeEnd, FinishedBy
  <1>2. CASE ~Ends(t, x)
    BY <1>2 DEF NativeEnd
  <1> QED BY <1>1, <1>2

LEMMA TypeOfTracerEnd ==
  ASSUME TypeInv, NEW t \in Threads, NEW x \in Tracers, TracerEnd(t, x),
         marks' \in [Tracers -> 0..2], \A y \in Tracers : y # x => marks'[y] = marks[y]
  PROVE  TypeInv'
  <1> USE DEF TypeInv, TypeOK, MarkInv
  <1>1. NativeEnd(t, x) /\ UNCHANGED <<owner, hasPath, parent, began, tags, inTag, links>>
    BY DEF TracerEnd
  <1>2. handle' \in [Tracers -> {"none", "held", "cleared", "lost"}]
    BY DEF TracerEnd
  <1>3. \A y \in Tracers : handle'[y] = "none" => handle[y] = "none" /\ y # x
    BY DEF TracerEnd, OnOwnThread
  <1>4. MarkInv'
    BY <1>1, <1>3, TypeOfNativeEnd
  <1> QED BY <1>1, <1>2, <1>4, TypeOfNativeEnd

LEMMA TypeStep == TypeInv /\ [Next]_vars => TypeInv'
  <1> SUFFICES ASSUME TypeInv, [Next]_vars PROVE TypeInv'
    OBVIOUS
  <1> USE DEF TypeInv, TypeOK, MarkInv
  <1>1. ASSUME NEW t \in Threads, GetTag(t) PROVE TypeInv'
    BY <1>1 DEF GetTag, TagsTakenFrom
  <1>2. ASSUME NEW t \in Threads, AddAttribute(t) PROVE TypeInv'
    BY <1>2 DEF AddAttribute
  <1>3. ASSUME NEW t \in Threads, NEW x \in Tracers, Create(t, x) PROVE TypeInv'
    <2>1. inTag' \in [Tracers -> Tracers \cup {NoTracer}]
      BY <1>3 DEF Create
    <2>2. /\ handle' \in [Tracers -> {"none", "held", "cleared", "lost"}]
          /\ owner' \in [Tracers -> Threads \cup {NoThread}]
          /\ state' \in [Tracers -> {"none", "created", "started", "ended"}]
          /\ live' \subseteq Tracers
      BY <1>3 DEF Create
    <2>3. MarkInv'
      BY <1>3 DEF Create
    <2> QED BY <1>3, <2>1, <2>2, <2>3 DEF Create
  <1>4. ASSUME NEW t \in Threads, NEW x \in Tracers, FactoryFails(t, x) PROVE TypeInv'
    <2>1. /\ handle' \in [Tracers -> {"none", "held", "cleared", "lost"}]
          /\ owner' \in [Tracers -> Threads \cup {NoThread}]
          /\ state' \in [Tracers -> {"none", "created", "started", "ended"}]
          /\ live' \subseteq Tracers
      BY <1>4 DEF FactoryFails
    <2>2. MarkInv'
      BY <1>4 DEF FactoryFails
    <2> QED BY <1>4, <2>1, <2>2 DEF FactoryFails
  <1>5. ASSUME NEW t \in Threads, NEW x \in Tracers, Start(t, x) PROVE TypeInv'
    <2>1. stack' \in [Threads -> Seq(Tracers)]
      BY <1>5, PushFacts DEF Start, NewParent
    <2>2. hasPath' \subseteq Threads /\ t \in hasPath' /\ hasPath \subseteq hasPath'
      BY <1>5 DEF Start, NewParent, PathOnStart
    <2>3. \A u \in Threads : stack'[u] # <<>> => u \in hasPath'
      BY <1>5, <2>2 DEF Start, NewParent
    <2>4. Top(t) \in Tracers \cup {NoTracer}
      BY TopFacts
    <2> QED BY <1>5, <2>1, <2>2, <2>3, <2>4 DEF Start, NewParent
  <1>6. ASSUME NEW t \in Threads, NEW x \in Tracers, MarkFailed(t, x) PROVE TypeInv'
    <2>1. marks' \in [Tracers -> 0..2]
      BY <1>6 DEF MarkFailed
    <2>2. MarkInv'
      BY <1>6 DEF MarkFailed
    <2> QED BY <1>6, <2>1, <2>2 DEF MarkFailed
  <1>7. ASSUME NEW t \in Threads, NEW x \in Tracers, End(t, x) PROVE TypeInv'
    BY <1>7, TypeOfTracerEnd DEF End
  <1>8. ASSUME NEW t \in Threads, NEW x \in Tracers, ExitWithException(t, x)
        PROVE  TypeInv'
    <2>1. state[x] = "started" /\ TracerEnd(t, x)
      BY <1>8 DEF ExitWithException
    <2>2. marks[x] \in 0..2 /\ marks[x] <= 1
      BY <2>1
    <2>3. marks' = [marks EXCEPT ![x] = marks[x] + 1]
      BY <1>8 DEF ExitWithException
    <2>4. marks' \in [Tracers -> 0..2]
      BY <2>2, <2>3
    <2> QED BY <2>1, <2>3, <2>4, TypeOfTracerEnd
  <1>9. CASE LinkTags
    BY <1>9 DEF LinkTags
  <1>10. CASE UNCHANGED vars
    BY <1>10 DEF vars
  <1> QED
    BY <1>1, <1>2, <1>3, <1>4, <1>5, <1>6, <1>7, <1>8, <1>9, <1>10 DEF Next

\* The variables keep their types.
THEOREM TypeCorrect == Spec => []TypeOK
  BY TypeInit, TypeStep, PTL DEF Spec, TypeInv

-----------------------------------------------------------------------------
(* The stack discipline.  ActiveChain is not inductive: a pop must not leave *)
(* the tracer elsewhere on the stack, and a start must not push one that has *)
(* been on a path already.                                                   *)

\* A tracer on a stack is held by the application, and started or ended.
Placed ==
  \A t \in Threads : \A i \in 1..Len(stack[t]) :
    /\ handle[stack[t][i]] = "held"
    /\ state[stack[t][i]] \in {"started", "ended"}

\* No tracer is twice on a stack.
NoRepeats ==
  \A t \in Threads : \A i, j \in 1..Len(stack[t]) : stack[t][i] = stack[t][j] => i = j

\* A started tracer is on the stack of its thread.
StartedOnStack ==
  \A x \in Tracers : state[x] = "started" =>
    /\ owner[x] \in Threads
    /\ \E i \in 1..Len(stack[owner[x]]) : stack[owner[x]][i] = x

\* Tracers that were never started are on no path and have no children.
BegunInv ==
  \A x \in Tracers :
    /\ state[x] = "started" => x \in began
    /\ state[x] \in {"none", "created"} => x \notin began
    /\ parent[x] # NoTracer => parent[x] \in began

StackInv ==
  TypeInv /\ ActiveChain /\ Placed /\ NoRepeats /\ StartedOnStack /\ BegunInv

LEMMA StackInit == Init => StackInv
  <1> SUFFICES ASSUME Init PROVE StackInv
    OBVIOUS
  <1>1. \A t \in Threads : Len(stack[t]) = 0
    BY DEF Init
  <1>2. ActiveChain /\ Placed /\ NoRepeats
    BY <1>1 DEF ActiveChain, Placed, NoRepeats
  <1>3. StartedOnStack /\ BegunInv
    BY DEF Init, StartedOnStack, BegunInv
  <1> QED BY <1>2, <1>3, TypeInit DEF StackInv

\* A step that leaves the stacks alone, and the tracers on them.
LEMMA SameStacks ==
  ASSUME StackInv, TypeInv', UNCHANGED <<stack, parent, began>>,
         \A x \in Tracers : state[x] \in {"started", "ended"} =>
           state'[x] = state[x] /\ handle'[x] = handle[x] /\ owner'[x] = owner[x],
         \A x \in Tracers : state[x] \in {"none", "created"} =>
           state'[x] # "started"
  PROVE  StackInv'
  <1> USE DEF StackInv, TypeInv, TypeOK
  <1>1. \A t \in Threads : stack[t] \in Seq(Tracers)
    OBVIOUS
  <1>2. \A t \in Threads : \A i \in 1..Len(stack[t]) :
          /\ stack[t][i] \in Tracers
          /\ state[stack[t][i]] \in {"started", "ended"}
    BY <1>1 DEF Placed
  <1>3. ActiveChain'
    BY <1>2 DEF ActiveChain
  <1>4. Placed' /\ NoRepeats'
    BY <1>2 DEF Placed, NoRepeats
  <1>5. StartedOnStack'
    <2>1. ASSUME NEW x \in Tracers, state'[x] = "started"
          PROVE  state[x] = "started" /\ owner'[x] = owner[x]
      <3>1. state[x] \in {"none", "created", "started", "ended"}
        OBVIOUS
      <3> QED BY <3>1, <2>1
    <2> QED BY <2>1 DEF StartedOnStack
  <1>6. BegunInv'
    BY DEF BegunInv
  <1> QED BY <1>3, <1>4, <1>5, <1>6

LEMMA StackStart ==
  ASSUME StackInv, TypeInv', NEW t \in Threads, NEW x \in Tracers, Start(t, x)
  PROVE  StackInv'
  <1> DEFINE s == stack[t]
  <1> USE DEF StackInv, TypeInv, TypeOK
  <1>1. /\ state[x] = "created" /\ handle[x] = "held" /\ owner[x] = t
        /\ state' = [state EXCEPT ![x] = "started"]
        /\ parent' = [parent EXCEPT ![x] = Top(t)]
        /\ stack' = [stack EXCEPT ![t] = Append(s, x)]
        /\ began' = began \cup {x}
        /\ UNCHANGED <<handle, owner>>
    BY DEF Start, NewParent, OnOwnThread
  <1>2. /\ Len(s) \in Nat
        /\ stack'[t] = Append(s, x)
        /\ Len(stack'[t]) = Len(s) + 1
        /\ \A i \in 1..Len(s) : stack'[t][i] = s[i]
        /\ stack'[t][Len(s) + 1] = x
    BY <1>1, PushFacts
  <1>3. \A u \in Threads : u # t => stack'[u] = stack[u]
    BY <1>1
  <1>4. \A u \in Threads : \A i \in 1..Len(stack[u]) :
          stack[u][i] \in Tracers /\ stack[u][i] \in began /\ stack[u][i] # x
    BY <1>1 DEF ActiveChain, BegunInv
  <1>5. Top(t) = IF Len(s) = 0 THEN NoTracer ELSE s[Len(s)]
    BY TopFacts
  <1>6. ActiveChain'
    <2> SUFFICES ASSUME NEW u \in Threads, NEW i \in 1..Len(stack'[u])
                 PROVE  /\ owner'[stack'[u][i]] = u
                        /\ stack'[u][i] \in began'
                        /\ parent'[stack'[u][i]] = IF i = 1 THEN NoTracer ELSE stack'[u][i - 1]
      BY DEF ActiveChain
    <2>1. CASE u # t
      BY <2>1, <1>1, <1>3, <1>4 DEF ActiveChain
    <2>2. CASE u = t /\ i = Len(s) + 1
      BY <2>2, <1>1, <1>2, <1>5
    <2>3. CASE u = t /\ i \in 1..Len(s)
      <3>1. i # 1 => i - 1 \in 1..Len(s)
        BY <2>3, <1>2
      <3>2. parent[s[i]] = IF i = 1 THEN NoTracer ELSE s[i - 1]
        BY <2>3 DEF ActiveChain
      <3>3. stack'[u][i] = s[i] /\ s[i] \in Tracers /\ s[i] # x /\ s[i] \in began
        BY <2>3, <1>2, <1>4
      <3>4. i # 1 => stack'[u][i - 1] = s[i - 1]
        BY <2>3, <3>1, <1>2
      <3>5. owner[s[i]] = t
        BY <2>3 DEF ActiveChain
      <3>6. parent'[s[i]] = parent[s[i]]
        BY <3>3, <1>1
      <3>7. stack'[u][i] \in began' /\ owner'[stack'[u][i]] = u
        BY <2>3, <3>3, <3>5, <1>1
      <3>8. parent'[stack'[u][i]] = IF i = 1 THEN NoTracer ELSE stack'[u][i - 1]
        <4>1. CASE i = 1
          BY <4>1, <3>2, <3>3, <3>6
        <4>2. CASE i # 1
          BY <4>2, <3>2, <3>3, <3>4, <3>6
        <4> QED BY <4>1, <4>2
      <3> QED BY <3>7, <3>8
    <2>4. u = t => i \in 1..Len(s) \/ i = Len(s) + 1
      BY <1>2, Positions
    <2> QED BY <2>1, <2>2, <2>3, <2>4
  <1>7. Placed'
    <2> SUFFICES ASSUME NEW u \in Threads, NEW i \in 1..Len(stack'[u])
                 PROVE  /\ handle'[stack'[u][i]] = "held"
                        /\ state'[stack'[u][i]] \in {"started", "ended"}
      BY DEF Placed
    <2>1. CASE u # t
      BY <2>1, <1>1, <1>3, <1>4 DEF Placed
    <2>2. CASE u = t /\ i = Len(s) + 1
      BY <2>2, <1>1, <1>2
    <2>3. CASE u = t /\ i \in 1..Len(s)
      BY <2>3, <1>1, <1>2, <1>4 DEF Placed
    <2> QED BY <2>1, <2>2, <2>3, <1>2
  <1>8. NoRepeats'
    <2> SUFFICES ASSUME NEW u \in Threads, NEW i \in 1..Len(stack'[u]),
                        NEW j \in 1..Len(stack'[u]), stack'[u][i] = stack'[u][j]
                 PROVE  i = j
      BY DEF NoRepeats
    <2>1. CASE u # t
      BY <2>1, <1>3 DEF NoRepeats
    <2>2. CASE u = t
      <3>1. i \in 1..(Len(s) + 1) /\ j \in 1..(Len(s) + 1)
        BY <2>2, <1>2
      <3>2. \A k \in 1..Len(s) : stack'[t][k] # x
        BY <1>2, <1>4
      <3>3. CASE i \in 1..Len(s) /\ j \in 1..Len(s)
        <4>1. s[i] = s[j]
          BY <2>2, <3>3, <1>2
        <4> QED BY <3>3, <4>1 DEF NoRepeats
      <3>4. i \in 1..Len(s) \/ i = Len(s) + 1
        BY <3>1, <1>2
      <3>5. j \in 1..Len(s) \/ j = Len(s) + 1
        BY <3>1, <1>2
      <3>6. i = Len(s) + 1 => stack'[t][j] = x
        BY <2>2, <1>2
      <3>7. j = Len(s) + 1 => stack'[t][i] = x
        BY <2>2, <1>2
      <3> QED BY <3>2, <3>3, <3>4, <3>5, <3>6, <3>7
    <2> QED BY <2>1, <2>2
  <1>9. StartedOnStack'
    <2> SUFFICES ASSUME NEW y \in Tracers, state'[y] = "started"
                 PROVE  /\ owner'[y] \in Threads
                        /\ \E i \in 1..Len(stack'[owner'[y]]) : stack'[owner'[y]][i] = y
      BY DEF StartedOnStack
    <2>1. CASE y = x
      BY <2>1, <1>1, <1>2
    <2>2. CASE y # x
      <3>1. state[y] = "started" /\ owner'[y] = owner[y]
        BY <2>2, <1>1
      <3>2. owner[y] \in Threads
        BY <3>1 DEF StartedOnStack
      <3>3. PICK i \in 1..Len(stack[owner[y]]) : stack[owner[y]][i] = y
        BY <3>1 DEF StartedOnStack
      <3>4. CASE owner[y] = t
        <4>1. i \in 1..Len(s) /\ s[i] = y
          BY <3>3, <3>4
        <4>2. i \in 1..Len(stack'[t]) /\ stack'[t][i] = y
          BY <4>1, <1>2
        <4> QED BY <3>1, <3>2, <3>4, <4>2
      <3>5. CASE owner[y] # t
        BY <3>1, <3>2, <3>3, <3>5, <1>3
      <3> QED BY <3>4, <3>5
    <2> QED BY <2>1, <2>2
  <1>10. BegunInv'
    <2>1. Top(t) # NoTracer => Top(t) \in began
      BY <1>2, <1>4, <1>5
    <2> QED BY <2>1, <1>1 DEF BegunInv
  <1> QED BY <1>6, <1>7, <1>8, <1>9, <1>10

LEMMA StackTracerEnd ==
  ASSUME StackInv, TypeInv', NEW t \in Threads, NEW x \in Tracers, TracerEnd(t, x)
  PROVE  StackInv'
  <1> DEFINE s == stack[t]
  <1> USE DEF StackInv, TypeInv, TypeOK
  <1>1. /\ handle[x] = "held" /\ owner[x] = t
        /\ state' = [state EXCEPT ![x] = "ended"]
        /\ UNCHANGED <<owner, parent, began, hasPath>>
    BY DEF TracerEnd, NativeEnd, OnOwnThread
  <1>2. \A u \in Threads : \A i \in 1..Len(stack[u]) :
          stack[u][i] \in Tracers /\ (u # t => stack[u][i] # x)
    BY <1>1 DEF ActiveChain
  \* What is left of the stacks is a prefix of them without the tracers released.
  <1>3. \A u \in Threads :
          /\ Len(stack[u]) \in Nat /\ Len(stack'[u]) \in Nat
          /\ Len(stack'[u]) <= Len(stack[u])
          /\ \A i \in 1..Len(stack'[u]) :
               /\ i \in 1..Len(stack[u])
               /\ stack'[u][i] = stack[u][i]
               /\ handle'[stack[u][i]] = "held"
          /\ \A i \in 1..Len(stack[u]) :
               stack[u][i] # x => i \in 1..Len(stack'[u])
    <2>1. CASE Ends(t, x)
      <3>1. s # <<>> /\ s[Len(s)] = x
        <4>1. Top(t) = x
          BY <2>1 DEF Ends
        <4> QED BY <4>1, TopFacts, NoTracerAssumption
      <3>2. stack' = [stack EXCEPT ![t] = Pop(s)]
        BY <2>1 DEF TracerEnd, NativeEnd
      <3>3. /\ Len(s) \in Nat \ {0}
            /\ Len(stack'[t]) = Len(s) - 1
            /\ \A i \in 1..(Len(s) - 1) : stack'[t][i] = s[i]
        <4>1. s \in Seq(Tracers) /\ stack'[t] = Pop(s)
          BY <3>2
        <4>2. /\ Len(s) \in Nat \ {0}
              /\ Len(Pop(s)) = Len(s) - 1
              /\ \A i \in 1..(Len(s) - 1) : Pop(s)[i] = s[i]
          <5> HIDE DEF s
          <5> QED BY <4>1, <3>1, PopFacts
        <4> HIDE DEF s
        <4> QED BY <4>1, <4>2
      <3>4. \A i \in 1..(Len(s) - 1) : i \in 1..Len(s) /\ i # Len(s)
        BY <3>3, Positions
      <3>5. \A i \in 1..(Len(s) - 1) : s[i] # x
        <4>1. Len(s) \in 1..Len(s)
          BY <3>3
        <4> QED BY <4>1, <3>1, <3>4 DEF NoRepeats
      <3>6. \A y \in Tracers : y # x => handle'[y] = handle[y]
        BY DEF TracerEnd
      <3>7. \A u \in Threads : u # t => stack'[u] = stack[u]
        BY <3>2
      <3>8. \A i \in 1..Len(s) : s[i] # x => i \in 1..(Len(s) - 1)
        BY <3>1, <3>3, Positions
      <3>9. \A i \in 1..Len(s) : handle[s[i]] = "held"
        BY DEF Placed
      <3> SUFFICES ASSUME NEW u \in Threads
                   PROVE  /\ Len(stack[u]) \in Nat /\ Len(stack'[u]) \in Nat
                          /\ Len(stack'[u]) <= Len(stack[u])
                          /\ \A i \in 1..Len(stack'[u]) :
                               /\ i \in 1..Len(stack[u])
                               /\ stack'[u][i] = stack[u][i]
                               /\ handle'[stack[u][i]] = "held"
                          /\ \A i \in 1..Len(stack[u]) :
                               stack[u][i] # x => i \in 1..Len(stack'[u])
        OBVIOUS
      <3>10. CASE u = t
        <4>1. \A i \in 1..Len(stack'[t]) :
                 i \in 1..Len(s) /\ stack'[t][i] = s[i] /\ handle'[s[i]] = "held"
          BY <3>3, <3>4, <3>5, <3>6, <3>9, <1>2
        <4> QED BY <3>10, <4>1, <3>3, <3>8
      <3>11. CASE u # t
        BY <3>11, <3>6, <3>7, <1>2 DEF Placed
      <3> QED BY <3>10, <3>11
    <2>2. CASE ~Ends(t, x)
      <3>1. stack' = stack
        BY <2>2 DEF TracerEnd, NativeEnd
      <3>2. CASE t \in hasPath
        <4>1. handle' = handle
          BY <2>2, <3>2 DEF TracerEnd, EndSucceeds
        <4> QED BY <3>1, <4>1 DEF Placed
      <3>3. CASE t \notin hasPath
        <4>1. s = <<>>
          BY <3>3
        <4>2. \A y \in Tracers : y # x => handle'[y] = handle[y]
          BY DEF TracerEnd
        <4>3. \A u \in Threads : \A i \in 1..Len(stack[u]) : stack[u][i] # x
          BY <4>1, <1>2
        <4> QED BY <3>1, <4>2, <4>3, <1>2 DEF Placed
      <3> QED BY <3>2, <3>3
    <2> QED BY <2>1, <2>2
  <1>4. ActiveChain'
    <2> SUFFICES ASSUME NEW u \in Threads, NEW i \in 1..Len(stack'[u])
                 PROVE  /\ owner'[stack'[u][i]] = u
                        /\ stack'[u][i] \in began'
                        /\ parent'[stack'[u][i]] = IF i = 1 THEN NoTracer ELSE stack'[u][i - 1]
      BY DEF ActiveChain
    <2>1. i # 1 => i - 1 \in 1..Len(stack'[u])
      BY <1>3
    <2>2. i # 1 => stack'[u][i - 1] = stack[u][i - 1]
      BY <2>1, <1>3
    <2>3. i \in 1..Len(stack[u]) /\ stack'[u][i] = stack[u][i]
      BY <1>3
    <2>4. /\ owner[stack[u][i]] = u
          /\ stack[u][i] \in began
          /\ parent[stack[u][i]] = IF i = 1 THEN NoTracer ELSE stack[u][i - 1]
      BY <2>3 DEF ActiveChain
    <2>5. CASE i = 1
      BY <2>3, <2>4, <2>5, <1>1
    <2>6. CASE i # 1
      BY <2>2, <2>3, <2>4, <2>6, <1>1
    <2> QED BY <2>5, <2>6
  <1>5. Placed'
    <2> SUFFICES ASSUME NEW u \in Threads, NEW i \in 1..Len(stack'[u])
                 PROVE  /\ handle'[stack'[u][i]] = "held"
                        /\ state'[stack'[u][i]] \in {"started", "ended"}
      BY DEF Placed
    <2>1. i \in 1..Len(stack[u]) /\ stack'[u][i] = stack[u][i] /\ handle'[stack[u][i]] = "held"
      BY <1>3
    <2>2. stack[u][i] \in Tracers /\ state[stack[u][i]] \in {"started", "ended"}
      BY <2>1, <1>2 DEF Placed
    <2> QED BY <2>1, <2>2, <1>1
  <1>6. NoRepeats'
    BY <1>3 DEF NoRepeats
  <1>7. StartedOnStack'
    <2> SUFFICES ASSUME NEW y \in Tracers, state'[y] = "started"
                 PROVE  /\ owner'[y] \in Threads
                        /\ \E i \in 1..Len(stack'[owner'[y]]) : stack'[owner'[y]][i] = y
      BY DEF StartedOnStack
    <2>1. y # x /\ state[y] = "started" /\ owner'[y] = owner[y]
      BY <1>1
    <2>2. owner[y] \in Threads
      BY <2>1 DEF StartedOnStack
    <2>3. PICK i \in 1..Len(stack[owner[y]]) : stack[owner[y]][i] = y
      BY <2>1 DEF StartedOnStack
    <2>4. i \in 1..Len(stack'[owner[y]]) /\ stack'[owner[y]][i] = y
      BY <2>1, <2>2, <2>3, <1>3
    <2> QED BY <2>1, <2>2, <2>4
  <1>8. BegunInv'
    BY <1>1 DEF BegunInv
  <1> QED BY <1>4, <1>5, <1>6, <1>7, <1>8

LEMMA StackStep == StackInv /\ [Next]_vars => StackInv'
  <1> SUFFICES ASSUME StackInv, [Next]_vars PROVE StackInv'
    OBVIOUS
  <1>0. TypeInv'
    BY TypeStep DEF StackInv
  <1> USE DEF StackInv, TypeInv, TypeOK, MarkInv
  <1>1. ASSUME NEW t \in Threads, GetTag(t) PROVE StackInv'
    BY <1>0, <1>1, SameStacks DEF GetTag
  <1>2. ASSUME NEW t \in Threads, AddAttribute(t) PROVE StackInv'
    BY <1>0, <1>2, SameStacks DEF AddAttribute
  <1>3. ASSUME NEW t \in Threads, NEW x \in Tracers, Create(t, x) PROVE StackInv'
    BY <1>0, <1>3, SameStacks DEF Create
  <1>4. ASSUME NEW t \in Threads, NEW x \in Tracers, FactoryFails(t, x) PROVE StackInv'
    BY <1>0, <1>4, SameStacks DEF FactoryFails
  <1>5. ASSUME NEW t \in Threads, NEW x \in Tracers, Start(t, x) PROVE StackInv'
    BY <1>0, <1>5, StackStart
  <1>6. ASSUME NEW t \in Threads, NEW x \in Tracers, MarkFailed(t, x) PROVE StackInv'
    BY <1>0, <1>6, SameStacks DEF MarkFailed
  <1>7. ASSUME NEW t \in Threads, NEW x \in Tracers, End(t, x) PROVE StackInv'
    BY <1>0, <1>7, StackTracerEnd DEF End
  <1>8. ASSUME NEW t \in Threads, NEW x \in Tracers, ExitWithException(t, x)
        PROVE  StackInv'
    BY <1>0, <1>8, StackTracerEnd DEF ExitWithException
  <1>9. CASE LinkTags
    BY <1>0, <1>9, SameStacks DEF LinkTags
  <1>10. CASE UNCHANGED vars
    BY <1>0, <1>10, SameStacks DEF vars
  <1> QED
    BY <1>1, <1>2, <1>3, <1>4, <1>5, <1>6, <1>7, <1>8, <1>9, <1>10 DEF Next

\* The stack of a thread is the chain of parents of its active tracer.
THEOREM StacksAreChains == Spec => []ActiveChain
  BY StackInit, StackStep, PTL DEF Spec, StackInv

\* The active tracer has no open children: they would be above it.
LEMMA ActiveFacts == StackInv => ActiveEndable
  <1> SUFFICES ASSUME StackInv, NEW t \in Threads, stack[t] # <<>>
               PROVE  OpenChildren(Top(t)) = {} /\ OnOwnThread(t, Top(t))
    BY DEF ActiveEndable
  <1> USE DEF StackInv, TypeInv, TypeOK
  <1> DEFINE n == Len(stack[t])
  <1>1. n \in Nat /\ n # 0 /\ Top(t) = stack[t][n] /\ Top(t) \in Tracers /\ Top(t) # NoTracer
    BY TopFacts
  <1>2. owner[Top(t)] = t /\ handle[Top(t)] = "held"
    BY <1>1 DEF ActiveChain, Placed
  <1>3. ASSUME NEW c \in Tracers, parent[c] = Top(t), state[c] = "started"
        PROVE  FALSE
    <2>1. owner[c] \in Threads
      BY <1>3 DEF StartedOnStack
    <2>2. PICK i \in 1..Len(stack[owner[c]]) : stack[owner[c]][i] = c
      BY <1>3 DEF StartedOnStack
    <2>3. parent[c] = IF i = 1 THEN NoTracer ELSE stack[owner[c]][i - 1]
      BY <2>1, <2>2 DEF ActiveChain
    <2>4. i # 1 /\ stack[owner[c]][i - 1] = Top(t)
      BY <1>1, <1>3, <2>3
    <2>5. i - 1 \in 1..Len(stack[owner[c]]) /\ i - 1 # Len(stack[owner[c]])
      BY <2>1, <2>2, <2>4
    <2>6. owner[c] = t
      BY <1>2, <2>1, <2>4, <2>5 DEF ActiveChain
    <2>7. i - 1 = n
      BY <1>1, <2>4, <2>5, <2>6 DEF NoRepeats
    <2> QED BY <2>5, <2>6, <2>7
  <1> QED BY <1>2, <1>3 DEF OpenChildren, OnOwnThread

\* The active tracer of a thread can always be ended.
THEOREM ActiveCanEnd == Spec => []ActiveEndable
  BY StackInit, StackStep, ActiveFacts, PTL DEF Spec

-----------------------------------------------------------------------------
(* What the application holds                                               *)

\* A tracer with an open child is on the stack of its thread.
LEMMA OpenParent ==
  ASSUME StackInv, NEW x \in Tracers, OpenChildren(x) # {}
  PROVE  \E i \in 1..Len(stack[owner[x]]) : stack[owner[x]][i] = x
  <1> USE DEF StackInv, TypeInv, TypeOK
  <1>1. PICK c \in Tracers : parent[c] = x /\ state[c] = "started"
    BY DEF OpenChildren
  <1>2. owner[c] \in Threads
    BY <1>1 DEF StartedOnStack
  <1>3. PICK i \in 1..Len(stack[owner[c]]) : stack[owner[c]][i] = c
    BY <1>1 DEF StartedOnStack
  <1>4. i # 1 /\ stack[owner[c]][i - 1] = x
    BY <1>1, <1>2, <1>3, NoTracerAssumption DEF ActiveChain
  <1>5. i - 1 \in 1..Len(stack[owner[c]])
    BY <1>2, <1>3, <1>4, Positions
  <1>6. owner[x] = owner[c]
    BY <1>2, <1>4, <1>5 DEF ActiveChain
  <1> QED BY <1>4, <1>5, <1>6

ReleasedInv ==
  \A x \in Tracers :
    /\ handle[x] = "none" => x \notin live
    /\ handle[x] = "cleared" => x \notin live /\ state[x] = "ended"

HandleInv == StackInv /\ ReleasedInv /\ FailedFactoryReleases

LEMMA HandleInit == Init => HandleInv
  BY StackInit DEF Init, HandleInv, ReleasedInv, FailedFactoryReleases

LEMMA HandleTracerEnd ==
  ASSUME HandleInv, NEW t \in Threads, NEW x \in Tracers, TracerEnd(t, x)
  PROVE  ReleasedInv' /\ FailedFactoryReleases'
  <1> USE DEF HandleInv, StackInv, TypeInv, TypeOK
  <1>1. /\ handle[x] = "held" /\ owner[x] = t
        /\ state' = [state EXCEPT ![x] = "ended"]
        /\ live' \subseteq live
        /\ handle' = IF EndSucceeds(t, x) THEN [handle EXCEPT ![x] = "cleared"] ELSE handle
    BY DEF TracerEnd, NativeEnd, OnOwnThread
  <1>2. EndSucceeds(t, x) => OpenChildren(x) = {}
    <2>1. CASE t \notin hasPath
      <3>1. Len(stack[owner[x]]) = 0
        BY <2>1, <1>1
      <3>2. ~\E i \in 1..Len(stack[owner[x]]) : stack[owner[x]][i] = x
        BY <3>1
      <3> QED BY <3>2, OpenParent
    <2>2. CASE Ends(t, x)
      BY <2>2 DEF Ends
    <2> QED BY <2>1, <2>2 DEF EndSucceeds
  <1>3. EndSucceeds(t, x) => x \notin live'
    BY <1>2 DEF TracerEnd, NativeEnd
  <1>4. ReleasedInv'
    BY <1>1, <1>3 DEF ReleasedInv
  <1>5. FailedFactoryReleases'
    BY <1>1 DEF FailedFactoryReleases
  <1> QED BY <1>4, <1>5

LEMMA HandleStep == HandleInv /\ [Next]_vars => HandleInv'
  <1> SUFFICES ASSUME HandleInv, [Next]_vars PROVE ReleasedInv' /\ FailedFactoryReleases'
    BY StackStep DEF HandleInv
  <1> USE DEF HandleInv, StackInv, TypeInv, TypeOK, ReleasedInv, FailedFactoryReleases
  <1>1. ASSUME NEW t \in Threads, NEW x \in Tracers, Create(t, x)
        PROVE  ReleasedInv' /\ FailedFactoryReleases'
    <2>1. /\ handle[x] = "none"
          /\ handle' = [handle EXCEPT ![x] = "held"]
          /\ state' = [state EXCEPT ![x] = "created"]
          /\ live' = live \cup {x}
      BY <1>1 DEF Create
    <2> QED BY <2>1
  <1>2. ASSUME NEW t \in Threads, NEW x \in Tracers, FactoryFails(t, x)
        PROVE  ReleasedInv' /\ FailedFactoryReleases'
    <2>1. /\ handle[x] = "none"
          /\ handle' = [handle EXCEPT ![x] = "lost"]
          /\ \A y \in Tracers : y # x => state'[y] = state[y]
          /\ live' = IF FailedFactoryEnds(x) THEN live ELSE live \cup {x}
      BY <1>2 DEF FactoryFails
    <2>2. FailedFactoryEnds(x) => x \notin live
      BY <2>1
    <2> QED BY <2>1, <2>2 DEF FailedFactoryEnds, FactoryCleansUp
  <1>3. ASSUME NEW t \in Threads, NEW x \in Tracers, Start(t, x)
        PROVE  ReleasedInv' /\ FailedFactoryReleases'
    BY <1>3 DEF Start, NewParent, OnOwnThread
  <1>4. ASSUME NEW t \in Threads, NEW x \in Tracers, End(t, x) \/ ExitWithException(t, x)
        PROVE  ReleasedInv' /\ FailedFactoryReleases'
    BY <1>4, HandleTracerEnd DEF End, ExitWithException
  <1>5. CASE UNCHANGED <<handle, state, live>>
    BY <1>5
  <1>6. ASSUME NEW t \in Threads, GetTag(t) \/ AddAttribute(t)
        PROVE  UNCHANGED <<handle, state, live>>
    BY <1>6 DEF GetTag, AddAttribute
  <1>7. ASSUME NEW t \in Threads, NEW x \in Tracers, MarkFailed(t, x)
        PROVE  UNCHANGED <<handle, state, live>>
    BY <1>7 DEF MarkFailed
  <1>8. CASE LinkTags \/ UNCHANGED vars
    BY <1>5, <1>8 DEF LinkTags, vars
  <1> QED
    BY <1>1, <1>2, <1>3, <1>4, <1>5, <1>6, <1>7, <1>8 DEF Next

\* A Tracer lets go of its handle only when the native tracer is closed.
THEOREM ReleasedAreClosed == Spec => []ReleasedIsClosed
  <1>1. HandleInv => ReleasedIsClosed
    BY DEF HandleInv, StackInv, Placed, ReleasedInv, ReleasedIsClosed, OnStack
  <1> QED BY <1>1, HandleInit, HandleStep, PTL DEF Spec

\* Web request factories that raise leave no open tracer.
THEOREM FailedFactoriesRelease == Spec => []FailedFactoryReleases
  BY HandleInit, HandleStep, PTL DEF Spec, HandleInv

-----------------------------------------------------------------------------
(* Causality.  A tracer that was not started yet is nobody's parent and its  *)
(* tag is not out, so an edge from it closes no cycle.                       *)

TagInv ==
  /\ tags \subseteq began
  /\ \A x \in Tracers : inTag[x] # NoTracer => inTag[x] \in tags

CausalInv == HandleInv /\ TagInv /\ CausalOrder

\* A new edge from a tracer no edge leads to keeps the order.
LEMMA NewEdge ==
  ASSUME NEW x \in Tracers, CausalOrder,
         \A y \in Tracers : parent'[y] # x /\ inTag'[y] # x,
         \A y \in Tracers : y # x => parent'[y] = parent[y] /\ inTag'[y] = inTag[y]
  PROVE  CausalOrder'
  <1> SUFFICES ASSUME NEW S \in SUBSET Tracers, S # {}
               PROVE  \E y \in S : parent'[y] \notin S /\ inTag'[y] \notin S
    BY DEF CausalOrder
  <1>1. CASE S \ {x} = {}
    <2>1. S = {x}
      BY <1>1
    <2> QED BY <2>1
  <1>2. CASE S \ {x} # {}
    <2>1. PICK y \in S \ {x} : parent[y] \notin S \ {x} /\ inTag[y] \notin S \ {x}
      BY <1>2 DEF CausalOrder
    <2> QED BY <2>1
  <1> QED BY <1>1, <1>2

LEMMA CausalInit == Init => CausalInv
  BY HandleInit, NoTracerAssumption DEF Init, CausalInv, TagInv, CausalOrder

LEMMA CausalStep == CausalInv /\ [Next]_vars => CausalInv'
  <1> SUFFICES ASSUME CausalInv, [Next]_vars PROVE TagInv' /\ CausalOrder'
    BY HandleStep DEF CausalInv
  <1> USE DEF CausalInv, HandleInv, StackInv, TypeInv, TypeOK, TagInv
  <1>1. ASSUME NEW t \in Threads, NEW x \in Tracers, Create(t, x)
        PROVE  TagInv' /\ CausalOrder'
    <2>1. x \notin began
      BY <1>1 DEF Create, MarkInv, BegunInv
    <2>2. PICK tag \in {NoTracer} \cup tags : inTag' = [inTag EXCEPT ![x] = tag]
      BY <1>1 DEF Create
    <2>3. UNCHANGED <<parent, tags, began>>
      BY <1>1 DEF Create
    <2>4. TagInv'
      BY <2>2, <2>3
    <2>5. \A y \in Tracers : parent'[y] # x /\ inTag'[y] # x
      BY <2>1, <2>2, <2>3, NoTracerAssumption DEF BegunInv
    <2> QED BY <2>2, <2>3, <2>4, <2>5, NewEdge
  <1>2. ASSUME NEW t \in Threads, NEW x \in Tracers, Start(t, x)
        PROVE  TagInv' /\ CausalOrder'
    <2>1. x \notin began
      BY <1>2 DEF Start, NewParent, BegunInv
    <2>2. /\ parent' = [parent EXCEPT ![x] = Top(t)]
          /\ began' = began \cup {x}
          /\ UNCHANGED <<tags, inTag>>
      BY <1>2 DEF Start, NewParent
    <2>3. Top(t) # NoTracer => Top(t) \in began
      BY TopFacts DEF ActiveChain
    <2>4. TagInv'
      BY <2>2
    <2>5. \A y \in Tracers : parent'[y] # x /\ inTag'[y] # x
      BY <2>1, <2>2, <2>3, NoTracerAssumption DEF BegunInv
    <2> QED BY <2>2, <2>4, <2>5, NewEdge
  <1>3. ASSUME NEW t \in Threads, GetTag(t) PROVE TagInv' /\ CausalOrder'
    BY <1>3 DEF GetTag, TagsTakenFrom, BegunInv, CausalOrder
  <1>4. CASE UNCHANGED <<parent, began, tags, inTag>>
    BY <1>4 DEF CausalOrder
  <1>5. ASSUME NEW t \in Threads, AddAttribute(t)
        PROVE  UNCHANGED <<parent, began, tags, inTag>>
    BY <1>5 DEF AddAttribute
  <1>6. ASSUME NEW t \in Threads, NEW x \in Tracers,
               \/ FactoryFails(t, x) \/ MarkFailed(t, x)
               \/ End(t, x) \/ ExitWithException(t, x)
        PROVE  UNCHANGED <<parent, began, tags, inTag>>
    BY <1>6 DEF FactoryFails, MarkFailed, End, ExitWithException, TracerEnd
  <1>7. CASE LinkTags \/ UNCHANGED vars
    BY <1>4, <1>7 DEF LinkTags, vars
  <1> QED
    BY <1>1, <1>2, <1>3, <1>4, <1>5, <1>6, <1>7 DEF Next

\* Parents and incoming tags never make a cycle.
THEOREM Causality == Spec => []CausalOrder
  BY CausalInit, CausalStep, PTL DEF Spec, CausalInv

-----------------------------------------------------------------------------
(* Refinement                                                               *)

LEMMA BeginSimulates ==
  ASSUME StackInv, NEW t \in Threads, NEW x \in Tracers, Start(t, x)
  PROVE  Path!Begin(t, x)
  <1> USE DEF StackInv, TypeInv, TypeOK
  <1>1. /\ x \notin began
        /\ parent' = [parent EXCEPT ![x] = Top(t)]
        /\ stack' = [stack EXCEPT ![t] = Append(stack[t], x)]
        /\ began' = began \cup {x}
    BY DEF Start, NewParent, BegunInv
  <1>2. /\ stack'[t] # <<>>
        /\ stack'[t][Len(stack'[t])] = x
    BY <1>1, PushFacts
  <1>3. \A u \in Threads : Top(u)' = IF u = t THEN x ELSE Top(u)
    BY <1>1, <1>2 DEF Top
  <1>4. [u \in Threads |-> Top(u)]' = [[u \in Threads |-> Top(u)] EXCEPT ![t] = x]
    BY <1>3
  <1> QED BY <1>1, <1>4 DEF Path!Begin

LEMMA FinishSimulates ==
  ASSUME StackInv, NEW t \in Threads, NEW x \in Tracers, TracerEnd(t, x), Ends(t, x)
  PROVE  Path!Finish(t)
  <1> USE DEF StackInv, TypeInv, TypeOK
  <1> DEFINE s == stack[t]
  <1>1. s \in Seq(Tracers) /\ s # <<>> /\ s[Len(s)] = x
    <2>1. Top(t) = x
      BY DEF Ends
    <2> QED BY <2>1, TopFacts, NoTracerAssumption
  <1>2. stack' = [stack EXCEPT ![t] = Pop(s)] /\ UNCHANGED <<parent, began>>
    BY DEF TracerEnd, NativeEnd
  <1>3. /\ Len(s) \in Nat \ {0}
        /\ Len(Pop(s)) = Len(s) - 1
        /\ \A i \in 1..(Len(s) - 1) : Pop(s)[i] = s[i]
        /\ Pop(s) = <<>> <=> Len(s) = 1
    <2> HIDE DEF s
    <2> QED BY <1>1, PopFacts
  <1>4. parent[x] = IF Len(s) = 1 THEN NoTracer ELSE s[Len(s) - 1]
    <2>1. Len(s) \in 1..Len(s)
      BY <1>3
    <2>2. parent[s[Len(s)]] = IF Len(s) = 1 THEN NoTracer ELSE s[Len(s) - 1]
      BY <2>1 DEF ActiveChain
    <2> QED BY <1>1, <2>2
  <1>5. Top(t)' = parent[x]
    <2>1. stack'[t] = Pop(s)
      BY <1>2
    <2>2. CASE Len(s) = 1
      BY <2>1, <2>2, <1>3, <1>4 DEF Top
    <2>3. CASE Len(s) # 1
      <3>1. Len(s) - 1 \in 1..(Len(s) - 1)
        BY <2>3, <1>3
      <3>2. Pop(s)[Len(Pop(s))] = s[Len(s) - 1]
        BY <3>1, <1>3
      <3> QED BY <2>1, <2>3, <3>2, <1>3, <1>4 DEF Top
    <2> QED BY <2>2, <2>3
  <1>6. \A u \in Threads : Top(u)' = IF u = t THEN parent[x] ELSE Top(u)
    BY <1>2, <1>5 DEF Top
  <1>7. Top(t) = x /\ x # NoTracer
    BY NoTracerAssumption DEF Ends
  <1>8. [u \in Threads |-> Top(u)]' = [[u \in Threads |-> Top(u)] EXCEPT ![t] = parent[x]]
    BY <1>6
  <1> QED BY <1>2, <1>7, <1>8 DEF Path!Finish

LEMMA PathStep == StackInv /\ [Next]_vars => [Path!Next]_(Path!vars)
  <1> SUFFICES ASSUME StackInv, [Next]_vars
               PROVE  Path!Next \/ UNCHANGED <<stack, parent, began>>
    BY DEF Path!vars, Top
  <1>1. ASSUME NEW t \in Threads, NEW x \in Tracers, Start(t, x) PROVE Path!Next
    BY <1>1, BeginSimulates DEF Path!Next
  <1>2. ASSUME NEW t \in Threads, NEW x \in Tracers, TracerEnd(t, x)
        PROVE  Path!Next \/ UNCHANGED <<stack, parent, began>>
    <2>1. CASE Ends(t, x)
      BY <1>2, <2>1, FinishSimulates DEF Path!Next
    <2>2. CASE ~Ends(t, x)
      BY <1>2, <2>2 DEF TracerEnd, NativeEnd
    <2> QED BY <2>1, <2>2
  <1>3. ASSUME NEW t \in Threads, NEW x \in Tracers, End(t, x) \/ ExitWithException(t, x)
        PROVE  Path!Next \/ UNCHANGED <<stack, parent, began>>
    BY <1>2, <1>3 DEF End, ExitWithException
  <1>4. ASSUME NEW t \in Threads, NEW x \in Tracers,
               Create(t, x) \/ FactoryFails(t, x) \/ MarkFailed(t, x)
        PROVE  UNCHANGED <<stack, parent, began>>
    BY <1>4 DEF Create, FactoryFails, MarkFailed
  <1>5. ASSUME NEW t \in Threads, GetTag(t) \/ AddAttribute(t)
        PROVE  UNCHANGED <<stack, parent, began>>
    BY <1>5 DEF GetTag, AddAttribute
  <1>6. CASE LinkTags \/ UNCHANGED vars
    BY <1>6 DEF LinkTags, vars
  <1> QED
    BY <1>1, <1>3, <1>4, <1>5, <1>6 DEF Next

\* The paths implement the documented behaviour of tracers.
THEOREM TracersImplementPurePath == Spec => ImplementsPurePath
  <1>1. Init => Path!Init
    BY DEF Init, Path!Init, Top
  <1> QED BY <1>1, StackInit, StackStep, PathStep, PTL DEF Spec, ImplementsPurePath, Path!Spec
=============================================================================
