-------------------------- MODULE TracerDataProofs ---------------------------
(***************************************************************************)
(* Proofs about TracerData for any tracers, arguments and numbers: types,  *)
(* that a tracer has no handle but that of its own living object, that     *)
(* what accepted calls ask for arrives, that numbers in range keep their   *)
(* value and that tags are whole.  The lemmas about Marshal compare the two implementations of the *)
(* native interface with what the documentation says of a request.         *)
(***************************************************************************)
EXTENDS TracerData, InductionLemmas, FiniteSetTheorems, SequenceTheorems, TLAPS

-----------------------------------------------------------------------------
(* Marshalling *)

\* A number that fits into the library's integers keeps its value.
LEMMA ModIdentity ==
  ASSUME NEW m \in Nat, NEW k \in Nat, m < k
  PROVE  m % k = m
  BY SMT

LEMMA CIntInRange ==
  ASSUME NEW n \in Int, InRange(n)
  PROVE  CInt(n) = n
<1>1. n + Limit \in Nat /\ 2 * Limit \in Nat /\ n + Limit < 2 * Limit
  BY LimitAssumption DEF InRange
<1>2. (n + Limit) % (2 * Limit) = n + Limit
  BY <1>1, ModIdentity
<1> QED
  BY <1>2, LimitAssumption DEF CInt

LEMMA CIntInt ==
  ASSUME NEW n \in Int
  PROVE  CInt(n) \in Int
<1>1. n + Limit \in Int /\ 2 * Limit \in Nat \ {0}
  BY LimitAssumption
<1>2. (n + Limit) % (2 * Limit) \in Int
  BY <1>1
<1> QED
  BY <1>2, LimitAssumption DEF CInt

\* What ctypes leaves of a number is in range, so a number arrives as it is if
\* and only if it is in range.
THEOREM OnlyRangeIsKept ==
  ASSUME NEW n \in Int
  PROVE  InRange(CInt(n)) /\ (CInt(n) = n <=> InRange(n))
<1> DEFINE m == n + Limit
           k == 2 * Limit
<1>1. m \in Int /\ k \in Nat \ {0} /\ k - Limit = Limit
  BY LimitAssumption
<1>2. 0 <= m % k /\ m % k < k
  <2> HIDE DEF m, k
  <2> QED
    BY <1>1, SMT
<1>3. InRange(CInt(n))
  <2>1. m % k \in Int
    BY <1>1
  <2>2. CInt(n) = (m % k) - Limit
    BY DEF CInt
  <2> HIDE DEF m, k
  <2> QED
    BY <1>1, <1>2, <2>1, <2>2, LimitAssumption DEF InRange
<1> QED
  BY <1>3, CIntInRange

LEMMA ZipLengthNat ==
  ASSUME NEW r \in Requests, r.count # NoCount
  PROVE  /\ ZipLength(r) \in Nat
         /\ ZipLength(r) <= Len(r.keys) /\ ZipLength(r) <= Len(r.values)
         /\ Documented(r) => ZipLength(r) = r.count
<1>1. r.count \in Int /\ r.keys \in Seq(Values) /\ r.values \in Seq(Values)
  BY DEF Requests
<1>2. Len(r.keys) \in Nat /\ Len(r.values) \in Nat
  BY <1>1
<1> QED
  BY <1>1, <1>2 DEF ZipLength, Smaller, Documented

\* The mock adds at most as many pairs as it looks at, and all of them if it
\* accepts the request.
LEMMA MockLengthBound ==
  ASSUME NEW r \in Requests
  PROVE  /\ MockLength(r) \in Nat
         /\ MockLength(r) <= Len(r.keys) /\ MockLength(r) <= Len(r.values)
         /\ r.count # NoCount => MockLength(r) <= ZipLength(r)
         /\ MockAccepts(r) => MockLength(r) = ZipLength(r)
<1>1. CASE r.count = NoCount
  <2>1. Len(r.keys) \in Nat /\ Len(r.values) \in Nat
    BY DEF Requests
  <2> QED
    BY <1>1, <2>1 DEF MockLength, MockAccepts
<1>2. CASE r.count # NoCount
  <2> DEFINE good == {n \in 1..ZipLength(r) : \A i \in 1..n : GoodPair(r, i)}
  <2>1. ZipLength(r) \in Nat /\ ZipLength(r) <= Len(r.keys) /\ ZipLength(r) <= Len(r.values)
    BY <1>2, ZipLengthNat
  <2>2. IsFiniteSet(1..ZipLength(r)) /\ Cardinality(1..ZipLength(r)) = ZipLength(r)
    BY <2>1, FS_Interval
  <2>3. IsFiniteSet(good) /\ Cardinality(good) <= ZipLength(r)
    BY <2>2, FS_Subset
  <2>4. Cardinality(good) \in Nat
    BY <2>3, FS_CardinalityType
  <2>5. MockLength(r) = Cardinality(good)
    BY <1>2 DEF MockLength
  <2>6. ASSUME MockAccepts(r) PROVE good = 1..ZipLength(r)
    BY <2>1, <2>6 DEF MockAccepts
  <2>7. Len(r.keys) \in Nat /\ Len(r.values) \in Nat
    BY DEF Requests
  <2> HIDE DEF good
  <2> QED
    BY <2>1, <2>2, <2>3, <2>4, <2>5, <2>6, <2>7
<1> QED
  BY <1>1, <1>2

LEMMA CountIsNat ==
  ASSUME NEW r \in Requests, DllAccepts(r) \/ Documented(r)
  PROVE  Count(r) \in Nat
<1>1. Len(r.keys) \in Nat /\ r.count \in Int \cup {NoCount}
  BY DEF Requests
<1> QED
  BY <1>1, NoCountAssumption DEF DllAccepts, Documented, Count

LEMMA DllPairsType ==
  ASSUME NEW r \in Requests, DllAccepts(r)
  PROVE  DllPairs(r) \in Pairs
<1>1. Count(r) \in Nat
  BY CountIsNat
<1>2. r.keys \in Seq(Values) /\ r.values \in Seq(Values)
  BY DEF Requests
<1>3. ASSUME NEW s \in Seq(Values), NEW i \in 1..Count(r) PROVE Entry(s, i) \in Values
  BY <1>1 DEF Entry, Values
<1>4. DllPairs(r) \in [1..Count(r) -> Values \X Values]
  BY <1>2, <1>3 DEF DllPairs
<1> QED
  BY <1>1, <1>4 DEF Pairs

LEMMA MockPairsType ==
  ASSUME NEW r \in Requests
  PROVE  MockPairs(r) \in Pairs
<1>1. MockLength(r) \in Nat /\ MockLength(r) <= Len(r.keys) /\ MockLength(r) <= Len(r.values)
  BY MockLengthBound
<1>2. r.keys \in Seq(Values) /\ r.values \in Seq(Values)
  BY DEF Requests
<1>3. \A i \in 1..MockLength(r) : r.keys[i] \in Values /\ r.values[i] \in Values
  BY <1>1, <1>2
<1>4. MockPairs(r) \in [1..MockLength(r) -> Values \X Values]
  BY <1>3 DEF MockPairs
<1> QED
  BY <1>1, <1>4 DEF Pairs

LEMMA AskedPairsType ==
  ASSUME NEW r \in Requests, Documented(r)
  PROVE  AskedPairs(r) \in Pairs
<1>1. Count(r) \in Nat /\ Count(r) <= Len(r.keys) /\ Count(r) <= Len(r.values)
  <2>1. Len(r.keys) \in Nat /\ Len(r.values) \in Nat /\ r.count \in Int \cup {NoCount}
    BY DEF Requests
  <2> QED
    BY <2>1, NoCountAssumption DEF Documented, Count
<1>2. r.keys \in Seq(Values) /\ r.values \in Seq(Values)
  BY DEF Requests
<1>3. \A i \in 1..Count(r) : r.keys[i] \in Values /\ r.values[i] \in Values
  BY <1>1, <1>2
<1>4. AskedPairs(r) \in [1..Count(r) -> Values \X Values]
  BY <1>3 DEF AskedPairs
<1> QED
  BY <1>1, <1>4 DEF Pairs

\* A documented request that SDKDllInterface accepts reaches the library as the
\* documentation has it, without padding and without a pair left out.
THEOREM DllAsDocumented ==
  ASSUME NEW r \in Requests, Documented(r), DllAccepts(r)
  PROVE  DllPairs(r) = AskedPairs(r)
<1>1. Count(r) \in Nat
  BY CountIsNat
<1>2. Len(r.keys) = Count(r) /\ Len(r.values) = Count(r)
  <2>1. Len(r.keys) \in Nat /\ Len(r.values) \in Nat /\ r.count \in Int \cup {NoCount}
    BY DEF Requests
  <2> QED
    BY <2>1 DEF Documented, DllAccepts, Count
<1>3. \A i \in 1..Count(r) : Entry(r.keys, i) = r.keys[i] /\ Entry(r.values, i) = r.values[i]
  BY <1>1, <1>2 DEF Entry
<1> QED
  BY <1>3 DEF DllPairs, AskedPairs

\* So is one that the mock accepts; hence the two agree on every documented
\* request that both of them accept.
THEOREM MockAsDocumented ==
  ASSUME NEW r \in Requests, Documented(r), MockAccepts(r)
  PROVE  MockPairs(r) = AskedPairs(r)
<1>1. r.count # NoCount
  BY DEF MockAccepts
<1>2. MockLength(r) = Count(r)
  BY <1>1, MockLengthBound, ZipLengthNat DEF Count
<1> QED
  BY <1>2 DEF MockPairs, AskedPairs

\* The mock adds the pairs before the first bad one: all that it looks at if
\* and only if it accepts the request.
THEOREM MockStopsAtFirstBad ==
  ASSUME NEW r \in Requests, r.count # NoCount
  PROVE  /\ \A i \in 1..MockLength(r) : GoodPair(r, i)
         /\ MockLength(r) < ZipLength(r) => ~GoodPair(r, MockLength(r) + 1)
         /\ MockAccepts(r) <=> MockLength(r) = ZipLength(r)
<1> DEFINE n == ZipLength(r)
           good == {k \in 1..n : \A i \in 1..k : GoodPair(r, i)}
           bad == {k \in 1..n : ~GoodPair(r, k)}
<1>1. n \in Nat
  BY ZipLengthNat
<1>2. MockLength(r) = Cardinality(good)
  BY DEF MockLength
<1>3. ASSUME NEW k \in Nat, good = 1..k PROVE MockLength(r) = k
  <2>1. Cardinality(1..k) = IF 1 > k THEN 0 ELSE k - 1 + 1
    BY FS_Interval
  <2>2. Cardinality(1..k) = k
    BY <2>1
  <2> HIDE DEF good
  <2> QED
    BY <1>2, <1>3, <2>2
<1> HIDE DEF n
<1>4. CASE bad = {}
  <2>1. good = 1..n /\ \A i \in 1..n : GoodPair(r, i)
    BY <1>1, <1>4
  <2> HIDE DEF good
  <2> QED
    BY <1>1, <1>3, <2>1 DEF MockAccepts, n
<1>5. CASE bad # {}
  <2>1. PICK b \in bad : \A k \in bad : b <= k
    <3>1. bad \in SUBSET Nat
      BY <1>1
    <3> HIDE DEF bad
    <3> QED
      BY <1>5, <3>1, LeastNatural
  <2>2. b \in 1..n /\ ~GoodPair(r, b) /\ b - 1 \in Nat /\ (b - 1) + 1 = b /\ b - 1 < n
    BY <1>1, <2>1
  <2>3. \A i \in 1..(b - 1) : GoodPair(r, i)
    <3>1. \A i \in 1..(b - 1) : i \in 1..n /\ ~(b <= i)
      BY <1>1, <2>2
    <3> QED
      BY <2>1, <3>1
  <2>4. good = 1..(b - 1)
    <3>1. \A k \in 1..n : k \notin 1..(b - 1) => b \in 1..k
      BY <1>1, <2>2
    <3>2. \A k \in 1..(b - 1) : k \in 1..n /\ \A i \in 1..k : i \in 1..(b - 1)
      BY <1>1, <2>2
    <3> QED
      BY <2>2, <2>3, <3>1, <3>2
  <2>5. MockLength(r) = b - 1
    <3> HIDE DEF good
    <3> QED
      BY <1>3, <2>2, <2>4
  <2>6. ~MockAccepts(r)
    BY <2>2 DEF MockAccepts, n
  <2>7. b - 1 # n
    BY <1>1, <2>2
  <2> QED
    BY <2>2, <2>3, <2>5, <2>6, <2>7 DEF n
<1> QED
  BY <1>4, <1>5

\* What the mock has after it raised is the beginning of what a documented
\* request asks for, and not all of it; the real interface would have nothing.
THEOREM MockRejectsWithPrefix ==
  ASSUME NEW r \in Requests, Documented(r), r.count # NoCount, ~MockAccepts(r)
  PROVE  /\ MockPairs(r) = SubSeq(AskedPairs(r), 1, MockLength(r))
         /\ MockLength(r) < Len(AskedPairs(r))
         /\ ~GoodPair(r, MockLength(r) + 1)
<1>1. ZipLength(r) = Count(r) /\ Count(r) \in Nat
  BY ZipLengthNat, CountIsNat DEF Count
<1>2. MockLength(r) \in Nat /\ MockLength(r) # ZipLength(r) /\ MockLength(r) <= ZipLength(r)
  BY MockLengthBound, MockStopsAtFirstBad
<1>3. MockLength(r) < Count(r)
  BY <1>1, <1>2
<1>4. AskedPairs(r) \in Pairs /\ Len(AskedPairs(r)) = Count(r)
  BY <1>1, AskedPairsType DEF AskedPairs
<1>5. \A i \in 1..MockLength(r) : MockPairs(r)[i] = AskedPairs(r)[i]
  BY <1>1, <1>2, <1>3 DEF MockPairs, AskedPairs
<1>6. MockPairs(r) \in Pairs /\ Len(MockPairs(r)) = MockLength(r)
  BY <1>2, MockPairsType DEF MockPairs
<1>7. MockPairs(r) = SubSeq(AskedPairs(r), 1, MockLength(r))
  <2> DEFINE asked == AskedPairs(r)
             has == MockPairs(r)
             m == MockLength(r)
  <2>1. /\ asked \in Seq(Values \X Values) /\ has \in Seq(Values \X Values)
        /\ m \in Nat /\ m < Len(asked) /\ Len(has) = m /\ \A i \in 1..m : has[i] = asked[i]
    BY <1>2, <1>3, <1>4, <1>5, <1>6 DEF Pairs
  <2> HIDE DEF asked, has, m
  <2>2. /\ SubSeq(asked, 1, m) \in Seq(Values \X Values) /\ Len(SubSeq(asked, 1, m)) = m
        /\ \A i \in 1..m : SubSeq(asked, 1, m)[i] = asked[i]
    BY <2>1
  <2>3. has = SubSeq(asked, 1, m)
    BY <2>1, <2>2, SeqEqual
  <2> QED
    BY <2>3 DEF asked, has, m
<1> QED
  BY <1>1, <1>3, <1>4, <1>7, MockStopsAtFirstBad

-----------------------------------------------------------------------------
(* Requests of the application *)

LEMMA RequestsOfArguments ==
  ASSUME NEW arg \in Arguments
  PROVE  GetKvc(arg) \in Requests /\ AddKvs(arg) \in Requests
<1>1. arg.keys \in Seq(Values) /\ arg.values \in Seq(Values) /\ arg.count \in Int \cup {NoCount}
  BY ArgumentsAssumption
<1>2. Len(arg.keys) \in Int
  BY <1>1
<1> QED
  BY <1>1, <1>2 DEF GetKvc, AddKvs, Requests

LEMMA RequestOfSingle ==
  ASSUME NEW p \in Singles
  PROVE  Single(p) \in Requests
<1>1. p[1] \in Values /\ p[2] \in Values
  BY SinglesAssumption
<1>2. <<p[1]>> \in Seq(Values) /\ <<p[2]>> \in Seq(Values)
  BY <1>1
<1> QED
  BY <1>2 DEF Single, Requests

LEMMA ArrivingType ==
  ASSUME NEW r \in Requests, iface \in {"dll", "mock", "null"}
  PROVE  /\ Arriving(r) \in Pairs
         /\ Accepts(r) => Asked(r) \in Pairs
         /\ Accepts(r) => Asked(r) = Arriving(r)
<1>1. <<>> \in Pairs
  BY DEF Pairs
<1>2. Arriving(r) \in Pairs
  BY <1>1, DllPairsType, MockPairsType DEF Arriving
<1>3. ASSUME Accepts(r) PROVE Asked(r) = Arriving(r)
  BY <1>3, DllAsDocumented, MockAsDocumented DEF Accepts, Asked, Arriving
<1> QED
  BY <1>2, <1>3

-----------------------------------------------------------------------------
(* Types *)

LEMMA TellPairsType ==
  ASSUME TypeOK, NEW x \in Tracers, NEW y \in Tracers, NEW f \in PairFields, NEW r \in Requests,
         TellPairs(x, y, f, r)
  PROVE  /\ pairs' \in [Tracers -> [PairFields -> Pairs]]
         /\ askedPairs' \in [Tracers -> [PairFields -> Pairs]]
         /\ spilled' \subseteq Tracers
         /\ told' \in Nat
<1>1. Arriving(r) \in Pairs /\ (Accepts(r) => Asked(r) \in Pairs)
  BY ArrivingType DEF TypeOK
<1>2. pairs[y][f] \o Arriving(r) \in Pairs
  BY <1>1 DEF TypeOK, Pairs
<1>3. Accepts(r) => askedPairs[x][f] \o Asked(r) \in Pairs
  BY <1>1 DEF TypeOK, Pairs
<1>4. pairs' \in [Tracers -> [PairFields -> Pairs]]
  BY <1>2 DEF TypeOK, TellPairs
<1>5. askedPairs' \in [Tracers -> [PairFields -> Pairs]]
  <2>1. CASE Accepts(r)
    BY <1>3, <2>1 DEF TypeOK, TellPairs
  <2>2. CASE ~Accepts(r)
    BY <2>2 DEF TypeOK, TellPairs
  <2> QED
    BY <2>1, <2>2
<1> QED
  BY <1>4, <1>5 DEF TypeOK, TellPairs, Tell

LEMMA MadeType ==
  ASSUME TypeOK, NEW x \in Tracers, NEW k \in Kinds, NEW h \in Handles \cup {NullHandle, NoHandle},
         Made(x, k, h)
  PROVE  /\ kind' \in [Tracers -> Kinds \cup {"none"}]
         /\ handle' \in [Tracers -> Handles \cup {NullHandle, NoHandle}]
         /\ kind'[x] # "none"
         /\ \A y \in Tracers : y # x => kind'[y] = kind[y] /\ handle'[y] = handle[y]
  BY DEF TypeOK, Made, Kinds

\* The variables of the life of a tracer after it was made.
LifeTyped ==
  /\ kind' \in [Tracers -> Kinds \cup {"none"}]
  /\ handle' \in [Tracers -> Handles \cup {NullHandle, NoHandle}]
  /\ lost' \subseteq Tracers
  /\ owner' \in [Handles -> Tracers \cup {NoTracer}]
  /\ state' \in [Tracers -> {"none", "created", "started", "ended"}]
  /\ \A x \in Tracers :
       kind'[x] = "none" => state'[x] = "none" /\ handle'[x] = NoHandle /\ x \notin lost'
  /\ \A h \in Handles : owner'[h] # NoTracer => kind'[owner'[h]] # "none"

LEMMA NewObjectType ==
  ASSUME TypeOK, NEW x \in Tracers, NEW k \in Kinds, NEW h \in Handles, NewObject(x, k, h),
         lost' \in {lost, lost \cup {x}}
  PROVE  LifeTyped
<1>1. /\ kind' \in [Tracers -> Kinds \cup {"none"}]
      /\ handle' \in [Tracers -> Handles \cup {NullHandle, NoHandle}]
      /\ kind'[x] # "none"
      /\ \A y \in Tracers : y # x => kind'[y] = kind[y] /\ handle'[y] = handle[y]
  BY MadeType DEF NewObject
<1>2. /\ owner' \in [Handles -> Tracers \cup {NoTracer}]
      /\ state' \in [Tracers -> {"none", "created", "started", "ended"}]
      /\ \A y \in Tracers : y # x => state'[y] = state[y]
  BY DEF NewObject, TypeOK
<1>3. \A g \in Handles : owner'[g] # NoTracer => kind'[owner'[g]] # "none"
  <2>1. \A g \in Handles : g # h => owner'[g] = owner[g]
    BY DEF NewObject, TypeOK
  <2>2. owner'[h] = x
    BY DEF NewObject, TypeOK
  <2>3. ASSUME NEW g \in Handles, g # h, owner[g] # NoTracer PROVE kind'[owner[g]] # "none"
    <3>1. owner[g] \in Tracers /\ kind[owner[g]] # "none"
      BY <2>3 DEF TypeOK
    <3> QED
      BY <1>1, <3>1
  <2> QED
    BY <1>1, <2>1, <2>2, <2>3
<1> QED
  BY <1>1, <1>2, <1>3 DEF LifeTyped, TypeOK

LEMMA ReachedObject ==
  ASSUME TypeOK, NEW x \in Tracers, Reaches(x)
  PROVE  handle[x] \in Handles /\ Object(x) \in Tracers
  BY DEF TypeOK, Reaches, Object

LEMMA SetText ==
  ASSUME TypeOK, NEW x \in Tracers, NEW f \in TextFields, NEW v \in Values,
         \/ UNCHANGED textVars
         \/ /\ text' = [text EXCEPT ![x][f] = {v}]
            /\ askedText' = [askedText EXCEPT ![x][f] = {v}]
  PROVE  /\ text' \in [Tracers -> [TextFields -> SUBSET Values]]
         /\ askedText' \in [Tracers -> [TextFields -> SUBSET Values]]
<1>1. {v} \in SUBSET Values
  OBVIOUS
<1>2. CASE UNCHANGED textVars
  BY <1>2 DEF TypeOK, textVars
<1>3. CASE /\ text' = [text EXCEPT ![x][f] = {v}]
           /\ askedText' = [askedText EXCEPT ![x][f] = {v}]
  <2> DEFINE e == {v}
             TV == SUBSET Values
  <2>1. e \in TV
    BY <1>1
  <2>2. text' = [text EXCEPT ![x][f] = e] /\ askedText' = [askedText EXCEPT ![x][f] = e]
    BY <1>3
  <2>3. text \in [Tracers -> [TextFields -> TV]] /\ askedText \in [Tracers -> [TextFields -> TV]]
    BY DEF TypeOK
  <2> HIDE DEF e, TV
  <2>4. text' \in [Tracers -> [TextFields -> TV]] /\ askedText' \in [Tracers -> [TextFields -> TV]]
    BY <2>1, <2>2, <2>3
  <2> QED
    BY <2>4 DEF TV
<1> QED
  BY <1>2, <1>3

\* The stack without its last element.
LEMMA WithoutLast ==
  ASSUME NEW A, NEW s \in Seq(A), s # <<>>
  PROVE  /\ SubSeq(s, 1, Len(s) - 1) \in Seq(A)
         /\ \A i \in 1..Len(SubSeq(s, 1, Len(s) - 1)) :
              i \in 1..Len(s) /\ SubSeq(s, 1, Len(s) - 1)[i] = s[i]
<1> DEFINE m == Len(s) - 1
           p == SubSeq(s, 1, m)
<1>1. Len(s) \in Nat /\ Len(s) # 0
  OBVIOUS
<1>2. \A i \in 1..m : s[i] \in A
  BY <1>1
<1>3. /\ p \in Seq(A)
      /\ Len(p) = IF 1 <= m THEN m - 1 + 1 ELSE 0
      /\ \A i \in 1..(m - 1 + 1) : p[i] = s[1 + i - 1]
  BY <1>1, <1>2, SubSeqProperties
<1>4. m \in Nat /\ m <= Len(s)
  BY <1>1
<1> HIDE DEF m, p
<1>5. Len(p) = m
  BY <1>3, <1>4
<1>6. \A i \in 1..Len(p) : i \in 1..Len(s) /\ p[i] = s[i]
  BY <1>1, <1>3, <1>4, <1>5
<1> QED
  BY <1>3, <1>6 DEF m, p

LEMMA EndType ==
  ASSUME TypeOK, NEW x \in Tracers, End(x)
  PROVE  TypeOK'
<1> USE DEF pairVars, numberVars, textVars, tagVars
<1>1. kind[x] # "none"
  BY HandlesAssumption DEF End, Reaches, TypeOK
<1>2. /\ handle' \in [Tracers -> Handles \cup {NullHandle, NoHandle}]
      /\ \A y \in Tracers : y # x => handle'[y] = handle[y]
  BY DEF End, HandleAfterEnd, TypeOK
<1>3. CASE handle[x] = NullHandle /\ UNCHANGED <<owner, state, stack>>
  BY <1>1, <1>2, <1>3 DEF End, TypeOK
<1>4. CASE /\ Reaches(x)
           /\ Release(Object(x))
           /\ owner' = [owner EXCEPT ![handle[x]] = NoTracer]
  <2>1. owner' \in [Handles -> Tracers \cup {NoTracer}]
    BY <1>4, ReachedObject DEF TypeOK
  <2>2. stack' \in Seq(Tracers)
    <3>1. stack \in Seq(Tracers)
      BY DEF TypeOK
    <3>2. stack # <<>> => SubSeq(stack, 1, Len(stack) - 1) \in Seq(Tracers)
      BY <3>1, WithoutLast
    <3> QED
      BY <1>4, <3>1, <3>2 DEF Release
  <2>3. state' \in [Tracers -> {"none", "created", "started", "ended"}]
    BY <1>4 DEF Release, TypeOK
  <2>4. \A y \in Tracers : kind[y] = "none" => state'[y] = state[y]
    <3>1. kind[Object(x)] # "none" /\ Object(x) \in Tracers
      BY <1>4, ReachedObject DEF Reaches, Object, TypeOK
    <3> QED
      BY <1>4, <3>1 DEF Release, TypeOK
  <2>5. \A h \in Handles : owner'[h] \in {owner[h], NoTracer}
    BY <1>4, ReachedObject DEF TypeOK
  <2> QED
    BY <1>1, <1>2, <2>1, <2>2, <2>3, <2>4, <2>5 DEF End, TypeOK
<1> QED
  BY <1>3, <1>4 DEF End

LEMMA TypeOKInit == Init => TypeOK
<1> SUFFICES ASSUME Init PROVE TypeOK
  OBVIOUS
<1>1. <<>> \in Pairs /\ <<>> \in Seq(Tracers)
  BY DEF Pairs
<1> QED
  BY <1>1 DEF Init, TypeOK, Untold, Nothing

LEMMA TypeOKStep == TypeOK /\ [Next]_vars => TypeOK'
<1> SUFFICES ASSUME TypeOK, [Next]_vars PROVE TypeOK'
  OBVIOUS
<1> USE DEF pairVars, numberVars, textVars, tagVars
<1>1. ASSUME NEW x \in Tracers, NEW k \in Kinds, Reject(x, k) PROVE TypeOK'
  <2>1. /\ kind' \in [Tracers -> Kinds \cup {"none"}]
        /\ handle' \in [Tracers -> Handles \cup {NullHandle, NoHandle}]
        /\ kind'[x] # "none"
        /\ \A y \in Tracers : y # x => kind'[y] = kind[y] /\ handle'[y] = handle[y]
    BY <1>1, MadeType DEF Reject
  <2>2. lost' \subseteq Tracers /\ \A y \in Tracers : y # x /\ y \in lost' => y \in lost
    BY <1>1 DEF Reject, TypeOK
  <2>3. ASSUME NEW h \in Handles, owner[h] # NoTracer PROVE kind'[owner[h]] # "none"
    <3>1. owner[h] \in Tracers /\ kind[owner[h]] # "none"
      BY <2>3 DEF TypeOK
    <3> QED
      BY <2>1, <3>1
  <2>4. \A y \in Tracers :
          kind'[y] = "none" => state'[y] = "none" /\ handle'[y] = NoHandle /\ y \notin lost'
    BY <1>1, <2>1, <2>2 DEF Reject, TypeOK
  <2> QED
    BY <1>1, <2>1, <2>2, <2>3, <2>4 DEF Reject, TypeOK
<1>2. ASSUME NEW x \in Tracers, NEW k \in Kinds, NEW h \in Handles, CreatePlain(x, k, h)
      PROVE  TypeOK'
  <2>1. LifeTyped
    BY <1>2, NewObjectType DEF CreatePlain
  <2> QED
    BY <1>2, <2>1 DEF CreatePlain, LifeTyped, TypeOK
<1>3. ASSUME NEW x \in Tracers, NEW k \in Kinds, NEW h \in Handles, NEW v \in Texts,
             CreateCall(x, k, h, v)
      PROVE  TypeOK'
  <2>1. LifeTyped
    BY <1>3, NewObjectType DEF CreateCall
  <2>2. /\ text' \in [Tracers -> [TextFields -> SUBSET Values]]
        /\ askedText' \in [Tracers -> [TextFields -> SUBSET Values]]
    <3>1. v \in Values /\ "protocol" \in TextFields
      BY TextsAssumption DEF TextFields
    <3>2. \/ UNCHANGED textVars
          \/ /\ text' = [text EXCEPT ![x]["protocol"] = {v}]
             /\ askedText' = [askedText EXCEPT ![x]["protocol"] = {v}]
      BY <1>3 DEF CreateCall
    <3> QED
      BY <3>1, <3>2, SetText
  <2> QED
    BY <1>3, <2>1, <2>2 DEF CreateCall, Tell, LifeTyped, TypeOK
<1>4. ASSUME NEW x \in Tracers, NEW k \in Kinds, NEW h \in Handles, NEW arg \in Arguments,
             NEW v \in Texts, CreateWeb(x, k, h, arg, v)
      PROVE  TypeOK'
  <2>1. LifeTyped
    <3> DEFINE raises == WebFactoryRaises(k, v, GetKvc(arg))
    <3>1. CASE ~raises
      BY <1>4, <3>1, NewObjectType DEF CreateWeb, MadeOrEnded
    <3>2. CASE raises
      <4>1. /\ Made(x, k, HandleAfterEnd(h)) /\ HandleAfterEnd(h) = NoHandle
            /\ state' = [state EXCEPT ![x] = "ended"]
            /\ lost' = lost \cup {x} /\ owner' = owner
        BY <1>4, <3>2 DEF CreateWeb, MadeOrEnded, HandleAfterEnd
      <4>2. /\ kind' \in [Tracers -> Kinds \cup {"none"}]
            /\ handle' \in [Tracers -> Handles \cup {NullHandle, NoHandle}]
            /\ kind'[x] # "none"
            /\ \A y \in Tracers : y # x => kind'[y] = kind[y] /\ handle'[y] = handle[y]
        BY <4>1, MadeType
      <4> QED
        BY <4>1, <4>2 DEF LifeTyped, TypeOK
    <3> QED
      BY <3>1, <3>2
  <2>2. /\ text' \in [Tracers -> [TextFields -> SUBSET Values]]
        /\ askedText' \in [Tracers -> [TextFields -> SUBSET Values]]
    <3>1. v \in Values /\ "address" \in TextFields
      BY TextsAssumption DEF TextFields
    <3>2. \/ UNCHANGED textVars
          \/ /\ text' = [text EXCEPT ![x]["address"] = {v}]
             /\ askedText' = [askedText EXCEPT ![x]["address"] = {v}]
      BY <1>4 DEF CreateWeb
    <3> QED
      BY <3>1, <3>2, SetText
  <2>3. GetKvc(arg) \in Requests /\ "request" \in PairFields
    BY RequestsOfArguments DEF PairFields
  <2>4. TellPairs(x, x, "request", GetKvc(arg))
    BY <1>4 DEF CreateWeb
  <2>5. /\ pairs' \in [Tracers -> [PairFields -> Pairs]]
        /\ askedPairs' \in [Tracers -> [PairFields -> Pairs]]
        /\ spilled' \subseteq Tracers
        /\ told' \in Nat
    BY <2>3, <2>4, TellPairsType
  <2> QED
    BY <1>4, <2>1, <2>2, <2>5 DEF CreateWeb, LifeTyped, TypeOK
<1>5. ASSUME NEW x \in Tracers, NEW y \in Tracers, NEW f \in PairFields, NEW r \in Requests,
             TellPairs(x, y, f, r), UNCHANGED <<iface, lifeVars, numberVars, textVars, tagVars>>
      PROVE  TypeOK'
  <2>1. /\ pairs' \in [Tracers -> [PairFields -> Pairs]]
        /\ askedPairs' \in [Tracers -> [PairFields -> Pairs]]
        /\ spilled' \subseteq Tracers
        /\ told' \in Nat
    BY <1>5, TellPairsType
  <2> QED
    BY <1>5, <2>1 DEF TypeOK, lifeVars
<1>6. ASSUME NEW x \in Tracers, NEW f \in PairFields, NEW arg \in Arguments, AddPairs(x, f, arg)
      PROVE  TypeOK'
  BY <1>5, <1>6, RequestsOfArguments, ReachedObject DEF AddPairs
<1>7. ASSUME NEW x \in Tracers, NEW f \in PairFields, NEW p \in Singles, AddPair(x, f, p)
      PROVE  TypeOK'
  BY <1>5, <1>7, RequestOfSingle, ReachedObject DEF AddPair
<1>8. ASSUME NEW x \in Tracers, NEW f \in NumberFields, NEW n \in Numbers, SetNumber(x, f, n)
      PROVE  TypeOK'
  <2>1. n \in Int /\ StoredNumber(n) \in Int
    BY NumbersAssumption, CIntInt DEF StoredNumber
  <2>2. /\ number' \in [Tracers -> [NumberFields -> SUBSET Int]]
        /\ askedNumber' \in [Tracers -> [NumberFields -> SUBSET Int]]
    BY <1>8, <2>1 DEF SetNumber, TypeOK
  <2> QED
    BY <1>8, <2>2 DEF SetNumber, Tell, TypeOK, lifeVars
<1>9. ASSUME NEW x \in Tracers, NEW f \in TextFields, NEW v \in Texts, SetMessageId(x, f, v)
      PROVE  TypeOK'
  <2>1. /\ text' \in [Tracers -> [TextFields -> SUBSET Values]]
        /\ askedText' \in [Tracers -> [TextFields -> SUBSET Values]]
    BY <1>9, TextsAssumption DEF SetMessageId, TypeOK
  <2> QED
    BY <1>9, <2>1 DEF SetMessageId, Tell, TypeOK, lifeVars
<1>10. ASSUME NEW x \in Tracers, Start(x) PROVE TypeOK'
  <2>1. Object(x) \in Tracers /\ state[Object(x)] = "created"
    BY <1>10, ReachedObject DEF Start
  <2>2. stack' \in Seq(Tracers)
    BY <1>10, <2>1 DEF Start, TypeOK
  <2>3. /\ state' \in [Tracers -> {"none", "created", "started", "ended"}]
        /\ \A y \in Tracers : state[y] = "none" => state'[y] = "none"
    BY <1>10, <2>1 DEF Start, TypeOK
  <2> QED
    BY <1>10, <2>2, <2>3 DEF Start, TypeOK
<1>11. ASSUME NEW x \in Tracers, End(x) PROVE TypeOK'
  BY <1>11, EndType
<1>12. ASSUME NEW n \in LengthsNow, Fill(n) PROVE TypeOK'
  <2>1. n \in Nat
    BY TagSizesAssumption DEF LengthsNow
  <2> QED
    BY <1>12, <2>1 DEF Fill, TypeOK, lifeVars, Answers, Tags, Nothing, BytesWritten
<1>13. ASSUME NEW g \in Getters, AskSize(g) PROVE TypeOK'
  <2>1. PICK n \in LengthsNow : \E size \in SizesOf(g, n) :
          getting' = [of |-> g, first |-> n, size |-> size]
    BY <1>13 DEF AskSize
  <2>2. PICK size \in SizesOf(g, n) : getting' = [of |-> g, first |-> n, size |-> size]
    BY <2>1
  <2>3. n \in Nat /\ size \in Nat
    BY TagSizesAssumption DEF LengthsNow, SizesOf
  <2> QED
    BY <1>13, <2>2, <2>3 DEF AskSize, Tell, TypeOK, lifeVars, Answers, Nothing
<1>14. ASSUME NEW x \in Tracers, NEW g \in Getters, NullTag(x, g) PROVE TypeOK'
  BY <1>14 DEF NullTag, TypeOK, lifeVars, Tags
<1>15. CASE UNCHANGED vars
  BY <1>15 DEF vars, TypeOK, lifeVars
<1> QED
  BY <1>1, <1>2, <1>3, <1>4, <1>6, <1>7, <1>8, <1>9, <1>10, <1>11, <1>12, <1>13, <1>14, <1>15
     DEF Next

\* Every reachable state is well typed.
THEOREM TypeCorrect == Spec => []TypeOK
<1>1. Init => TypeOK
  BY TypeOKInit
<1>2. TypeOK /\ [Next]_vars => TypeOK'
  BY TypeOKStep
<1> QED
  BY <1>1, <1>2, PTL DEF Spec

-----------------------------------------------------------------------------
(* Handles *)

LEMMA NewObjectOwn ==
  ASSUME TypeOK, HandlesAreOwn, NEW x \in Tracers, NEW k \in Kinds, NEW h \in Handles,
         NewObject(x, k, h),
         \/ lost' = lost
         \/ lost' = lost \cup {x} /\ k \in {"incall", "outcall"}
  PROVE  HandlesAreOwn'
<1>1. /\ kind[x] = "none" /\ handle[x] = NoHandle /\ x \notin lost /\ owner[h] = NoTracer
      /\ kind'[x] = k /\ handle'[x] = h /\ state'[x] = "created" /\ owner'[h] = x
      /\ \A y \in Tracers : y # x => /\ kind'[y] = kind[y] /\ handle'[y] = handle[y]
                                     /\ state'[y] = state[y]
      /\ \A g \in Handles : g # h => owner'[g] = owner[g]
  BY DEF NewObject, FreeHandle, Made, TypeOK
<1>2. ASSUME NEW y \in Tracers
      PROVE  /\ handle'[y] \in Handles <=> state'[y] \in {"created", "started"}
             /\ handle'[y] \in Handles => owner'[handle'[y]] = y
             /\ y \in lost' => handle'[y] = NoHandle \/ kind'[y] \in {"incall", "outcall"}
  <2>1. CASE y = x
    BY <1>1, <2>1
  <2>2. CASE y # x
    <3>1. handle[y] \in Handles => owner[handle[y]] = y /\ handle[y] # h
      BY <1>1, NoTracerAssumption DEF HandlesAreOwn, Object
    <3> QED
      BY <1>1, <2>2, <3>1 DEF HandlesAreOwn, Object
  <2> QED
    BY <2>1, <2>2
<1>3. ASSUME NEW g \in Handles, owner'[g] # NoTracer PROVE handle'[owner'[g]] = g
  <2>1. CASE g = h
    BY <1>1, <2>1
  <2>2. CASE g # h
    <3>1. owner'[g] = owner[g] /\ owner[g] \in Tracers /\ handle[owner[g]] = g
      BY <1>1, <1>3, <2>2 DEF HandlesAreOwn, TypeOK
    <3>2. owner[g] # x
      BY <1>1, <3>1, HandlesAssumption
    <3> QED
      BY <1>1, <3>1, <3>2
  <2> QED
    BY <2>1, <2>2
<1> QED
  BY <1>2, <1>3 DEF HandlesAreOwn, Object

\* A step that gives x a handle that is none, and no object, or ends its object.
LEMMA NoObjectOwn ==
  ASSUME TypeOK, HandlesAreOwn, NEW x \in Tracers,
         handle'[x] \in {NullHandle, NoHandle}, state'[x] \notin {"created", "started"},
         \A y \in Tracers : y # x => kind'[y] = kind[y] /\ handle'[y] = handle[y] /\ state'[y] = state[y],
         \A g \in Handles : owner'[g] = IF g = handle[x] THEN NoTracer ELSE owner[g],
         lost' \subseteq lost \cup {x},
         x \in lost' => handle'[x] = NoHandle \/ kind'[x] \in {"incall", "outcall"}
  PROVE  HandlesAreOwn'
<1>1. ASSUME NEW y \in Tracers
      PROVE  /\ handle'[y] \in Handles <=> state'[y] \in {"created", "started"}
             /\ handle'[y] \in Handles => owner'[handle'[y]] = y
             /\ y \in lost' => handle'[y] = NoHandle \/ kind'[y] \in {"incall", "outcall"}
  <2>1. CASE y = x
    BY <2>1, HandlesAssumption
  <2>2. CASE y # x
    <3>1. handle[y] \in Handles => owner[handle[y]] = y
      BY DEF HandlesAreOwn, Object
    <3>2. handle[y] \in Handles => handle[y] # handle[x]
      BY <2>2, <3>1 DEF HandlesAreOwn, Object
    <3> QED
      BY <2>2, <3>1, <3>2 DEF HandlesAreOwn
  <2> QED
    BY <2>1, <2>2
<1>2. ASSUME NEW g \in Handles, owner'[g] # NoTracer PROVE handle'[owner'[g]] = g
  <2>1. owner'[g] = owner[g] /\ g # handle[x] /\ owner[g] \in Tracers /\ handle[owner[g]] = g
    BY <1>2 DEF HandlesAreOwn, TypeOK
  <2> QED
    BY <2>1
<1> QED
  BY <1>1, <1>2 DEF HandlesAreOwn, Object

\* A Tracer has no handle but that of its own living object, so that what it is
\* told reaches that object or none, however handles are used again.
THEOREM HandlesKept == Spec => []HandlesAreOwn
<1>1. Init => HandlesAreOwn
  BY HandlesAssumption DEF Init, HandlesAreOwn, Object
<1>2. TypeOK /\ HandlesAreOwn /\ [Next]_vars => HandlesAreOwn'
  <2> SUFFICES ASSUME TypeOK, HandlesAreOwn, [Next]_vars PROVE HandlesAreOwn'
    OBVIOUS
  <2>1. ASSUME UNCHANGED lifeVars PROVE HandlesAreOwn'
    BY <2>1 DEF lifeVars, HandlesAreOwn, Object
  <2>2. ASSUME NEW x \in Tracers, NEW k \in Kinds, Reject(x, k) PROVE HandlesAreOwn'
    <3>1. handle[x] = NoHandle /\ x \notin lost /\ state[x] = "none"
      BY <2>2 DEF Reject, TypeOK
    <3>2. /\ handle'[x] = NullHandle /\ kind'[x] = k
          /\ \A y \in Tracers : y # x => kind'[y] = kind[y] /\ handle'[y] = handle[y]
      BY <2>2 DEF Reject, Made, TypeOK
    <3>3. /\ lost' \subseteq lost \cup {x}
          /\ x \in lost' => kind'[x] \in {"incall", "outcall"}
      BY <2>2, <3>1, <3>2 DEF Reject
    <3>4. state' = state /\ \A g \in Handles : owner'[g] = IF g = handle[x] THEN NoTracer ELSE owner[g]
      BY <2>2, <3>1, HandlesAssumption DEF Reject
    <3> QED
      BY <3>1, <3>2, <3>3, <3>4, NoObjectOwn
  <2>3. ASSUME NEW x \in Tracers, NEW k \in Kinds, NEW h \in Handles, CreatePlain(x, k, h)
        PROVE  HandlesAreOwn'
    BY <2>3, NewObjectOwn DEF CreatePlain
  <2>4. ASSUME NEW x \in Tracers, NEW k \in Kinds, NEW h \in Handles, NEW v \in Texts,
               CreateCall(x, k, h, v)
        PROVE  HandlesAreOwn'
    BY <2>4, NewObjectOwn DEF CreateCall
  <2>5. ASSUME NEW x \in Tracers, NEW k \in Kinds, NEW h \in Handles, NEW arg \in Arguments,
               NEW v \in Texts, CreateWeb(x, k, h, arg, v)
        PROVE  HandlesAreOwn'
    <3>1. CASE ~WebFactoryRaises(k, v, GetKvc(arg))
      BY <2>5, <3>1, NewObjectOwn DEF CreateWeb, MadeOrEnded
    <3>2. CASE WebFactoryRaises(k, v, GetKvc(arg))
      <4>1. /\ kind[x] = "none" /\ Made(x, k, NoHandle) /\ state' = [state EXCEPT ![x] = "ended"]
            /\ lost' = lost \cup {x} /\ owner' = owner
        BY <2>5, <3>2 DEF CreateWeb, MadeOrEnded, HandleAfterEnd
      <4>2. /\ handle[x] = NoHandle /\ handle'[x] = NoHandle /\ state'[x] = "ended"
            /\ \A y \in Tracers : y # x => /\ kind'[y] = kind[y] /\ handle'[y] = handle[y]
                                           /\ state'[y] = state[y]
        BY <4>1 DEF Made, TypeOK
      <4>3. \A g \in Handles : owner'[g] = IF g = handle[x] THEN NoTracer ELSE owner[g]
        BY <4>1, <4>2, HandlesAssumption
      <4> QED
        BY <4>1, <4>2, <4>3, NoObjectOwn
    <3> QED
      BY <3>1, <3>2
  <2>6. ASSUME NEW x \in Tracers, Start(x) PROVE HandlesAreOwn'
    <3>1. Object(x) \in Tracers /\ state[Object(x)] = "created"
      BY <2>6, ReachedObject DEF Start
    <3>2. \A y \in Tracers : state'[y] \in {"created", "started"} <=> state[y] \in {"created", "started"}
      BY <2>6, <3>1 DEF Start, TypeOK
    <3> QED
      BY <2>6, <3>2 DEF Start, HandlesAreOwn, Object
  <2>7. ASSUME NEW x \in Tracers, End(x) PROVE HandlesAreOwn'
    <3>1. x \notin lost \/ handle[x] = NullHandle
      BY <2>7 DEF End, Reaches
    <3>2. /\ handle'[x] = NoHandle /\ kind' = kind /\ lost' = lost
          /\ \A y \in Tracers : y # x => handle'[y] = handle[y]
      BY <2>7 DEF End, HandleAfterEnd, TypeOK
    <3>3. CASE handle[x] = NullHandle /\ UNCHANGED <<owner, state, stack>>
      <4>1. state'[x] \notin {"created", "started"}
        BY <3>3, HandlesAssumption DEF HandlesAreOwn
      <4>2. \A g \in Handles : owner'[g] = IF g = handle[x] THEN NoTracer ELSE owner[g]
        BY <3>3, HandlesAssumption
      <4> QED
        BY <3>2, <3>3, <4>1, <4>2, NoObjectOwn
    <3>4. CASE /\ Reaches(x)
               /\ Release(Object(x))
               /\ owner' = [owner EXCEPT ![handle[x]] = NoTracer]
      <4>1. handle[x] \in Handles /\ Object(x) = x
        BY <3>4 DEF Reaches, HandlesAreOwn
      <4>2. state' = [state EXCEPT ![x] = "ended"]
        BY <3>4, <4>1 DEF Release
      <4>3. state'[x] = "ended" /\ \A y \in Tracers : y # x => state'[y] = state[y]
        BY <4>2 DEF TypeOK
      <4>4. \A g \in Handles : owner'[g] = IF g = handle[x] THEN NoTracer ELSE owner[g]
        BY <3>4 DEF TypeOK
      <4> QED
        BY <3>2, <4>3, <4>4, NoObjectOwn
    <3> QED
      BY <2>7, <3>3, <3>4 DEF End
  <2>8. CASE Next
    BY <2>1, <2>2, <2>3, <2>4, <2>5, <2>6, <2>7, <2>8
       DEF Next, AddPairs, AddPair, SetNumber, SetMessageId, NullTag, AskSize, Fill
  <2>9. CASE UNCHANGED vars
    BY <2>1, <2>9 DEF vars
  <2> QED
    BY <2>8, <2>9
<1> QED
  BY <1>1, <1>2, TypeCorrect, PTL DEF Spec

\* A call reaches the object of the Tracer it is a call on.
LEMMA ReachedIsOwn ==
  ASSUME HandlesAreOwn, NEW x \in Tracers, Reaches(x)
  PROVE  Object(x) = x
  BY DEF HandlesAreOwn, Reaches

-----------------------------------------------------------------------------
(* What accepted calls ask for arrives *)

LEMMA TellPairsArrive ==
  ASSUME TypeOK, AcceptedArrive, NEW x \in Tracers, NEW f \in PairFields, NEW r \in Requests,
         TellPairs(x, x, f, r), UNCHANGED iface, NEW y \in Tracers
  PROVE  iface' # "mock" \/ y \notin spilled' => pairs'[y] = askedPairs'[y]
<1>1. /\ Accepts(r) => Asked(r) = Arriving(r)
      /\ Arriving(r) \in Pairs
  BY ArrivingType DEF TypeOK
<1>2. iface # "mock" /\ ~Accepts(r) => Arriving(r) = <<>>
  BY DEF Accepts, Arriving
<1>3. SUFFICES ASSUME iface # "mock" \/ y \notin spilled' PROVE pairs'[y] = askedPairs'[y]
  OBVIOUS
<1>4. pairs[y] = askedPairs[y]
  BY <1>3 DEF AcceptedArrive, TellPairs
<1>5. CASE Accepts(r)
  BY <1>1, <1>4, <1>5 DEF TellPairs, TypeOK
<1>6. CASE ~Accepts(r) /\ Arriving(r) = <<>>
  <2>1. pairs[x][f] \o <<>> = pairs[x][f]
    BY DEF TypeOK, Pairs
  <2>2. pairs'[y] = pairs[y]
    BY <1>6, <2>1 DEF TellPairs, TypeOK
  <2> QED
    BY <1>4, <1>6, <2>2 DEF TellPairs
<1>7. CASE ~Accepts(r) /\ Arriving(r) # <<>>
  <2>1. iface = "mock" /\ x # y
    BY <1>2, <1>3, <1>7 DEF TellPairs
  <2> QED
    BY <1>4, <1>7, <2>1 DEF TellPairs, TypeOK
<1> QED
  BY <1>5, <1>6, <1>7

LEMMA SetTextArrives ==
  ASSUME TypeOK, AcceptedArrive, NEW x \in Tracers, NEW f \in TextFields, NEW v \in Values,
         \/ UNCHANGED textVars
         \/ /\ text' = [text EXCEPT ![x][f] = {v}]
            /\ askedText' = [askedText EXCEPT ![x][f] = {v}],
         NEW y \in Tracers, ~Dropped(y)
  PROVE  text'[y] = askedText'[y]
<1>1. text[y] = askedText[y]
  BY DEF AcceptedArrive
<1>2. CASE UNCHANGED textVars
  BY <1>1, <1>2 DEF textVars
<1>3. CASE /\ text' = [text EXCEPT ![x][f] = {v}]
           /\ askedText' = [askedText EXCEPT ![x][f] = {v}]
  BY <1>1, <1>3 DEF TypeOK
<1> QED
  BY <1>2, <1>3

\* A tracer of which ids would be dropped was not made by this step.
LEMMA MadeKeepsDropped ==
  ASSUME TypeOK, NEW x \in Tracers, NEW k \in Kinds, NEW h, kind[x] = "none", Made(x, k, h),
         UNCHANGED iface, NEW y \in Tracers, ~Dropped(y)'
  PROVE  ~Dropped(y)
  BY DEF TypeOK, Made, Dropped

\* What a tracer was told is on the other side of the interface, unless a call
\* on the mock raised halfway.
THEOREM CallsArrive == Spec => []AcceptedArrive
<1>1. Init => AcceptedArrive
  BY DEF Init, AcceptedArrive
<1>2. TypeOK /\ HandlesAreOwn /\ AcceptedArrive /\ [Next]_vars => AcceptedArrive'
  <2> SUFFICES ASSUME TypeOK, HandlesAreOwn, AcceptedArrive, [Next]_vars PROVE AcceptedArrive'
    OBVIOUS
  <2> USE DEF pairVars, numberVars, textVars, tagVars
  <2>1. ASSUME NEW x \in Tracers, NEW k \in Kinds, Reject(x, k) PROVE AcceptedArrive'
    <3>1. ASSUME NEW y \in Tracers, ~Dropped(y)' PROVE ~Dropped(y)
      BY <2>1, <3>1, MadeKeepsDropped DEF Reject
    <3> QED
      BY <2>1, <3>1 DEF Reject, AcceptedArrive
  <2>12. ASSUME NEW x \in Tracers, NEW k \in Kinds, NEW h \in Handles, CreatePlain(x, k, h)
         PROVE  AcceptedArrive'
    <3>1. ASSUME NEW y \in Tracers, ~Dropped(y)' PROVE ~Dropped(y)
      BY <2>12, <3>1, MadeKeepsDropped DEF CreatePlain, NewObject
    <3> QED
      BY <2>12, <3>1 DEF CreatePlain, AcceptedArrive
  <2>2. ASSUME NEW x \in Tracers, NEW k \in Kinds, NEW h \in Handles, NEW v \in Texts,
               CreateCall(x, k, h, v)
        PROVE  AcceptedArrive'
    <3>1. ASSUME NEW y \in Tracers, ~Dropped(y)' PROVE ~Dropped(y)
      BY <2>2, <3>1, MadeKeepsDropped DEF CreateCall, NewObject
    <3>2. v \in Values /\ "protocol" \in TextFields
      BY TextsAssumption DEF TextFields
    <3>3. \/ UNCHANGED textVars
          \/ /\ text' = [text EXCEPT ![x]["protocol"] = {v}]
             /\ askedText' = [askedText EXCEPT ![x]["protocol"] = {v}]
      BY <2>2 DEF CreateCall
    <3>4. ASSUME NEW y \in Tracers, ~Dropped(y)' PROVE text'[y] = askedText'[y]
      BY <3>1, <3>2, <3>3, <3>4, SetTextArrives
    <3> QED
      BY <2>2, <3>4 DEF CreateCall, AcceptedArrive
  <2>3. ASSUME NEW x \in Tracers, NEW k \in Kinds, NEW h \in Handles, NEW arg \in Arguments,
               NEW v \in Texts, CreateWeb(x, k, h, arg, v)
        PROVE  AcceptedArrive'
    <3>1. ASSUME NEW y \in Tracers, ~Dropped(y)' PROVE ~Dropped(y)
      BY <2>3, <3>1, MadeKeepsDropped DEF CreateWeb, MadeOrEnded, NewObject
    <3>2. v \in Values /\ "address" \in TextFields
      BY TextsAssumption DEF TextFields
    <3>3. \/ UNCHANGED textVars
          \/ /\ text' = [text EXCEPT ![x]["address"] = {v}]
             /\ askedText' = [askedText EXCEPT ![x]["address"] = {v}]
      BY <2>3 DEF CreateWeb
    <3>4. ASSUME NEW y \in Tracers, ~Dropped(y)' PROVE text'[y] = askedText'[y]
      BY <3>1, <3>2, <3>3, <3>4, SetTextArrives
    <3>5. GetKvc(arg) \in Requests /\ "request" \in PairFields
      BY RequestsOfArguments DEF PairFields
    <3>6. ASSUME NEW y \in Tracers
          PROVE  iface' # "mock" \/ y \notin spilled' => pairs'[y] = askedPairs'[y]
      BY <2>3, <3>5, TellPairsArrive DEF CreateWeb
    <3> QED
      BY <3>4, <3>6 DEF AcceptedArrive
  <2>4. ASSUME NEW x \in Tracers, NEW f \in PairFields, NEW r \in Requests,
               TellPairs(x, x, f, r), UNCHANGED <<iface, lifeVars, numberVars, textVars, tagVars>>
        PROVE  AcceptedArrive'
    <3>1. ASSUME NEW y \in Tracers
          PROVE  iface' # "mock" \/ y \notin spilled' => pairs'[y] = askedPairs'[y]
      BY <2>4, TellPairsArrive
    <3> QED
      BY <2>4, <3>1 DEF lifeVars, AcceptedArrive, Dropped
  <2>5. ASSUME NEW x \in Tracers, NEW f \in PairFields, NEW arg \in Arguments, AddPairs(x, f, arg)
        PROVE  AcceptedArrive'
    BY <2>4, <2>5, RequestsOfArguments, ReachedIsOwn DEF AddPairs
  <2>6. ASSUME NEW x \in Tracers, NEW f \in PairFields, NEW p \in Singles, AddPair(x, f, p)
        PROVE  AcceptedArrive'
    BY <2>4, <2>6, RequestOfSingle, ReachedIsOwn DEF AddPair
  <2>7. ASSUME NEW x \in Tracers, NEW f \in TextFields, NEW v \in Texts, SetMessageId(x, f, v)
        PROVE  AcceptedArrive'
    <3>1. Object(x) = x
      BY <2>7, ReachedIsOwn DEF SetMessageId
    <3>2. ASSUME NEW y \in Tracers, ~Dropped(y) PROVE text'[y] = askedText'[y]
      BY <2>7, <3>1, <3>2 DEF SetMessageId, AcceptedArrive, TypeOK
    <3> QED
      BY <2>7, <3>2 DEF SetMessageId, lifeVars, AcceptedArrive, Dropped
  <2>8. ASSUME NEW x \in Tracers, NEW f \in NumberFields, NEW n \in Numbers, SetNumber(x, f, n)
        PROVE  AcceptedArrive'
    BY <2>8 DEF SetNumber, lifeVars, AcceptedArrive, Dropped
  <2>9. ASSUME NEW x \in Tracers, Start(x) \/ End(x) PROVE AcceptedArrive'
    BY <2>9 DEF Start, End, AcceptedArrive, Dropped
  <2>10. CASE \/ \E n \in LengthsNow : Fill(n)
              \/ \E g \in Getters : AskSize(g) \/ \E x \in Tracers : NullTag(x, g)
    BY <2>10 DEF Fill, AskSize, NullTag, lifeVars, AcceptedArrive, Dropped
  <2>11. CASE UNCHANGED vars
    BY <2>11 DEF vars, lifeVars, AcceptedArrive, Dropped
  <2> QED
    BY <2>1, <2>2, <2>3, <2>5, <2>6, <2>7, <2>8, <2>9, <2>10, <2>11, <2>12 DEF Next
<1> QED
  BY <1>1, <1>2, TypeCorrect, HandlesKept, PTL DEF Spec

-----------------------------------------------------------------------------
(* Numbers *)

\* A number in range keeps its value on its way to the library.
THEOREM NumbersKept == Spec => []NumbersArrive
<1>1. Init => NumbersArrive
  BY DEF Init, NumbersArrive, Untold
<1>2. TypeOK /\ HandlesAreOwn /\ NumbersArrive /\ [Next]_vars => NumbersArrive'
  <2> SUFFICES ASSUME TypeOK, HandlesAreOwn, NumbersArrive, [Next]_vars PROVE NumbersArrive'
    OBVIOUS
  <2> USE DEF pairVars, numberVars, textVars, tagVars
  <2>1. ASSUME UNCHANGED <<iface, numberVars>> PROVE NumbersArrive'
    BY <2>1 DEF NumbersArrive
  <2>2. ASSUME NEW x \in Tracers, NEW f \in NumberFields, NEW n \in Numbers, SetNumber(x, f, n)
        PROVE  NumbersArrive'
    <3>1. n \in Int /\ Object(x) = x
      BY <2>2, NumbersAssumption, ReachedIsOwn DEF SetNumber
    <3>2. /\ iface' = "mock" \/ InRange(n) => StoredNumber(n) = n
          /\ iface' = "mock" /\ f # "status" => StoredNumber(n) >= 0
      BY <2>2, <3>1, CIntInRange DEF SetNumber, StoredNumber, NumberAccepted, TypeOK
    <3>3. ASSUME NEW y \in Tracers, NEW g \in NumberFields
          PROVE  /\ \A i \in askedNumber'[y][g] :
                      iface' = "mock" \/ InRange(i) => number'[y][g] = {i}
                 /\ iface' = "mock" /\ g # "status" => \A i \in number'[y][g] : i >= 0
      <4>1. CASE x = y /\ f = g
        <5>1. number'[y][g] = {StoredNumber(n)} /\ askedNumber'[y][g] = {n}
          BY <2>2, <3>1, <4>1 DEF SetNumber, TypeOK
        <5> QED
          BY <3>2, <4>1, <5>1
      <4>2. CASE ~(x = y /\ f = g)
        <5>1. number'[y][g] = number[y][g] /\ askedNumber'[y][g] = askedNumber[y][g]
          BY <2>2, <3>1, <4>2 DEF SetNumber, TypeOK
        <5> QED
          BY <2>2, <5>1 DEF SetNumber, NumbersArrive
      <4> QED
        BY <4>1, <4>2
    <3> QED
      BY <3>3 DEF NumbersArrive
  <2>3. CASE Next
    BY <2>1, <2>2, <2>3
       DEF Next, Reject, CreatePlain, CreateCall, CreateWeb, AddPairs, AddPair, SetMessageId,
           Start, End, AskSize, Fill, NullTag
  <2>4. CASE UNCHANGED vars
    BY <2>1, <2>4 DEF vars
  <2> QED
    BY <2>3, <2>4
<1> QED
  BY <1>1, <1>2, TypeCorrect, HandlesKept, PTL DEF Spec

-----------------------------------------------------------------------------
(* Tags *)

\* What the size call answered: the length, with a terminator for a string tag.
SizeFits ==
  getting # Nothing =>
    IF getting.of = "string"
    THEN getting.size = getting.first + 1 \/ (getting.first = 0 /\ getting.size = 0)
    ELSE getting.size = getting.first

LEMMA SizeFitsStep == TypeOK /\ SizeFits /\ [Next]_vars => SizeFits'
<1> SUFFICES ASSUME TypeOK, SizeFits, [Next]_vars PROVE SizeFits'
  OBVIOUS
<1>1. ASSUME UNCHANGED getting PROVE SizeFits'
  BY <1>1 DEF SizeFits
<1>2. ASSUME NEW g \in Getters, AskSize(g) PROVE SizeFits'
  <2>1. PICK n \in LengthsNow : \E size \in SizesOf(g, n) :
          getting' = [of |-> g, first |-> n, size |-> size]
    BY <1>2 DEF AskSize
  <2>2. PICK size \in SizesOf(g, n) : getting' = [of |-> g, first |-> n, size |-> size]
    BY <2>1
  <2> QED
    BY <2>2 DEF SizeFits, SizesOf
<1>3. ASSUME NEW n \in LengthsNow, Fill(n) PROVE SizeFits'
  BY <1>3 DEF Fill, SizeFits
<1>4. CASE Next
  BY <1>1, <1>2, <1>3, <1>4
     DEF Next, Reject, CreatePlain, CreateCall, CreateWeb, AddPairs, AddPair, SetNumber,
         SetMessageId, Start, End, NullTag, tagVars
<1>5. CASE UNCHANGED vars
  BY <1>1, <1>5 DEF vars, tagVars
<1> QED
  BY <1>4, <1>5

\* A tag is never cut off or padded, whatever happens between the native calls.
THEOREM TagsWhole == Spec => []TagsAreWhole
<1>1. Init => SizeFits /\ TagsAreWhole
  BY DEF Init, SizeFits, TagsAreWhole
<1>2. TypeOK /\ SizeFits /\ TagsAreWhole /\ [Next]_vars => TagsAreWhole'
  <2> SUFFICES ASSUME TypeOK, SizeFits, TagsAreWhole, [Next]_vars PROVE TagsAreWhole'
    OBVIOUS
  <2>1. ASSUME UNCHANGED tag PROVE TagsAreWhole'
    BY <2>1 DEF TagsAreWhole
  <2>2. ASSUME NEW n \in LengthsNow, Fill(n) PROVE TagsAreWhole'
    <3> DEFINE cnt == BytesWritten(getting, n)
    <3>1. getting \in Answers /\ n \in Nat
      BY <2>2, TagSizesAssumption DEF Fill, TypeOK, LengthsNow
    <3>2. cnt \in {0, n}
      BY DEF BytesWritten
    <3>3. CASE ~Complete(getting, cnt)
      BY <2>2, <3>3 DEF Fill, TagsAreWhole
    <3>4. CASE Complete(getting, cnt)
      <4>1. tag' = [of |-> getting.of, first |-> getting.first, last |-> n,
                    length |-> IF getting.of = "string" THEN cnt ELSE getting.size,
                    written |-> cnt]
        BY <2>2, <3>4 DEF Fill
      <4>2. (IF getting.of = "string" THEN cnt ELSE getting.size) = cnt
        BY <3>4 DEF Complete
      <4>3. cnt \in {getting.first, n}
        BY <2>2, <3>1, <3>2, <3>4 DEF Fill, SizeFits, Complete, Answers
      <4> QED
        BY <4>1, <4>2, <4>3 DEF TagsAreWhole
    <3> QED
      BY <3>3, <3>4
  <2>3. ASSUME NEW g \in Getters, AskSize(g) PROVE TagsAreWhole'
    BY <2>3 DEF AskSize, TagsAreWhole
  <2>4. ASSUME NEW x \in Tracers, NEW g \in Getters, NullTag(x, g) PROVE TagsAreWhole'
    BY <2>4 DEF NullTag, TagsAreWhole
  <2>5. CASE Next
    BY <2>1, <2>2, <2>3, <2>4, <2>5
       DEF Next, Reject, CreatePlain, CreateCall, CreateWeb, AddPairs, AddPair, SetNumber,
           SetMessageId, Start, End, tagVars
  <2>6. CASE UNCHANGED vars
    BY <2>1, <2>6 DEF vars, tagVars
  <2> QED
    BY <2>5, <2>6
<1> QED
  BY <1>1, <1>2, SizeFitsStep, TypeCorrect, PTL DEF Spec
=============================================================================
