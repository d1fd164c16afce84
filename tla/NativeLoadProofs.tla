-------------------------- MODULE NativeLoadProofs --------------------------
(***************************************************************************)
(* Theorems about SdkVersion and NativeLoad, for any set of libraries, any *)
(* command lines and any number of sessions.                               *)
(***************************************************************************)
EXTENDS NativeLoad, InductionLemmas, SequenceTheorems, TLAPS

-----------------------------------------------------------------------------
(* Versions *)

\* The comparisons of OnesdkStubVersion are those of a total order.
THEOREM VersionsAreOrdered ==
  ASSUME NEW a \in Version, NEW b \in Version, NEW c \in Version
  PROVE  /\ Eq(a, b) <=> a = b
         /\ Lt(a, b) \/ Gt(a, b) \/ Eq(a, b)
         /\ ~(Lt(a, b) /\ Gt(a, b)) /\ ~(Lt(a, b) /\ Eq(a, b)) /\ ~(Gt(a, b) /\ Eq(a, b))
         /\ Gt(a, b) <=> Lt(b, a)
         /\ Lt(a, b) /\ Lt(b, c) => Lt(a, c)
         /\ Le(a, b) <=> Ge(b, a)
  BY DEF Version, Eq, Lt, Gt, Le, Ge

\* The two comparisons of __init__ accept 1.x from 1.7.1 on, and nothing else.
THEOREM GateIsRange ==
  ASSUME NEW v \in Version PROVE Accepted(v) <=> InRange(v)
  BY DEF Version, Accepted, InRange, minStubVersion, maxStubVersion, Le, Lt, Gt, Eq

-----------------------------------------------------------------------------
(* The table of functions *)

LEMMA GroupsShape ==
  /\ Len(Groups) = 13 /\ DOMAIN Groups = 1..13
  /\ \A i \in 1..13 : \E n \in Nat : DOMAIN Groups[i] = 1..n
  /\ DOMAIN Mandatory = 1..3
  <1>1. Len(Groups) = 13 /\ DOMAIN Groups = 1..13
    BY DEF Groups
  <1>2. DOMAIN Mandatory = 1..3
    BY DEF Mandatory
  <1>3. ASSUME NEW i \in 1..13 PROVE \E n \in Nat : DOMAIN Groups[i] = 1..n
    <2>1. i \in {1, 2, 3, 4} \/ i \in {5, 6, 7, 8} \/ i \in {9, 10, 11} \/ i \in {12, 13}
      OBVIOUS
    <2>2. CASE i \in {1, 2, 3, 4}
      <3>1. Groups[1] = StubArguments /\ Groups[2] = InitAndShutdown
            /\ Groups[3] = ForkAndTechnology /\ Groups[4] = Database
        BY DEF Groups
      <3>2. DOMAIN StubArguments = 1..7 /\ DOMAIN InitAndShutdown = 1..5
            /\ DOMAIN ForkAndTechnology = 1..3 /\ DOMAIN Database = 1..5
        BY DEF StubArguments, InitAndShutdown, ForkAndTechnology, Database
      <3> QED BY <2>2, <3>1, <3>2
    <2>3. CASE i \in {5, 6, 7, 8}
      <3>1. Groups[5] = RemoteCalls /\ Groups[6] = IncomingWebRequest
            /\ Groups[7] = InProcessLink /\ Groups[8] = OutgoingWebRequest
        BY DEF Groups
      <3>2. DOMAIN RemoteCalls = 1..4 /\ DOMAIN IncomingWebRequest = 1..8
            /\ DOMAIN InProcessLink = 1..2 /\ DOMAIN OutgoingWebRequest = 1..4
        BY DEF RemoteCalls, IncomingWebRequest, InProcessLink, OutgoingWebRequest
      <3> QED BY <2>3, <3>1, <3>2
    <2>4. CASE i \in {9, 10, 11}
      <3>1. Groups[9] = GenericTracer /\ Groups[10] = CustomAttributes
            /\ Groups[11] = Messaging
        BY DEF Groups
      <3>2. DOMAIN GenericTracer = 1..7 /\ DOMAIN CustomAttributes = 1..3
            /\ DOMAIN Messaging = 1..9
        BY DEF GenericTracer, CustomAttributes, Messaging
      <3> QED BY <2>4, <3>1, <3>2
    <2>5. CASE i \in {12, 13}
      <3>1. Groups[12] = CustomService /\ Groups[13] = TraceContext
        BY DEF Groups
      <3>2. DOMAIN CustomService = 1..1 /\ DOMAIN TraceContext = 1..1
        BY DEF CustomService, TraceContext
      <3> QED BY <2>5, <3>1, <3>2
    <2> QED BY <2>1, <2>2, <2>3, <2>4, <2>5
  <1> QED BY <1>1, <1>2, <1>3

LEMMA ElementsAreNames == ASSUME NEW seq, NEW i \in DOMAIN seq PROVE seq[i] \in Names(seq)
  BY DEF Names

LEMMA GroupsAreFunctions == \A i \in 1..13 : Names(Groups[i]) \subseteq Functions
  <1>1. \A i \in 1..13 : Names(Groups[i]) \in {Names(Groups[j]) : j \in DOMAIN Groups}
    BY GroupsShape
  <1>2. UNION {Names(Groups[j]) : j \in DOMAIN Groups} \subseteq Functions
    BY DEF Functions
  <1> QED BY <1>1, <1>2

\* The functions that the interface calls itself are in the table.
LEMMA CalledAreFunctions ==
  /\ "stub_get_version" \in Names(Mandatory)
  /\ {"stub_set_variable", "stub_xstrerror", "initialize_2", "agent_get_version_string",
      LoadInfoFunction, "ex_api_enable_techtype", "ex_agent_add_process_technology"}
       \subseteq Functions
  <1>1. Mandatory[2] = "agent_get_version_string" /\ Mandatory[3] = "stub_get_version"
    BY DEF Mandatory
  <1>2. Groups[1] = StubArguments /\ Groups[2] = InitAndShutdown
        /\ Groups[3] = ForkAndTechnology
    BY DEF Groups
  <1>3. /\ 3 \in DOMAIN StubArguments /\ StubArguments[3] = "stub_set_variable"
        /\ {1, 5} \subseteq DOMAIN InitAndShutdown
        /\ InitAndShutdown[1] = "initialize_2" /\ InitAndShutdown[5] = "stub_xstrerror"
        /\ {2, 3} \subseteq DOMAIN ForkAndTechnology
        /\ ForkAndTechnology[2] = "ex_api_enable_techtype"
        /\ ForkAndTechnology[3] = "ex_agent_add_process_technology"
    BY DEF StubArguments, InitAndShutdown, ForkAndTechnology
  <1>4. "stub_set_variable" \in Names(StubArguments)
    BY <1>3, ElementsAreNames
  <1>5. "initialize_2" \in Names(InitAndShutdown) /\ "stub_xstrerror" \in Names(InitAndShutdown)
    BY <1>3, ElementsAreNames
  <1>6. /\ "ex_api_enable_techtype" \in Names(ForkAndTechnology)
        /\ "ex_agent_add_process_technology" \in Names(ForkAndTechnology)
    BY <1>3, ElementsAreNames
  <1>7. /\ "agent_get_version_string" \in Names(Mandatory)
        /\ "stub_get_version" \in Names(Mandatory)
    <2>1. 2 \in DOMAIN Mandatory /\ 3 \in DOMAIN Mandatory
      BY GroupsShape
    <2> QED BY <1>1, <2>1, ElementsAreNames
  <1>8. /\ Names(StubArguments) \subseteq Functions
        /\ Names(InitAndShutdown) \subseteq Functions
        /\ Names(ForkAndTechnology) \subseteq Functions
    BY <1>2, GroupsAreFunctions
  <1>9. Names(Mandatory) \subseteq Functions /\ LoadInfoFunction \in Functions
    BY DEF Functions
  <1> QED BY <1>4, <1>5, <1>6, <1>7, <1>8, <1>9

\* Binding stops at what is missing: all of a group is bound if and only if the
\* library exports all of it.
LEMMA AllBound ==
  ASSUME NEW seq, \E n \in Nat : DOMAIN seq = 1..n
  PROVE  /\ BoundUpToMissing(seq) \subseteq Names(seq)
         /\ BoundUpToMissing(seq) = Names(seq) <=> Names(seq) \cap lib.missing = {}
  <1> PICK n \in Nat : DOMAIN seq = 1..n
    OBVIOUS
  <1>1. ASSUME Names(seq) \cap lib.missing = {} PROVE Names(seq) \subseteq BoundUpToMissing(seq)
    BY <1>1 DEF BoundUpToMissing, Names
  <1>2. ASSUME NEW f \in BoundUpToMissing(seq) PROVE f \notin lib.missing /\ f \in Names(seq)
    BY <1>2 DEF BoundUpToMissing, Names
  <1> QED BY <1>1, <1>2

-----------------------------------------------------------------------------
(* What is bound, and what is known of the library, at every step.           *)

BoundBefore(n) ==
  Names(Mandatory) \cup {LoadInfoFunction} \cup UNION {Names(Groups[i]) : i \in 1..(n - 1)}

\* The library has passed the checks of __init__ so far.
Checked == Names(Mandatory) \cap lib.missing = {} /\ InRange(lib.version)

LoadInv ==
  /\ TypeOK
  /\ pc \in {"open", "collect", "idle"} => bound = {}
  /\ pc = "mandatory" => sdkVersion = NoVersion /\ bound = {}
  /\ pc \in {"mandatory", "gate", "load_info"} => group = 1
  /\ pc = "gate" =>
       /\ bound = Names(Mandatory) /\ Names(Mandatory) \cap lib.missing = {}
       /\ sdkVersion = NoVersion
  /\ pc = "load_info" => bound = Names(Mandatory) /\ Checked /\ sdkVersion = lib.version
  /\ pc = "bind" =>
       /\ bound = BoundBefore(group) /\ bound \cap lib.missing = {} /\ Checked
       /\ sdkVersion = lib.version
  /\ sdk = "dll" =>
       /\ bound = Functions /\ lib.missing = {} /\ InRange(lib.version)
       /\ sdkVersion = lib.version /\ lib # NoLibrary
  /\ sdk = "dll" <=> pc = "options" \/ (pc = "up" /\ sdk # "null")
  /\ sdk = "null" => pc = "up"
  /\ unbound = {}
  /\ UsedIffUsable /\ RefusedIsNamed /\ AnswersAreCurrent

LEMMA LoadInit == Init => LoadInv
  BY GroupsShape
     DEF Init, LoadInv, TypeOK, NoAnswer, Unknown, UsedIffUsable, RefusedIsNamed, AnswersAreCurrent

LEMMA LibraryShape ==
  ASSUME NEW l \in Libraries
  PROVE  /\ l # NoLibrary /\ l.version \in Version /\ l.missing \subseteq Functions
         /\ l.agent \in {"missing", "incompatible", "active"}
  BY LibrariesAssumption

\* A failed load ends with the null interface.
LEMMA FailStep ==
  ASSUME LoadInv, NEW error, NEW told, NEW attributes \in SUBSET Functions,
         Fail(error, told, attributes), lib' \in Libraries \cup {NoLibrary},
         group' \in DOMAIN Groups, sdkVersion' \in Version \cup {NoVersion},
         unbound' = {}, sessions' = sessions,
         told \in [agent : {"-"}, sdk : Version \cup {NoVersion}],
         told.sdk # NoVersion => lib' # NoLibrary /\ told.sdk = lib'.version,
         lib' # NoLibrary =>
           \/ lib'.missing # {}
           \/ ~InRange(lib'.version),
         lib' # NoLibrary /\ ~InRange(lib'.version) /\ lib'.missing \cap Names(Mandatory) = {}
           => told.sdk # NoVersion
  PROVE  LoadInv'
  BY DEF Fail, Caught, LoadInv, TypeOK, Unknown, UsedIffUsable, RefusedIsNamed,
         AnswersAreCurrent

\* The objects that wait for __del__ disturb nothing.
LEMMA SameLoad ==
  ASSUME LoadInv, garbage' \subseteq SUBSET Functions, unbound' = {},
         UNCHANGED <<pc, lib, bound, group, sdkVersion, passed, opts, sdk, version, info,
                     status, sessions>>
  PROVE  LoadInv'
  <1>1. TypeOK'
    <2>1. TypeOK
      BY DEF LoadInv
    <2>2. /\ pc' \in {"idle", "collect", "open", "mandatory", "gate", "load_info", "bind",
                     "options", "up"}
          /\ group' \in DOMAIN Groups /\ sdk' \in {"none", "dll", "null"}
          /\ pc' \in {"idle", "collect", "open"} => lib' = NoLibrary /\ sdk' = "none"
          /\ pc' \notin {"idle", "collect", "open", "up"} => lib' # NoLibrary
      BY <2>1 DEF TypeOK
    <2>3. sessions' \in Nat /\ unbound' \subseteq Functions
      BY <2>1 DEF TypeOK
    <2> QED BY <2>1, <2>2, <2>3 DEF TypeOK
  <1>2. UsedIffUsable' /\ RefusedIsNamed'
    BY DEF LoadInv, UsedIffUsable, RefusedIsNamed
  <1>3. AnswersAreCurrent'
    BY DEF LoadInv, AnswersAreCurrent
  <1>4. (Checked <=> Checked') /\ BoundBefore(group) = BoundBefore(group)'
    BY DEF Checked, BoundBefore
  <1> QED BY <1>1, <1>2, <1>3, <1>4 DEF LoadInv

LEMMA LoadStep == LoadInv /\ [Next]_vars => LoadInv'
  <1> SUFFICES ASSUME LoadInv, [Next]_vars PROVE LoadInv'
    OBVIOUS
  <1> USE DEF LoadInv
  <1>1. Names(Mandatory) \subseteq Functions /\ LoadInfoFunction \in Functions
    BY DEF Functions
  <1>2. CASE UNCHANGED vars
    <2>1. /\ UNCHANGED <<pc, lib, bound, group, sdkVersion, passed, opts, sdk, version, info,
                         status, sessions>>
          /\ garbage' = garbage /\ unbound' = unbound
      BY <1>2 DEF vars
    <2>2. garbage \subseteq SUBSET Functions /\ unbound = {}
      BY DEF TypeOK
    <2> HIDE DEF LoadInv
    <2> QED BY <2>1, <2>2, SameLoad
  <1>3. CASE Start
    <2>1. /\ pc = "idle" /\ pc' \in {"open", "collect"}
          /\ UNCHANGED <<lib, bound, group, sdkVersion, sdk, version, info, status, garbage,
                         unbound>>
      <3> HIDE DEF LoadInv
      <3> QED BY <1>3, Zenon DEF Start, answers
    <2>2. sessions' \in Nat
      <3>1. sessions \in Nat /\ sessions' = sessions + 1
        BY <1>3 DEF Start, TypeOK
      <3> HIDE DEF LoadInv
      <3> QED BY <3>1
    <2>3. TypeOK'
      BY <2>1, <2>2 DEF TypeOK
    <2>4. UsedIffUsable' /\ RefusedIsNamed' /\ AnswersAreCurrent'
      BY <2>1 DEF UsedIffUsable, RefusedIsNamed, AnswersAreCurrent
    <2> QED BY <2>1, <2>3, <2>4 DEF TypeOK
  <1>4. CASE Collect
    <2>1. /\ pc = "collect" /\ pc' \in {"open", "collect"}
          /\ UNCHANGED <<lib, bound, group, sdkVersion, sdk, version, info, status, garbage,
                         unbound, sessions>>
      BY <1>4 DEF Collect, answers
    <2> QED BY <2>1 DEF TypeOK, UsedIffUsable, RefusedIsNamed, AnswersAreCurrent
  <1>5. CASE Open
    <2>1. CASE /\ \E error \in {"ImportError", "SDKError"} : Fail(error, NoAnswer, {})
               /\ lib' = NoLibrary
      <3>1. /\ sdkVersion' = NoVersion /\ group' = 1 /\ unbound' = {} /\ sessions' = sessions
            /\ group' \in DOMAIN Groups
        BY <1>5, GroupsShape DEF Open
      <3>2. NoAnswer \in [agent : {"-"}, sdk : Version \cup {NoVersion}]
            /\ NoAnswer.sdk = NoVersion
        BY DEF NoAnswer
      <3>3. PICK error : Fail(error, NoAnswer, {})
        BY <2>1
      <3> HIDE DEF LoadInv
      <3> QED BY <2>1, <3>1, <3>2, <3>3, FailStep
    <2>2. CASE lib' \in Libraries /\ pc' = "mandatory"
      <3>1. /\ pc = "open" /\ sdkVersion' = NoVersion /\ group' = 1 /\ bound' = {}
            /\ UNCHANGED <<sdk, version, status, garbage, unbound, sessions>>
        BY <1>5, <2>2 DEF Open, Fail, Caught
      <3>2. info' = Unknown
        BY <1>5, <2>2 DEF Open, Fail
      <3>3. lib' # NoLibrary /\ group' \in DOMAIN Groups
        BY <2>2, <3>1, GroupsShape, LibrariesAssumption
      <3> QED BY <2>2, <3>1, <3>2, <3>3
            DEF TypeOK, Unknown, UsedIffUsable, RefusedIsNamed, AnswersAreCurrent
    <2> QED BY <1>5, <2>1, <2>2 DEF Open
  <1>6. CASE BindMandatory
    <2> DEFINE ok == BoundUpToMissing(Mandatory)
    <2>1. /\ ok \subseteq Names(Mandatory)
          /\ ok = Names(Mandatory) <=> Names(Mandatory) \cap lib.missing = {}
      BY AllBound, GroupsShape
    <2>2. /\ pc = "mandatory" /\ sdkVersion = NoVersion /\ lib \in Libraries
          /\ UNCHANGED <<lib, group, sdkVersion, unbound, sessions>>
      BY <1>6 DEF BindMandatory, TypeOK
    <2>3. CASE ok = Names(Mandatory)
      BY <1>1, <1>6, <2>1, <2>2, <2>3
         DEF BindMandatory, answers, TypeOK, UsedIffUsable, RefusedIsNamed, AnswersAreCurrent
    <2>4. CASE ok # Names(Mandatory)
      <3>1. Fail("SDKInitializationError", RefusedVersion, ok)
        BY <1>6, <2>4 DEF BindMandatory
      <3>2. RefusedVersion \in [agent : {"-"}, sdk : Version \cup {NoVersion}]
            /\ RefusedVersion.sdk = NoVersion
        BY <2>2 DEF RefusedVersion
      <3>3. ok \in SUBSET Functions /\ lib.missing \cap Names(Mandatory) # {}
        BY <1>1, <2>1, <2>4
      <3>4. lib' \in Libraries \cup {NoLibrary} /\ group' \in DOMAIN Groups
            /\ sdkVersion' \in Version \cup {NoVersion} /\ unbound' = {}
        BY <2>2 DEF TypeOK
      <3> HIDE DEF LoadInv, ok
      <3> QED BY <2>2, <3>1, <3>2, <3>3, <3>4, FailStep
    <2> QED BY <2>3, <2>4
  <1>7. CASE Gate
    <2>1. /\ pc = "gate" /\ lib \in Libraries /\ lib.version \in Version /\ lib # NoLibrary
          /\ bound = Names(Mandatory) /\ Names(Mandatory) \cap lib.missing = {}
          /\ sdkVersion' = lib.version
          /\ UNCHANGED <<lib, group, sessions>>
      BY <1>7, LibraryShape DEF Gate, TypeOK
    <2>2. unbound' = {}
      BY <1>7, <2>1, CalledAreFunctions DEF Gate, Calls
    <2>3. CASE Accepted(lib.version)
      BY <1>7, <2>1, <2>2, <2>3, GateIsRange
         DEF Gate, Checked, answers, TypeOK, UsedIffUsable, RefusedIsNamed, AnswersAreCurrent
    <2>4. CASE ~Accepted(lib.version)
      <3>1. Fail("SDKInitializationError", RefusedVersion', bound)
        BY <1>7, <2>4 DEF Gate
      <3>2. /\ RefusedVersion' \in [agent : {"-"}, sdk : Version \cup {NoVersion}]
            /\ (RefusedVersion').sdk = lib'.version
        BY <2>1 DEF RefusedVersion
      <3>3. ~InRange(lib'.version) /\ bound \in SUBSET Functions
        BY <2>1, <2>4, GateIsRange DEF TypeOK
      <3>4. lib' \in Libraries /\ group' \in DOMAIN Groups
            /\ sdkVersion' \in Version \cup {NoVersion} /\ lib'.version # NoVersion
        BY <2>1, NoVersionAssumption DEF TypeOK
      <3> HIDE DEF LoadInv
      <3> QED BY <2>1, <2>2, <3>1, <3>2, <3>3, <3>4, FailStep
    <2> QED BY <2>3, <2>4
  <1>8. CASE BindLoadInfo
    <2>1. /\ pc = "load_info" /\ lib \in Libraries /\ lib.version \in Version
          /\ bound = Names(Mandatory) /\ Checked /\ sdkVersion = lib.version
          /\ UNCHANGED <<lib, sdkVersion, unbound, sessions>>
          /\ group' = group
      BY <1>8, LibraryShape DEF BindLoadInfo, TypeOK
    <2>2. CASE LoadInfoFunction \notin lib.missing /\ bound' = bound \cup {LoadInfoFunction}
               /\ pc' = "bind" /\ UNCHANGED <<answers, garbage>>
      <3>1. group = 1
        BY <2>1
      <3>2. UNION {Names(Groups[i]) : i \in 1..(1 - 1)} = {}
        OBVIOUS
      <3>3. bound' = BoundBefore(group)
        BY <2>1, <2>2, <3>1, <3>2 DEF BoundBefore
      <3>4. bound' \cap lib.missing = {} /\ bound' \subseteq Functions
        BY <1>1, <2>1, <2>2 DEF Checked
      <3>5. UNCHANGED <<lib, sdk, version, info, status, garbage, group, sdkVersion>>
        BY <2>1, <2>2 DEF answers
      <3>6. TypeOK' /\ Checked'
        BY <2>1, <2>2, <3>4, <3>5 DEF TypeOK, Checked
      <3>7. UsedIffUsable' /\ RefusedIsNamed' /\ AnswersAreCurrent'
        BY <2>2 DEF UsedIffUsable, RefusedIsNamed, AnswersAreCurrent
      <3>8. (BoundBefore(group))' = BoundBefore(group)
        BY <3>5 DEF BoundBefore
      <3> QED BY <2>1, <2>2, <3>3, <3>4, <3>5, <3>6, <3>7, <3>8
    <2>3. CASE LoadInfoFunction \in lib.missing
      <3>1. Fail("SDKInitializationError", RefusedVersion, bound)
        BY <1>8, <2>3 DEF BindLoadInfo
      <3>2. /\ RefusedVersion \in [agent : {"-"}, sdk : Version \cup {NoVersion}]
            /\ RefusedVersion.sdk = lib.version /\ lib.version # NoVersion
        BY <2>1, NoVersionAssumption DEF RefusedVersion
      <3>3. bound \in SUBSET Functions /\ lib.missing # {} /\ lib # NoLibrary
        BY <2>1, <2>3, LibraryShape DEF TypeOK
      <3>4. lib' \in Libraries /\ group' \in DOMAIN Groups
            /\ sdkVersion' \in Version \cup {NoVersion} /\ unbound' = {}
        BY <2>1 DEF TypeOK
      <3> HIDE DEF LoadInv
      <3> QED BY <2>1, <3>1, <3>2, <3>3, <3>4, FailStep
    <2> QED BY <1>8, <2>2, <2>3 DEF BindLoadInfo
  <1>9. CASE BindGroup
    <2> DEFINE ok == BoundUpToMissing(Groups[group])
    <2>1. /\ pc = "bind" /\ group \in 1..13 /\ lib \in Libraries /\ lib.version \in Version
          /\ lib # NoLibrary /\ lib.missing \subseteq Functions
          /\ bound = BoundBefore(group) /\ bound \cap lib.missing = {} /\ Checked
          /\ sdkVersion = lib.version
          /\ UNCHANGED <<lib, sdkVersion, unbound, sessions>>
      BY <1>9, GroupsShape, LibraryShape DEF BindGroup, TypeOK
    <2>2. /\ ok \subseteq Names(Groups[group])
          /\ ok = Names(Groups[group]) <=> Names(Groups[group]) \cap lib.missing = {}
      BY <2>1, AllBound, GroupsShape
    <2>3. bound \cup ok \subseteq Functions
      BY <2>1, <2>2, GroupsAreFunctions DEF TypeOK
    <2>4. ASSUME ok = Names(Groups[group]), bound' = bound \cup ok
          PROVE  bound' = BoundBefore(group + 1) /\ bound' \cap lib.missing = {}
      <3>1. 1..((group + 1) - 1) = 1..(group - 1) \cup {group}
        BY <2>1
      <3>2. UNION {Names(Groups[i]) : i \in 1..(group - 1) \cup {group}}
              = (UNION {Names(Groups[i]) : i \in 1..(group - 1)}) \cup Names(Groups[group])
        OBVIOUS
      <3> QED BY <2>1, <2>2, <2>4, <3>1, <3>2 DEF BoundBefore
    <2>5. CASE /\ ok = Names(Groups[group]) /\ bound' = bound \cup ok
               /\ group < Len(Groups) /\ group' = group + 1 /\ UNCHANGED <<pc, sdk, status>>
               /\ UNCHANGED <<version, info, garbage>>
      <3>1. group' \in 1..13 /\ pc' = "bind"
        <4> HIDE DEF LoadInv, ok
        <4>1. group \in 1..13 /\ group < Len(Groups) /\ group' = group + 1
          BY <2>1, <2>5
        <4>2. Len(Groups) = 13
          BY GroupsShape
        <4>3. pc' = "bind"
          BY <2>1, <2>5
        <4> QED BY <4>1, <4>2, <4>3
      <3> QED BY <2>1, <2>3, <2>4, <2>5, <3>1, GroupsShape
            DEF Checked, TypeOK, UsedIffUsable, RefusedIsNamed, AnswersAreCurrent
    <2>6. CASE /\ ok = Names(Groups[group]) /\ bound' = bound \cup ok
               /\ group = Len(Groups) /\ sdk' = "dll" /\ status' = "INITIALIZED"
               /\ pc' = "options" /\ group' = group
               /\ UNCHANGED <<version, info, garbage>>
      <3>1. BoundBefore(14) = Functions
        <4>1. 1..(14 - 1) = DOMAIN Groups
          BY GroupsShape
        <4> QED BY <4>1 DEF BoundBefore, Functions
      <3>2. group + 1 = 14
        BY <2>6, GroupsShape
      <3>3. bound' = Functions /\ bound' \cap lib.missing = {}
        BY <2>4, <2>6, <3>1, <3>2
      <3>4. lib.missing = {}
        BY <2>1, <3>3
      <3> QED BY <2>1, <2>6, <3>3, <3>4
            DEF Checked, TypeOK, UsedIffUsable, RefusedIsNamed, AnswersAreCurrent
    <2>7. CASE ok # Names(Groups[group])
      <3>1. Fail("AttributeError", NoAnswer, bound \cup ok) /\ group' = group
        BY <1>9, <2>7 DEF BindGroup
      <3>2. NoAnswer \in [agent : {"-"}, sdk : Version \cup {NoVersion}]
            /\ NoAnswer.sdk = NoVersion
        BY DEF NoAnswer
      <3>3. lib.missing # {} /\ InRange(lib.version)
        BY <2>1, <2>2, <2>7 DEF Checked
      <3>4. /\ bound \cup ok \in SUBSET Functions /\ lib' \in Libraries
            /\ group' \in DOMAIN Groups /\ sdkVersion' \in Version \cup {NoVersion}
            /\ unbound' = {}
        BY <2>1, <2>3, <3>1 DEF TypeOK
      <3> HIDE DEF LoadInv, ok
      <3> QED BY <2>1, <3>1, <3>2, <3>3, <3>4, FailStep
    <2> QED BY <1>9, <2>5, <2>6, <2>7 DEF BindGroup
  <1>10. CASE SetOption \/ OptionError
    <2>1. CASE SetOption
      <3>1. unbound' = {}
        BY <2>1, CalledAreFunctions DEF SetOption, Calls
      <3> QED BY <2>1, <3>1
            DEF SetOption, TypeOK, UsedIffUsable, RefusedIsNamed, AnswersAreCurrent
    <2>2. CASE OptionError
      <3>1. /\ Unasked \in [agent : {"-", "", "agent", "None"}, sdk : Version \cup {NoVersion}]
            /\ Unknown \in [found : BOOLEAN, compatible : BOOLEAN]
        BY DEF Unasked, Unknown
      <3>2. passed' # opts' /\ version' = Unasked /\ info' = Unknown
        BY <2>2 DEF OptionError, arguments
      <3>3. TypeOK'
        BY <2>2, <3>1 DEF OptionError, TypeOK
      <3> QED BY <2>2, <3>2, <3>3
            DEF OptionError, UsedIffUsable, RefusedIsNamed, AnswersAreCurrent
    <2> QED BY <1>10, <2>1, <2>2
  <1>11. CASE NativeInit
    <2>1. unbound' = {}
      BY <1>11, CalledAreFunctions DEF NativeInit, Calls
    <2>2. /\ lib \in Libraries /\ lib # NoLibrary
          /\ lib.agent \in {"missing", "incompatible", "active"}
          /\ version' = [agent |-> AgentVersion(lib), sdk |-> lib.version]
          /\ info' = LoadInfo(lib) /\ sdk' = "dll" /\ pc' = "up"
      BY <1>11, LibraryShape DEF NativeInit, TypeOK
    <2>3. version' \in [agent : {"-", "", "agent", "None"}, sdk : Version \cup {NoVersion}]
      BY <2>2, LibraryShape DEF AgentVersion
    <2>4. /\ info' \in [found : BOOLEAN, compatible : BOOLEAN]
          /\ info'.found <=> lib.agent # "missing"
          /\ info'.compatible <=> lib.agent = "active"
      BY <2>2 DEF LoadInfo
    <2>5. UNCHANGED <<lib, bound, group, sdkVersion, sdk, garbage, sessions>>
      BY <1>11 DEF NativeInit
    <2>6. TypeOK'
      BY <1>11, <2>1, <2>2, <2>3, <2>4, <2>5 DEF NativeInit, TypeOK
    <2>7. UsedIffUsable' /\ RefusedIsNamed'
      BY <2>2, <2>5 DEF UsedIffUsable, RefusedIsNamed
    <2>8. AnswersAreCurrent'
      <3>1. sdkVersion = lib.version /\ passed' = opts'
        BY <1>11 DEF NativeInit, arguments
      <3> QED BY <2>2, <2>4, <2>5, <3>1 DEF AnswersAreCurrent
    <2> QED BY <1>11, <2>1, <2>2, <2>5, <2>6, <2>7, <2>8 DEF NativeInit
  <1>12. CASE Use
    <2>1. /\ sdk = "dll" /\ garbage' = garbage /\ unbound' = unbound \cup (Functions \ bound)
          /\ UNCHANGED <<pc, lib, bound, group, sdkVersion, passed, opts, sdk, version, info,
                         status, sessions>>
      BY <1>12 DEF Use, Calls, answers, arguments
    <2>2. garbage \subseteq SUBSET Functions /\ unbound' = {}
      BY <2>1 DEF TypeOK
    <2> HIDE DEF LoadInv
    <2> QED BY <2>1, <2>2, SameLoad
  <1>13. CASE Shutdown
    BY <1>13 DEF Shutdown, NoAnswer, Unknown, TypeOK, UsedIffUsable, RefusedIsNamed,
                 AnswersAreCurrent
  <1>14. CASE Finalize
    <2>1. /\ garbage' \subseteq garbage /\ unbound' = unbound
          /\ UNCHANGED <<pc, lib, bound, group, sdkVersion, passed, opts, sdk, version, info,
                         status, sessions>>
      BY <1>14 DEF Finalize, FinalizerCalls, answers, arguments
    <2>2. garbage \subseteq SUBSET Functions /\ unbound = {}
      BY DEF TypeOK
    <2> HIDE DEF LoadInv
    <2> QED BY <2>1, <2>2, SameLoad
  <1> QED BY <1>2, <1>3, <1>4, <1>5, <1>6, <1>7, <1>8, <1>9, <1>10, <1>11, <1>12, <1>13,
             <1>14 DEF Next, Initialize

LEMMA LoadCorrect == Spec => []LoadInv
  BY LoadInit, LoadStep, PTL DEF Spec

\* The variables keep their types.
THEOREM TypeCorrect == Spec => []TypeOK
  BY LoadCorrect, PTL DEF LoadInv

\* Whatever a library lacks, no function is called that was not bound.
THEOREM CallsAreBound == Spec => []NoUnboundCall
  <1>1. LoadInv => NoUnboundCall
    BY DEF LoadInv, NoUnboundCall
  <1> QED BY <1>1, LoadCorrect, PTL

\* A library is used if and only if it is complete and in the range.
THEOREM UsableIsUsed == Spec => []UsedIffUsable
  BY LoadCorrect, PTL DEF LoadInv

\* A library that is refused for its version is named.
THEOREM RefusedAreNamed == Spec => []RefusedIsNamed
  BY LoadCorrect, PTL DEF LoadInv

\* The version and the load information are those of this session.
THEOREM AnswersCurrent == Spec => []AnswersAreCurrent
  BY LoadCorrect, PTL DEF LoadInv

-----------------------------------------------------------------------------
(* Options of the command line.  The equation of Options and Others has a    *)
(* solution, by induction over the number of arguments; the loop from the    *)
(* end keeps what the first arguments give, followed by what was collected   *)
(* or left behind, equal to what the whole line gives.                       *)

\* f has what is kept of the first arguments, for each number of them.
IsCollection(n, keep, item, f) ==
  f = [i \in 0..n |-> IF i = 0 THEN <<>>
                      ELSE IF i \in keep THEN Append(f[i - 1], item[i]) ELSE f[i - 1]]

\* By induction over n, f exists for any number of arguments.
LEMMA CollectionExists ==
  ASSUME NEW n \in Nat, NEW keep, NEW item
  PROVE  \E f : IsCollection(n, keep, item, f)
  <1> DEFINE S == {k \in 0..n : \E f : IsCollection(k, keep, item, f)}
  <1>1. 0 \in S
    <2>1. 0..0 = {0}
      OBVIOUS
    <2>2. IsCollection(0, keep, item, [i \in {0} |-> <<>>])
      BY <2>1 DEF IsCollection
    <2> QED BY <2>2
  <1>2. ASSUME NEW k \in 0..(n - 1), k \in S PROVE k + 1 \in S
    <2>1. PICK f : IsCollection(k, keep, item, f)
      BY <1>2
    <2> DEFINE next == IF k + 1 \in keep THEN Append(f[k], item[k + 1]) ELSE f[k]
               g == [i \in 0..(k + 1) |-> IF i = k + 1 THEN next ELSE f[i]]
    <2>2. \A i \in 0..k : f[i] = IF i = 0 THEN <<>>
                                 ELSE IF i \in keep THEN Append(f[i - 1], item[i]) ELSE f[i - 1]
      BY <2>1, Zenon DEF IsCollection
    <2>3. g[k + 1] = next /\ \A i \in 0..k : g[i] = f[i]
      <3>1. k + 1 \in 0..(k + 1) /\ \A i \in 0..k : i \in 0..(k + 1) /\ i # k + 1
        OBVIOUS
      <3> HIDE DEF next
      <3> QED BY <3>1
    <2>4. ASSUME NEW i \in 0..(k + 1)
          PROVE g[i] = IF i = 0 THEN <<>>
                       ELSE IF i \in keep THEN Append(g[i - 1], item[i]) ELSE g[i - 1]
      <3>1. CASE i = k + 1
        <4>1. i # 0 /\ i - 1 = k /\ k \in 0..k
          BY <3>1
        <4>2. g[i] = next /\ g[i - 1] = f[k]
          BY <2>3, <3>1, <4>1
        <4> HIDE DEF g
        <4> QED BY <3>1, <4>1, <4>2
      <3>2. CASE i \in 0..k
        <4>1. i # 0 => i - 1 \in 0..k
          BY <3>2
        <4>2. g[i] = f[i] /\ (i # 0 => g[i - 1] = f[i - 1])
          BY <2>3, <3>2, <4>1
        <4> HIDE DEF g
        <4> QED BY <2>2, <3>2, <4>2
      <3> QED BY <3>1, <3>2
    <2>5. IsCollection(k + 1, keep, item, g)
      BY <2>4, Zenon DEF IsCollection
    <2>6. k + 1 \in 0..n
      OBVIOUS
    <2> HIDE DEF g
    <2> QED BY <2>5, <2>6
  <1> HIDE DEF S
  <1>3. \A k \in 0..n : k \in S
    BY <1>1, <1>2, InductionUpTo
  <1>4. n \in S
    BY <1>3
  <1> QED BY <1>4 DEF S

\* So Options and Others satisfy the equations they are defined by.
LEMMA OptionsEquation ==
  ASSUME NEW args, Len(args) \in Nat, NEW n \in 0..Len(args)
  PROVE  Options(args)[n] =
           IF n = 0 THEN <<>>
           ELSE IF args[n].isOption THEN Append(Options(args)[n - 1], WithoutPrefix(args[n]))
           ELSE Options(args)[n - 1]
  <1> DEFINE keep == {i \in 1..Len(args) : args[i].isOption}
             item == [i \in 1..Len(args) |-> WithoutPrefix(args[i])]
             body(f) == [i \in 0..Len(args) |->
                           IF i = 0 THEN <<>>
                           ELSE IF args[i].isOption THEN Append(f[i - 1], WithoutPrefix(args[i]))
                           ELSE f[i - 1]]
  <1>1. PICK f : IsCollection(Len(args), keep, item, f)
    BY CollectionExists
  <1>2. f = body(f)
    <2>1. ASSUME NEW i \in 0..Len(args), i # 0
          PROVE (i \in keep <=> args[i].isOption) /\ item[i] = WithoutPrefix(args[i])
      BY <2>1
    <2> HIDE DEF keep, item
    <2> QED BY <1>1, <2>1 DEF IsCollection
  <1>3. Options(args) = CHOOSE g : g = body(g)
    BY DEF Options
  <1>4. Options(args) = body(Options(args))
    <2> HIDE DEF body
    <2> QED BY <1>2, <1>3
  <1> HIDE DEF keep, item
  <1> QED BY <1>4, Zenon
LEMMA OthersEquation ==
  ASSUME NEW args, Len(args) \in Nat, NEW n \in 0..Len(args)
  PROVE  Others(args)[n] =
           IF n = 0 THEN <<>>
           ELSE IF args[n].isOption THEN Others(args)[n - 1]
           ELSE Append(Others(args)[n - 1], args[n])
  <1> DEFINE keep == {i \in 1..Len(args) : ~args[i].isOption}
             item == [i \in 1..Len(args) |-> args[i]]
             body(f) == [i \in 0..Len(args) |->
                           IF i = 0 THEN <<>>
                           ELSE IF args[i].isOption THEN f[i - 1] ELSE Append(f[i - 1], args[i])]
  <1>1. PICK f : IsCollection(Len(args), keep, item, f)
    BY CollectionExists
  <1>2. f = body(f)
    <2>1. ASSUME NEW i \in 0..Len(args), i # 0
          PROVE (i \in keep <=> ~args[i].isOption) /\ item[i] = args[i]
      BY <2>1
    <2> HIDE DEF keep, item
    <2> QED BY <1>1, <2>1 DEF IsCollection
  <1>3. Others(args) = CHOOSE g : g = body(g)
    BY DEF Others
  <1>4. Others(args) = body(Others(args))
    <2> HIDE DEF body
    <2> QED BY <1>2, <1>3
  <1> HIDE DEF keep, item
  <1> QED BY <1>4, Zenon

ElementsOf(args) == {args[i] : i \in DOMAIN args}
TextsOf(args) == {WithoutPrefix(arg) : arg \in ElementsOf(args)}

\* What is kept of a command line are texts of it, and arguments of it.
LEMMA ComprehensionType ==
  ASSUME NEW args, args \in Seq(ElementsOf(args)), NEW n \in 0..Len(args)
  PROVE  Options(args)[n] \in Seq(TextsOf(args)) /\ Others(args)[n] \in Seq(ElementsOf(args))
  <1> DEFINE S == {k \in 0..Len(args) : /\ Options(args)[k] \in Seq(TextsOf(args))
                                        /\ Others(args)[k] \in Seq(ElementsOf(args))}
  <1>1. Len(args) \in Nat /\ DOMAIN args = 1..Len(args)
    OBVIOUS
  <1>2. 0 \in S
    <2>1. Options(args)[0] = <<>> /\ Others(args)[0] = <<>>
      <3>1. 0 \in 0..Len(args)
        BY <1>1
      <3> HIDE DEF S
      <3> QED BY <1>1, <3>1, OptionsEquation, OthersEquation
    <2>2. <<>> \in Seq(TextsOf(args)) /\ <<>> \in Seq(ElementsOf(args)) /\ 0 \in 0..Len(args)
      BY <1>1
    <2> QED BY <2>1, <2>2
  <1>3. ASSUME NEW k \in 0..(Len(args) - 1), k \in S PROVE k + 1 \in S
    <2>1. k + 1 \in 0..Len(args) /\ k + 1 # 0 /\ (k + 1) - 1 = k /\ k + 1 \in DOMAIN args
      BY <1>1
    <2>2. args[k + 1] \in ElementsOf(args) /\ WithoutPrefix(args[k + 1]) \in TextsOf(args)
      BY <2>1 DEF ElementsOf, TextsOf
    <2>3. /\ Options(args)[k + 1] = IF args[k + 1].isOption
                                    THEN Append(Options(args)[k], WithoutPrefix(args[k + 1]))
                                    ELSE Options(args)[k]
          /\ Others(args)[k + 1] = IF args[k + 1].isOption
                                   THEN Others(args)[k] ELSE Append(Others(args)[k], args[k + 1])
      BY <1>1, <2>1, OptionsEquation, OthersEquation
    <2>4. /\ Append(Options(args)[k], WithoutPrefix(args[k + 1])) \in Seq(TextsOf(args))
          /\ Append(Others(args)[k], args[k + 1]) \in Seq(ElementsOf(args))
      BY <1>3, <2>2
    <2> QED BY <1>3, <2>1, <2>3, <2>4
  <1> HIDE DEF S
  <1>4. n \in S
    BY <1>1, <1>2, <1>3, InductionUpTo
  <1> QED BY <1>4 DEF S

\* What the loop collects backwards is reversed at the end.
LEMMA CollectedAppend ==
  ASSUME NEW S, NEW p \in Seq(S), NEW found \in Seq(S), NEW t \in S
  PROVE  p \o Collected(Append(found, t)) = Append(p, t) \o Collected(found)
  <1> DEFINE n == Len(found)
             m == Len(p)
             a == Collected(found)
             b == Collected(Append(found, t))
  <1>1. n \in Nat /\ m \in Nat /\ DOMAIN found = 1..n
    OBVIOUS
  <1>2. /\ Append(found, t) \in Seq(S) /\ Len(Append(found, t)) = n + 1
        /\ \A i \in 1..n : Append(found, t)[i] = found[i]
        /\ Append(found, t)[n + 1] = t
    OBVIOUS
  <1>3. a \in Seq(S) /\ Len(a) = n /\ \A i \in 1..n : a[i] = found[n + 1 - i]
    <2> HIDE DEF n
    <2>1. a = [i \in 1..n |-> found[n + 1 - i]]
      BY <1>1 DEF Collected, n
    <2>2. \A i \in 1..n : n + 1 - i \in 1..n
      BY <1>1
    <2>3. \A i \in 1..n : found[n + 1 - i] \in S
      BY <1>1, <2>2
    <2> HIDE DEF a
    <2> QED BY <1>1, <2>1, <2>3
  <1>4. b \in Seq(S) /\ Len(b) = n + 1 /\ b[1] = t /\ \A i \in 1..n : b[i + 1] = found[n + 1 - i]
    <2> DEFINE c == Append(found, t)
    <2> HIDE DEF n
    <2>1. b = [i \in 1..(n + 1) |-> c[n + 2 - i]]
      <3>1. DOMAIN c = 1..(n + 1) /\ Len(c) = n + 1 /\ Len(c) + 1 = n + 2
        BY <1>1, <1>2
      <3> HIDE DEF c
      <3>2. \A i \in 1..(n + 1) : Len(c) + 1 - i = n + 2 - i
        BY <1>1, <3>1
      <3>3. Collected(c) = [i \in 1..(n + 1) |-> c[Len(c) + 1 - i]]
        BY <3>1 DEF Collected
      <3>4. Collected(c) = [i \in 1..(n + 1) |-> c[n + 2 - i]]
        BY <3>2, <3>3
      <3> QED BY <3>4 DEF c
    <2>2. \A i \in 1..(n + 1) : n + 2 - i \in 1..(n + 1)
      BY <1>1
    <2>3. b \in [1..(n + 1) -> S]
      <3> HIDE DEF b
      <3>2. \A i \in 1..(n + 1) : c[i] \in S
        <4>1. \A i \in 1..(n + 1) : i \in 1..n \/ i = n + 1
          BY <1>1
        <4>2. \A i \in 1..n : c[i] \in S
          BY <1>1, <1>2
        <4> QED BY <1>2, <4>1, <4>2
      <3> HIDE DEF c
      <3>1. \A i \in 1..(n + 1) : c[n + 2 - i] \in S
        BY <2>2, <3>2
      <3> QED BY <2>1, <3>1
    <2>4. 1 \in 1..(n + 1) /\ \A i \in 1..n : i + 1 \in 1..(n + 1) /\ n + 2 - (i + 1) = n + 1 - i
                                           /\ n + 1 - i \in 1..n
      BY <1>1
    <2>5. n + 2 - 1 = n + 1
      BY <1>1
    <2> HIDE DEF b, c
    <2>6. b[1] = t /\ \A i \in 1..n : b[i + 1] = found[n + 1 - i]
      BY <1>2, <2>1, <2>4, <2>5 DEF c
    <2> QED BY <1>1, <2>3, <2>6
  <1> HIDE DEF a, b, n, m
  <1>5. \A i \in 1..n : b[i + 1] = a[i]
    BY <1>3, <1>4
  <1>6. b = <<t>> \o a
    BY <1>1, <1>3, <1>4, <1>5
  <1>7. p \o b = Append(p, t) \o a
    BY <1>3, <1>4, <1>6
  <1> QED BY <1>7 DEF a, b

LEMMA CollectedType ==
  ASSUME NEW S, NEW found \in Seq(S)
  PROVE  Collected(found) \in Seq(S) /\ (found = <<>> => Collected(found) = <<>>)
  <1> DEFINE n == Len(found)
  <1>1. n \in Nat /\ DOMAIN found = 1..n
    OBVIOUS
  <1>2. \A i \in 1..n : n + 1 - i \in 1..n /\ found[n + 1 - i] \in S
    <2> HIDE DEF n
    <2> QED BY <1>1
  <1>3. Collected(found) = [i \in 1..n |-> found[n + 1 - i]]
    BY <1>1 DEF Collected
  <1>4. Collected(found) \in Seq(S)
    BY <1>1, <1>2, <1>3
  <1>5. found = <<>> => Collected(found) = <<>>
    BY DEF Collected
  <1> QED BY <1>4, <1>5

\* del argv[i]
LEMMA DeleteElement ==
  ASSUME NEW E, NEW args \in Seq(E), NEW i \in 1..Len(args), NEW rest,
         rest = SubSeq(args, 1, i - 1) \o SubSeq(args, i + 1, Len(args))
  PROVE  /\ rest \in Seq(E) /\ i - 1 <= Len(rest)
         /\ \A k \in 1..(i - 1) : rest[k] = args[k]
         /\ SubSeq(rest, i, Len(rest)) = SubSeq(args, i + 1, Len(args))
  <1> DEFINE n == Len(args)
             a == SubSeq(args, 1, i - 1)
             b == SubSeq(args, i + 1, n)
  <1>1. n \in Nat /\ i \in 1..n
    OBVIOUS
  <1>2. a \in Seq(E) /\ Len(a) = i - 1 /\ \A k \in 1..(i - 1) : a[k] = args[k]
    OBVIOUS
  <1>3. b \in Seq(E) /\ Len(b) = n - i
    OBVIOUS
  <1> HIDE DEF n, a, b
  <1>4. rest = a \o b
    BY DEF n, a, b
  <1> SUFFICES /\ a \o b \in Seq(E) /\ i - 1 <= Len(a \o b)
               /\ \A k \in 1..(i - 1) : (a \o b)[k] = args[k]
               /\ SubSeq(a \o b, i, Len(a \o b)) = b
    BY <1>4 DEF b, n
  <1>5. /\ a \o b \in Seq(E) /\ Len(a \o b) = n - 1
        /\ \A k \in 1..(n - 1) : (a \o b)[k] = IF k <= i - 1 THEN a[k] ELSE b[k - (i - 1)]
    <2>1. Len(a) + Len(b) = n - 1
      BY <1>1, <1>2, <1>3
    <2>2. /\ a \o b \in Seq(E) /\ Len(a \o b) = Len(a) + Len(b)
          /\ \A k \in 1..Len(a) + Len(b) : (a \o b)[k] = IF k <= Len(a) THEN a[k] ELSE b[k - Len(a)]
      <3>1. a \in Seq(E) /\ b \in Seq(E)
        BY <1>2, <1>3
      <3> QED BY <3>1, ConcatProperties
    <2>3. Len(a) = i - 1
      BY <1>2
    <2> QED BY <2>1, <2>2, <2>3
  <1>6. \A k \in 1..(i - 1) : (a \o b)[k] = args[k]
    <2>1. \A k \in 1..(i - 1) : k \in 1..(n - 1) /\ k <= i - 1
      BY <1>1
    <2> QED BY <1>2, <1>5, <2>1
  <1>7. SubSeq(a \o b, i, n - 1) = b
    <2> DEFINE c == a \o b
    <2>1. \A k \in i..(n - 1) : k \in 1..(n - 1)
      BY <1>1
    <2>2. \A k \in i..(n - 1) : c[k] \in E
      BY <1>5, <2>1
    <2> HIDE DEF c
    <2>3. /\ SubSeq(c, i, n - 1) \in Seq(E) /\ Len(SubSeq(c, i, n - 1)) = n - i
          /\ \A k \in 1..(n - i) : SubSeq(c, i, n - 1)[k] = c[i + k - 1]
      <3>1. i \in Int /\ n - 1 \in Int /\ (IF i <= n - 1 THEN n - 1 - i + 1 ELSE 0) = n - i
            /\ n - 1 - i + 1 = n - i
        BY <1>1
      <3> QED BY <2>2, <3>1, SubSeqProperties
    <2>4. \A k \in 1..(n - i) : /\ i + k - 1 \in 1..(n - 1) /\ ~(i + k - 1 <= i - 1)
                                /\ i + k - 1 - (i - 1) = k
      BY <1>1
    <2>5. \A k \in 1..(n - i) : c[i + k - 1] = b[k]
      BY <1>5, <2>4 DEF c
    <2>6. SubSeq(c, i, n - 1) = b
      <3>1. n - i \in Nat
        BY <1>1
      <3>2. \A k \in 1..(n - i) : SubSeq(c, i, n - 1)[k] = b[k]
        BY <2>3, <2>5
      <3> QED BY <1>3, <2>3, <3>1, <3>2, SeqEqual
    <2> QED BY <2>6 DEF c
  <1>8. i - 1 <= n - 1
    BY <1>1
  <1> QED BY <1>5, <1>6, <1>7, <1>8

\* An argument that is left in the list joins those behind it.
LEMMA KeepElement ==
  ASSUME NEW E, NEW args \in Seq(E), NEW i \in 1..Len(args), NEW p \in Seq(E)
  PROVE  p \o SubSeq(args, i, Len(args)) = Append(p, args[i]) \o SubSeq(args, i + 1, Len(args))
  <1> DEFINE n == Len(args)
             a == SubSeq(args, i, n)
             b == SubSeq(args, i + 1, n)
  <1>1. n \in Nat /\ i \in 1..n
    OBVIOUS
  <1>2. a \in Seq(E) /\ Len(a) = n - i + 1 /\ \A k \in 1..(n - i + 1) : a[k] = args[k + i - 1]
    OBVIOUS
  <1>3. b \in Seq(E) /\ Len(b) = n - i /\ \A k \in 1..(n - i) : b[k] = args[k + i]
    OBVIOUS
  <1>4. args[i] \in E
    OBVIOUS
  <1> HIDE DEF n, a, b
  <1>5. a[1] = args[i] /\ \A k \in 1..(n - i) : a[k + 1] = b[k]
    BY <1>1, <1>2, <1>3
  <1>6. p \o a = Append(p, args[i]) \o b
    <2> DEFINE q == Append(p, args[i])
               m == Len(p)
    <2>1. m \in Nat
      OBVIOUS
    <2>2. q \in Seq(E) /\ Len(q) = m + 1 /\ q[m + 1] = args[i] /\ \A k \in 1..m : q[k] = p[k]
      BY <1>4, AppendProperties
    <2> HIDE DEF q
    <2>3. /\ p \o a \in Seq(E) /\ Len(p \o a) = m + (n - i + 1)
          /\ \A k \in 1..(m + (n - i + 1)) : (p \o a)[k] = IF k <= m THEN p[k] ELSE a[k - m]
      BY <1>2, ConcatProperties
    <2>4. /\ q \o b \in Seq(E) /\ Len(q \o b) = (m + 1) + (n - i)
          /\ \A k \in 1..((m + 1) + (n - i)) :
               (q \o b)[k] = IF k <= m + 1 THEN q[k] ELSE b[k - (m + 1)]
      <3>1. q \in Seq(E) /\ b \in Seq(E)
        BY <1>3, <2>2
      <3>2. /\ q \o b \in Seq(E) /\ Len(q \o b) = Len(q) + Len(b)
            /\ \A k \in 1..(Len(q) + Len(b)) :
                 (q \o b)[k] = IF k <= Len(q) THEN q[k] ELSE b[k - Len(q)]
        BY <3>1, ConcatProperties
      <3>3. Len(q) = m + 1 /\ Len(b) = n - i
        BY <1>3, <2>2
      <3> HIDE DEF m
      <3> QED BY <3>2, <3>3
    <2> HIDE DEF m
    <2> DEFINE x == p \o a
               y == q \o b
    <2>5. /\ x \in Seq(E) /\ Len(x) = m + (n - i + 1)
          /\ \A k \in 1..(m + (n - i + 1)) : x[k] = IF k <= m THEN p[k] ELSE a[k - m]
      BY <2>3
    <2>6. /\ y \in Seq(E) /\ Len(y) = (m + 1) + (n - i)
           /\ \A k \in 1..((m + 1) + (n - i)) :
                y[k] = IF k <= m + 1 THEN q[k] ELSE b[k - (m + 1)]
      BY <2>4
    <2> HIDE DEF x, y
    <2>7. ASSUME NEW k \in 1..(m + (n - i + 1)) PROVE x[k] = y[k]
      <3>1. CASE k <= m
        <4>1. k \in 1..m /\ k <= m /\ k <= m + 1 /\ k \in 1..((m + 1) + (n - i))
          BY <1>1, <2>1, <3>1
        <4>2. x[k] = p[k]
          BY <2>5, <4>1
        <4>3. y[k] = q[k]
          BY <2>6, <4>1
        <4> QED BY <2>2, <4>1, <4>2, <4>3
      <3>2. CASE k = m + 1
        <4>1. k - m = 1 /\ ~(k <= m) /\ k <= m + 1 /\ k \in 1..((m + 1) + (n - i))
          BY <1>1, <2>1, <3>2
        <4>2. x[k] = a[1]
          BY <2>5, <4>1
        <4>3. y[k] = q[m + 1]
          BY <2>6, <3>2, <4>1
        <4> QED BY <1>5, <2>2, <4>2, <4>3
      <3>3. CASE k > m + 1
        <4>1. /\ k - (m + 1) \in 1..(n - i) /\ (k - (m + 1)) + 1 = k - m
              /\ k \in 1..((m + 1) + (n - i)) /\ ~(k <= m + 1) /\ ~(k <= m)
          BY <1>1, <2>1, <3>3
        <4>2. a[k - m] = b[k - (m + 1)]
          BY <1>5, <4>1
        <4>3. x[k] = a[k - m]
          BY <2>5, <4>1
        <4>4. y[k] = b[k - (m + 1)]
          BY <2>6, <4>1
        <4> QED BY <4>2, <4>3, <4>4
      <3>4. k <= m \/ k = m + 1 \/ k > m + 1
        BY <1>1, <2>1
      <3> QED BY <3>1, <3>2, <3>3, <3>4
    <2>8. Len(x) = Len(y)
      BY <1>1, <2>1, <2>5, <2>6
    <2>9. \A k \in 1..Len(x) : x[k] = y[k]
      BY <2>5, <2>7
    <2>10. x = y
      BY <2>5, <2>6, <2>8, <2>9, SeqEqual
    <2> QED BY <2>10 DEF q, x, y
  <1> QED BY <1>6 DEF a, b, n

LEMMA WholeSequence ==
  ASSUME NEW E, NEW args \in Seq(E)
  PROVE  SubSeq(args, 1, Len(args)) = args /\ <<>> \o args = args /\ args \o <<>> = args
         /\ SubSeq(args, Len(args) + 1, Len(args)) = <<>>
  OBVIOUS

\* What the loop of initialize has passed of the options.
LEMMA PassedSoFar ==
  ASSUME NEW S, NEW s \in Seq(S), NEW n \in 0..Len(s)
  PROVE  /\ SubSeq(s, 1, 0) = <<>>
         /\ n = Len(s) => SubSeq(s, 1, n) = s
         /\ n # Len(s) =>
              /\ Len(SubSeq(s, 1, n)) = n /\ n + 1 \in 1..Len(s)
              /\ Append(SubSeq(s, 1, n), s[n + 1]) = SubSeq(s, 1, n + 1)
  OBVIOUS

GivenTo(n) ==
  passed = SubSeq(opts, 1, n) /\ \A i \in 1..n : opts[i] \in Encodable

LineInv ==
  /\ line \in Seq(ElementsOf(line))
  /\ pc = "collect" =>
       /\ remove
       /\ index \in 0..Len(line) /\ index <= Len(argv)
       /\ opts \in Seq(TextsOf(line)) /\ argv \in Seq(ElementsOf(line))
       /\ \A i \in 1..index : argv[i] = line[i]
       /\ Options(line)[index] \o Collected(opts) = OptionsOf(line)
       /\ Others(line)[index] \o SubSeq(argv, index + 1, Len(argv)) = Others(line)[Len(line)]
  /\ pc \notin {"idle", "collect"} =>
       /\ opts = OptionsOf(line)
       /\ argv = IF remove THEN Others(line)[Len(line)] ELSE line
  /\ pc \notin {"idle", "options", "up"} => passed = <<>>
  /\ pc = "options" => \E n \in 0..Len(opts) : GivenTo(n)
  /\ pc = "up" /\ sdk = "dll" =>
       \/ GivenTo(Len(opts))
       \/ \E n \in 1..Len(opts) :
            GivenTo(n - 1) /\ opts[n] \notin Encodable /\ status = "INIT_ERROR"

LEMMA LineInit == Init => LineInv
  BY DEF Init, LineInv, ElementsOf

\* A turn of the loop takes the last of the first arguments to the others.
LEMMA CollectKeepsLine ==
  ASSUME LineInv, Collect
  PROVE  LineInv'
  <1> DEFINE E == ElementsOf(line)
             T == TextsOf(line)
             n == Len(line)
  <1>1. /\ pc = "collect" /\ remove /\ line \in Seq(E) /\ n \in Nat
        /\ index \in 0..n /\ index <= Len(argv)
        /\ opts \in Seq(T) /\ argv \in Seq(E) /\ Len(argv) \in Nat
        /\ \A i \in 1..index : argv[i] = line[i]
        /\ Options(line)[index] \o Collected(opts) = Options(line)[n]
        /\ Others(line)[index] \o SubSeq(argv, index + 1, Len(argv)) = Others(line)[n]
        /\ line' = line /\ remove' = remove /\ sdk' = sdk /\ passed' = <<>>
    <2>1. /\ pc = "collect" /\ line' = line /\ remove' = remove /\ sdk' = sdk
          /\ passed' = <<>>
      BY DEF Collect, answers, LineInv
    <2>2. line \in Seq(E) /\ argv \in Seq(E)
      BY <2>1 DEF LineInv
    <2>3. n \in Nat /\ Len(argv) \in Nat
      <3> HIDE DEF E
      <3> QED BY <2>2
    <2> QED BY <2>1, <2>2, <2>3 DEF LineInv, OptionsOf
  <1>2. \A i \in 0..n : Options(line)[i] \in Seq(T) /\ Others(line)[i] \in Seq(E)
    BY <1>1, ComprehensionType
  <1>3. Options(line)[0] = <<>> /\ Others(line)[0] = <<>>
    <2>1. 0 \in 0..n
      BY <1>1
    <2> HIDE DEF n
    <2> QED BY <1>1, <2>1, OptionsEquation, OthersEquation DEF n
  <1> DEFINE arg == argv[index]
             left == SubSeq(argv, 1, index - 1) \o SubSeq(argv, index + 1, Len(argv))
  <1>4. ASSUME index > 0
        PROVE  /\ index \in 1..n /\ index \in 1..Len(argv) /\ index - 1 \in 0..n /\ arg = line[index]
               /\ arg \in E /\ WithoutPrefix(arg) \in T
               /\ Options(line)[index] =
                    IF arg.isOption THEN Append(Options(line)[index - 1], WithoutPrefix(arg))
                    ELSE Options(line)[index - 1]
               /\ Others(line)[index] =
                    IF arg.isOption THEN Others(line)[index - 1]
                    ELSE Append(Others(line)[index - 1], arg)
    <2>1. index \in 1..n /\ index \in 1..Len(argv) /\ index - 1 \in 0..n /\ index # 0
          /\ index \in 0..n
      BY <1>1, <1>4
    <2>2. arg = line[index] /\ arg \in E
      <3>1. index \in 1..index
        BY <2>1
      <3>2. arg = line[index]
        BY <1>1, <3>1
      <3>3. DOMAIN line = 1..n
        BY <1>1
      <3> QED BY <2>1, <3>2, <3>3 DEF ElementsOf
    <2>3. WithoutPrefix(arg) \in T
      BY <2>2 DEF TextsOf
    <2>4. /\ Options(line)[index] =
               IF line[index].isOption
               THEN Append(Options(line)[index - 1], WithoutPrefix(line[index]))
               ELSE Options(line)[index - 1]
          /\ Others(line)[index] =
               IF line[index].isOption THEN Others(line)[index - 1]
               ELSE Append(Others(line)[index - 1], line[index])
      BY <1>1, <2>1, OptionsEquation, OthersEquation
    <2> QED BY <2>1, <2>2, <2>3, <2>4
  <1>5. CASE index <= 0 /\ opts' = Collected(opts) /\ pc' = "open" /\ UNCHANGED <<argv, index>>
    <2>1. index = 0
      BY <1>1, <1>5
    <2>2. Collected(opts) \in Seq(T)
      BY <1>1, CollectedType
    <2>3. <<>> \o Collected(opts) = Options(line)[n]
      BY <1>1, <1>3, <2>1
    <2>4. <<>> \o SubSeq(argv, 1, Len(argv)) = Others(line)[n]
      <3>1. Others(line)[index] = <<>> /\ index + 1 = 1
        BY <1>3, <2>1
      <3>2. Others(line)[index] \o SubSeq(argv, index + 1, Len(argv)) = Others(line)[n]
        BY <1>1
      <3> QED BY <3>1, <3>2
    <2> HIDE DEF n, E, T
    <2>5. <<>> \o Collected(opts) = Collected(opts) /\ SubSeq(argv, 1, Len(argv)) = argv
          /\ <<>> \o argv = argv
      BY <1>1, <2>2, WholeSequence
    <2>6. opts' = OptionsOf(line) /\ argv' = Others(line)[Len(line)]
      BY <1>5, <2>3, <2>4, <2>5 DEF OptionsOf, n
    <2> QED BY <1>1, <1>5, <2>6 DEF LineInv, E
  <1>6. CASE /\ index > 0 /\ arg.isOption
             /\ opts' = Append(opts, WithoutPrefix(arg)) /\ argv' = left
             /\ index' = index - 1 /\ pc' = pc
    <2>1. opts' \in Seq(T)
      BY <1>1, <1>4, <1>6
    <2>2. /\ argv' \in Seq(E) /\ index - 1 <= Len(argv')
          /\ \A k \in 1..(index - 1) : argv'[k] = argv[k]
          /\ SubSeq(argv', index, Len(argv')) = SubSeq(argv, index + 1, Len(argv))
      <3>1. argv \in Seq(E) /\ index \in 1..Len(argv)
        BY <1>1, <1>4, <1>6
      <3>2. argv' = SubSeq(argv, 1, index - 1) \o SubSeq(argv, index + 1, Len(argv))
        BY <1>6
      <3> HIDE DEF E
      <3> QED BY <3>1, <3>2, DeleteElement
    <2>3. \A k \in 1..(index - 1) : argv'[k] = line[k]
      BY <1>1, <2>2
    <2> HIDE DEF n, E, T, arg, left
    <2>4. Options(line)[index - 1] \o Collected(opts') = Options(line)[n]
      <3>1. Options(line)[index - 1] \o Collected(Append(opts, WithoutPrefix(arg)))
              = Append(Options(line)[index - 1], WithoutPrefix(arg)) \o Collected(opts)
        <4>1. Options(line)[index - 1] \in Seq(T) /\ opts \in Seq(T) /\ WithoutPrefix(arg) \in T
          BY <1>1, <1>2, <1>4, <1>6
        <4> QED BY <4>1, CollectedAppend
      <3> QED BY <1>1, <1>4, <1>6, <3>1
    <2>5. Others(line)[index - 1] \o SubSeq(argv', index, Len(argv')) = Others(line)[n]
      BY <1>1, <1>4, <1>6, <2>2
    <2>6. (index - 1) + 1 = index /\ index - 1 \in 0..n
      BY <1>1, <1>4, <1>6
    <2> QED BY <1>1, <1>6, <2>1, <2>2, <2>3, <2>4, <2>5, <2>6 DEF LineInv, OptionsOf, n, E, T
  <1>7. CASE index > 0 /\ ~arg.isOption /\ index' = index - 1 /\ UNCHANGED <<pc, opts, argv>>
    <2>1. \A k \in 1..(index - 1) : k \in 1..index
      BY <1>1, <1>4, <1>7
    <2> HIDE DEF n, E, T, arg
    <2>2. Options(line)[index - 1] \o Collected(opts) = Options(line)[n]
      BY <1>1, <1>4, <1>7
    <2>3. Others(line)[index - 1] \o SubSeq(argv, index, Len(argv)) = Others(line)[n]
      <3>1. Others(line)[index - 1] \o SubSeq(argv, index, Len(argv))
              = Append(Others(line)[index - 1], arg) \o SubSeq(argv, index + 1, Len(argv))
        <4>1. Others(line)[index - 1] \in Seq(E) /\ argv \in Seq(E) /\ index \in 1..Len(argv)
          BY <1>1, <1>2, <1>4, <1>7
        <4> QED BY <4>1, KeepElement DEF arg
      <3> QED BY <1>1, <1>4, <1>7, <3>1
    <2>4. (index - 1) + 1 = index /\ index - 1 \in 0..n /\ index - 1 <= Len(argv)
      BY <1>1, <1>4, <1>7
    <2> QED BY <1>1, <1>7, <2>1, <2>2, <2>3, <2>4 DEF LineInv, OptionsOf, n, E, T
  <1> QED BY <1>5, <1>6, <1>7 DEF Collect

LEMMA LineStep == LineInv /\ LoadInv /\ [Next]_vars => LineInv'
  <1> SUFFICES ASSUME LineInv, LoadInv, [Next]_vars PROVE LineInv'
    OBVIOUS
  <1>1. CASE Start
    <2>1. /\ line' \in CommandLines /\ argv' = line'
          /\ passed' = <<>>
          /\ \/ ~remove' /\ opts' = OptionsOf(line') /\ pc' = "open"
             \/ remove' /\ opts' = <<>> /\ index' = Len(line') /\ pc' = "collect"
      BY <1>1 DEF Start, LoopStart
    <2>2. line' \in Seq(ElementsOf(line'))
      BY <2>1, CommandLinesAssumption DEF ElementsOf
    <2>3. CASE pc' = "open"
      BY <2>1, <2>2, <2>3 DEF LineInv
    <2>4. CASE pc' = "collect"
      <3> DEFINE n == Len(line')
      <3>1. n \in Nat /\ n \in 0..n /\ remove' /\ opts' = <<>> /\ index' = n
        BY <2>1, <2>2, <2>4
      <3>2. Options(line')[n] \in Seq(TextsOf(line')) /\ Others(line')[n] \in Seq(ElementsOf(line'))
        BY <2>2, <3>1, ComprehensionType
      <3>3. SubSeq(line', n + 1, n) = <<>>
        BY <2>2, WholeSequence
      <3>4. Collected(opts') = <<>>
        BY <3>1 DEF Collected
      <3>5. opts' \in Seq(TextsOf(line'))
        BY <3>1
      <3> HIDE DEF n
      <3>6. Options(line')[n] \o <<>> = Options(line')[n] /\ Others(line')[n] \o <<>> = Others(line')[n]
        BY <3>2, WholeSequence
      <3>7. argv' = line' /\ argv' \in Seq(ElementsOf(line')) /\ index' <= Len(argv')
        BY <2>1, <2>2, <3>1 DEF n
      <3>8. \A i \in 1..index' : argv'[i] = line'[i]
        BY <3>7
      <3>9. Options(line')[index'] \o Collected(opts') = OptionsOf(line')
        BY <3>1, <3>4, <3>6 DEF OptionsOf, n
      <3>10. Others(line')[index'] \o SubSeq(argv', index' + 1, Len(argv'))
               = Others(line')[Len(line')]
        BY <3>1, <3>3, <3>6, <3>7 DEF n
      <3>11. index' \in 0..Len(line')
        BY <3>1 DEF n
      <3> QED BY <2>1, <2>2, <2>4, <3>1, <3>5, <3>7, <3>8, <3>9, <3>10, <3>11 DEF LineInv
    <2> QED BY <2>1, <2>3, <2>4
  <1>2. CASE Collect
    BY <1>2, CollectKeepsLine
  <1>3. ASSUME pc = "options"
        PROVE  /\ opts = OptionsOf(line) /\ opts \in Seq(TextsOf(line))
               /\ argv = IF remove THEN Others(line)[Len(line)] ELSE line
               /\ line \in Seq(ElementsOf(line))
               /\ \E n \in 0..Len(opts) : GivenTo(n)
    <2>1. /\ line \in Seq(ElementsOf(line)) /\ opts = OptionsOf(line)
          /\ argv = IF remove THEN Others(line)[Len(line)] ELSE line
          /\ \E n \in 0..Len(opts) : GivenTo(n)
      BY <1>3 DEF LineInv
    <2>2. Len(line) \in 0..Len(line)
      <3> DEFINE E == ElementsOf(line)
      <3> HIDE DEF E
      <3> QED BY <2>1 DEF E
    <2>3. OptionsOf(line) \in Seq(TextsOf(line))
      BY <2>1, <2>2, ComprehensionType DEF OptionsOf
    <2> QED BY <2>1, <2>3
  <1>4. CASE SetOption
    <2>1. /\ pc = "options" /\ pc' = "options" /\ passed # opts /\ NextOption \in Encodable
          /\ passed' = Append(passed, NextOption)
          /\ UNCHANGED <<line, remove, argv, opts>>
      BY <1>4 DEF SetOption, arguments
    <2>2. PICK n \in 0..Len(opts) : GivenTo(n)
      BY <1>3, <2>1
    <2> DEFINE T == TextsOf(line)
    <2> HIDE DEF T
    <2>3. opts \in Seq(T)
      BY <1>3, <2>1 DEF T
    <2>4. n # Len(opts)
      BY <2>1, <2>2, <2>3, PassedSoFar DEF GivenTo
    <2>5. /\ Len(passed) = n /\ n + 1 \in 1..Len(opts)
          /\ Append(passed, opts[n + 1]) = SubSeq(opts, 1, n + 1)
      BY <2>2, <2>3, <2>4, PassedSoFar DEF GivenTo
    <2>6. \A i \in 1..(n + 1) : opts[i] \in Encodable
      <3>1. \A i \in 1..(n + 1) : i \in 1..n \/ i = n + 1
        BY <2>2
      <3> QED BY <2>1, <2>2, <2>5, <3>1 DEF GivenTo, NextOption
    <2>7. (GivenTo(n + 1))' /\ n + 1 \in 0..Len(opts')
      BY <2>1, <2>5, <2>6 DEF GivenTo, NextOption
    <2> QED BY <1>3, <2>1, <2>7 DEF LineInv, ElementsOf, TextsOf
  <1>5. CASE OptionError
    <2>1. /\ pc = "options" /\ pc' = "up" /\ passed # opts /\ NextOption \notin Encodable
          /\ status' = "INIT_ERROR"
          /\ UNCHANGED <<line, remove, argv, opts, passed>>
      BY <1>5 DEF OptionError, arguments
    <2>2. PICK n \in 0..Len(opts) : GivenTo(n)
      BY <1>3, <2>1
    <2> DEFINE T == TextsOf(line)
    <2> HIDE DEF T
    <2>3. opts \in Seq(T)
      BY <1>3, <2>1 DEF T
    <2>4. n # Len(opts)
      BY <2>1, <2>2, <2>3, PassedSoFar DEF GivenTo
    <2>5. Len(passed) = n /\ n + 1 \in 1..Len(opts) /\ (n + 1) - 1 = n
      BY <2>2, <2>3, <2>4, PassedSoFar DEF GivenTo
    <2>6. opts[n + 1] \notin Encodable
      BY <2>1, <2>5 DEF NextOption
    <2>7. (GivenTo((n + 1) - 1))' /\ n + 1 \in 1..Len(opts')
      BY <2>1, <2>2, <2>5 DEF GivenTo
    <2> QED BY <1>3, <2>1, <2>6, <2>7 DEF LineInv, ElementsOf, TextsOf
  <1>6. CASE NativeInit
    <2>1. /\ pc = "options" /\ pc' = "up" /\ passed = opts
          /\ UNCHANGED <<line, remove, argv, opts, passed>>
      BY <1>6 DEF NativeInit, arguments
    <2>2. PICK n \in 0..Len(opts) : GivenTo(n)
      BY <1>3, <2>1
    <2> DEFINE T == TextsOf(line)
    <2> HIDE DEF T
    <2>3. opts \in Seq(T)
      BY <1>3, <2>1 DEF T
    <2>4. n = Len(opts)
      BY <2>1, <2>2, <2>3, PassedSoFar DEF GivenTo
    <2>5. (GivenTo(Len(opts)))'
      BY <2>1, <2>2, <2>4 DEF GivenTo
    <2> QED BY <1>3, <2>1, <2>5 DEF LineInv, ElementsOf, TextsOf
  <1>7. CASE /\ UNCHANGED <<line, remove, argv, opts, index, passed>>
             /\ pc' = "collect" => pc = "collect"
             /\ pc' \notin {"idle", "collect"} => pc \notin {"idle", "collect"}
             /\ pc' \notin {"idle", "options", "up"} => pc \notin {"idle", "options", "up"}
             /\ pc' = "options" => pc \in {"options", "bind"}
             /\ pc' = "up" /\ sdk' = "dll" => pc = "up" /\ sdk = "dll" /\ status' = status
    <2>1. UNCHANGED <<Options(line), Others(line), OptionsOf(line), ElementsOf(line),
                      TextsOf(line), Collected(opts)>>
      BY <1>7 DEF Options, Others, OptionsOf, ElementsOf, TextsOf, Collected
    <2>2. \A n : (GivenTo(n))' <=> GivenTo(n)
      BY <1>7 DEF GivenTo
    <2>3. ASSUME pc' = "options" PROVE \E n \in 0..Len(opts) : GivenTo(n)
      <3>1. CASE pc = "options"
        BY <1>3, <3>1
      <3>2. CASE pc = "bind"
        <4>1. passed = <<>> /\ opts = OptionsOf(line) /\ line \in Seq(ElementsOf(line))
          BY <3>2 DEF LineInv
        <4>2. Len(line) \in 0..Len(line)
          <5> DEFINE E == ElementsOf(line)
          <5> HIDE DEF E
          <5> QED BY <4>1 DEF E
        <4> DEFINE T == TextsOf(line)
        <4>3. opts \in Seq(T)
          BY <4>1, <4>2, ComprehensionType DEF OptionsOf
        <4> HIDE DEF T
        <4>4. 0 \in 0..Len(opts) /\ SubSeq(opts, 1, 0) = <<>> /\ 1..0 = {}
          BY <4>3
        <4> QED BY <4>1, <4>4 DEF GivenTo
      <3> QED BY <1>7, <2>3, <3>1, <3>2
    <2>4. /\ line' \in Seq(ElementsOf(line'))
          /\ pc' = "collect" =>
               /\ remove'
               /\ index' \in 0..Len(line') /\ index' <= Len(argv')
               /\ opts' \in Seq(TextsOf(line')) /\ argv' \in Seq(ElementsOf(line'))
               /\ \A i \in 1..index' : argv'[i] = line'[i]
               /\ Options(line')[index'] \o Collected(opts') = OptionsOf(line')
               /\ Others(line')[index'] \o SubSeq(argv', index' + 1, Len(argv'))
                    = Others(line')[Len(line')]
      BY <1>7, <2>1 DEF LineInv
    <2>5. pc' \notin {"idle", "collect"} =>
            /\ opts' = OptionsOf(line')
            /\ argv' = IF remove' THEN Others(line')[Len(line')] ELSE line'
      BY <1>7, <2>1 DEF LineInv
    <2>6. /\ pc' \notin {"idle", "options", "up"} => passed' = <<>>
          /\ pc' = "options" => \E n \in 0..Len(opts') : (GivenTo(n))'
          /\ pc' = "up" /\ sdk' = "dll" =>
               \/ (GivenTo(Len(opts)))'
               \/ \E n \in 1..Len(opts') :
                    (GivenTo(n - 1))' /\ opts'[n] \notin Encodable /\ status' = "INIT_ERROR"
      BY <1>7, <2>2, <2>3 DEF LineInv, GivenTo
    <2> QED BY <2>4, <2>5, <2>6 DEF LineInv
  <1>8. ASSUME UNCHANGED vars \/ Open \/ BindMandatory \/ Gate \/ BindLoadInfo \/ BindGroup
               \/ Use \/ Shutdown \/ Finalize
        PROVE  /\ UNCHANGED <<line, remove, argv, opts, index, passed>>
               /\ pc' = "collect" => pc = "collect"
               /\ pc' \notin {"idle", "collect"} => pc \notin {"idle", "collect"}
               /\ pc' \notin {"idle", "options", "up"} => pc \notin {"idle", "options", "up"}
               /\ pc' = "options" => pc \in {"options", "bind"}
               /\ pc' = "up" /\ sdk' = "dll" => pc = "up" /\ sdk = "dll" /\ status' = status
    <2>1. CASE UNCHANGED vars
      BY <2>1 DEF vars
    <2>2. CASE Open
      BY <2>2 DEF Open, Fail, Caught, arguments
    <2>3. CASE BindMandatory
      BY <2>3 DEF BindMandatory, Fail, Caught, arguments
    <2>4. CASE Gate
      BY <2>4 DEF Gate, Fail, Caught, arguments
    <2>5. CASE BindLoadInfo
      BY <2>5 DEF BindLoadInfo, Fail, Caught, arguments
    <2>6. CASE BindGroup
      BY <2>6 DEF BindGroup, Fail, Caught, arguments
    <2>7. CASE Use
      BY <2>7 DEF Use, arguments, answers
    <2>8. CASE Shutdown
      BY <2>8 DEF Shutdown, arguments
    <2>9. CASE Finalize
      BY <2>9 DEF Finalize, arguments, answers
    <2> QED BY <1>8, <2>1, <2>2, <2>3, <2>4, <2>5, <2>6, <2>7, <2>8, <2>9
  <1> QED BY <1>1, <1>2, <1>4, <1>5, <1>6, <1>7, <1>8 DEF Next, Initialize

LEMMA LineCorrect == Spec => []LineInv
  BY LineInit, LineStep, LoadCorrect, PTL DEF Spec

\* The library that is used gets the options of the command line in their order,
\* whether they are deleted from argv or not: all of them, or those before one
\* that raises, and then the InitResult is INIT_ERROR; the rest of argv keeps its
\* order.  For command lines of any length.
THEOREM OptionsArrive == Spec => []OptionsReachLibrary
  <1>1. ASSUME LineInv PROVE OptionsReachLibrary
    <2> SUFFICES ASSUME pc = "up" PROVE OptionsReachLibrary
      BY DEF OptionsReachLibrary
    <2>1. /\ line \in Seq(ElementsOf(line)) /\ opts = OptionsOf(line)
          /\ argv = IF remove THEN Others(line)[Len(line)] ELSE line
      BY <1>1 DEF LineInv
    <2>2. Len(line) \in 0..Len(line)
      <3> DEFINE E == ElementsOf(line)
      <3> HIDE DEF E
      <3> QED BY <2>1 DEF E
    <2> DEFINE T == TextsOf(line)
    <2>3. opts \in Seq(T)
      BY <2>1, <2>2, ComprehensionType DEF OptionsOf
    <2> HIDE DEF T
    <2>4. ASSUME GivenTo(Len(opts))
          PROVE  passed = opts /\ \A i \in DOMAIN passed : passed[i] \in Encodable
      <3>1. passed = opts /\ DOMAIN opts = 1..Len(opts)
        BY <2>3, <2>4, PassedSoFar DEF GivenTo
      <3> QED BY <2>4, <3>1 DEF GivenTo
    <2>5. ASSUME sdk = "dll"
          PROVE  \/ GivenTo(Len(opts))
                 \/ \E n \in 1..Len(opts) :
                      GivenTo(n - 1) /\ opts[n] \notin Encodable /\ status = "INIT_ERROR"
      BY <1>1, <2>5 DEF LineInv
    <2> QED BY <2>1, <2>4, <2>5 DEF OptionsReachLibrary, GivenTo
  <1> QED BY <1>1, LineCorrect, PTL

-----------------------------------------------------------------------------
(* The choice of an interface as one step                                    *)

\* What an interface that is there goes with, beyond LoadInv.
ChoiceInv ==
  /\ pc = "options" => status \in {"INITIALIZED", "INITIALIZED_WITH_WARNING"}
  /\ pc = "up" /\ sdk = "dll" =>
       /\ status \in {"INITIALIZED", "INITIALIZED_WITH_WARNING", "INIT_ERROR"}
       /\ passed # opts => status = "INIT_ERROR"
  /\ pc = "up" /\ sdk = "null" =>
       /\ status = "STUB_LOAD_ERROR" /\ info = Unknown
       /\ version \in [agent : {"-"}, sdk : Version \cup {NoVersion}]
       /\ lib # NoLibrary => version.sdk \in Choice!Told(lib)

\* NativeChoice means the same functions and versions.
LEMMA ToldMeans ==
  ASSUME NEW l
  PROVE  Choice!Told(l) = IF l.missing \cap Names(Mandatory) # {} THEN {NoVersion}
                          ELSE IF ~InRange(l.version) THEN {l.version}
                          ELSE {l.version, NoVersion}
  <1>1. Choice!Names(Choice!Mandatory) = Names(Mandatory)
    BY DEF Choice!Names, Names, Choice!Mandatory, Mandatory
  <1>2. Choice!InRange(l.version) <=> InRange(l.version)
    BY DEF Choice!InRange, InRange
  <1> QED BY <1>1, <1>2 DEF Choice!Told

LEMMA ChoiceInit == Init => ChoiceInv
  BY DEF Init, ChoiceInv

\* A failed load tells what it may tell.
LEMMA FailTells ==
  ASSUME NEW error, NEW attributes, NEW told \in [agent : {"-"}, sdk : Version \cup {NoVersion}],
         Fail(error, told, attributes), lib' # NoLibrary => told.sdk \in Choice!Told(lib')
  PROVE  ChoiceInv'
  BY DEF Fail, Caught, ChoiceInv

LEMMA ChoiceStep == ChoiceInv /\ LoadInv /\ [Next]_vars => ChoiceInv'
  <1> SUFFICES ASSUME ChoiceInv, LoadInv, [Next]_vars PROVE ChoiceInv'
    OBVIOUS
  <1>1. CASE Start
    BY <1>1 DEF Start, ChoiceInv
  <1>2. CASE Collect
    BY <1>2 DEF Collect, ChoiceInv
  <1>3. CASE Open
    <2>1. CASE pc' = "mandatory"
      BY <2>1 DEF ChoiceInv
    <2>2. CASE (\E error \in {"ImportError", "SDKError"} : Fail(error, NoAnswer, {}))
               /\ lib' = NoLibrary
      <3>1. PICK error : Fail(error, NoAnswer, {})
        BY <2>2
      <3>2. NoAnswer \in [agent : {"-"}, sdk : Version \cup {NoVersion}]
        BY DEF NoAnswer
      <3> QED BY <2>2, <3>1, <3>2, FailTells
    <2> QED BY <1>3, <2>1, <2>2 DEF Open
  <1>4. CASE BindMandatory
    <2> DEFINE ok == BoundUpToMissing(Mandatory)
    <2>1. CASE ok = Names(Mandatory) /\ pc' = "gate"
      BY <2>1 DEF ChoiceInv
    <2>2. CASE ok # Names(Mandatory) /\ Fail("SDKInitializationError", RefusedVersion, ok)
      <3>1. sdkVersion = NoVersion /\ lib' = lib
        BY <1>4 DEF BindMandatory, LoadInv
      <3>2. Names(Mandatory) \cap lib.missing # {}
        BY <2>2, AllBound, GroupsShape
      <3>3. NoVersion \in Choice!Told(lib')
        BY <3>1, <3>2, ToldMeans
      <3>4. /\ RefusedVersion \in [agent : {"-"}, sdk : Version \cup {NoVersion}]
            /\ RefusedVersion.sdk = NoVersion
        BY <3>1 DEF RefusedVersion
      <3> HIDE DEF ok
      <3> QED BY <2>2, <3>3, <3>4, FailTells
    <2> QED BY <1>4, <2>1, <2>2 DEF BindMandatory
  <1>5. CASE Gate
    <2>1. CASE pc' = "load_info"
      BY <2>1 DEF ChoiceInv
    <2>2. CASE ~Accepted(lib.version) /\ Fail("SDKInitializationError", RefusedVersion', bound)
      <3>1. /\ lib \in Libraries /\ lib.version \in Version /\ lib' = lib
            /\ sdkVersion' = lib.version /\ Names(Mandatory) \cap lib.missing = {}
        BY <1>5, LibraryShape DEF Gate, LoadInv, TypeOK
      <3>2. RefusedVersion' \in [agent : {"-"}, sdk : Version \cup {NoVersion}]
            /\ (RefusedVersion').sdk = lib.version
        BY <3>1 DEF RefusedVersion
      <3>3. lib.version \in Choice!Told(lib')
        BY <2>2, <3>1, GateIsRange, ToldMeans
      <3> QED BY <2>2, <3>2, <3>3, FailTells
    <2> QED BY <1>5, <2>1, <2>2 DEF Gate
  <1>6. CASE BindLoadInfo
    <2>1. CASE pc' = "bind"
      BY <2>1 DEF ChoiceInv
    <2>2. CASE Fail("SDKInitializationError", RefusedVersion, bound)
      <3>1. /\ lib.version \in Version /\ lib' = lib /\ sdkVersion = lib.version /\ Checked
        BY <1>6, LibraryShape DEF BindLoadInfo, LoadInv, TypeOK
      <3>2. RefusedVersion \in [agent : {"-"}, sdk : Version \cup {NoVersion}]
            /\ RefusedVersion.sdk = lib.version
        BY <3>1 DEF RefusedVersion
      <3>3. lib.version \in Choice!Told(lib')
        BY <3>1, ToldMeans DEF Checked
      <3> QED BY <2>2, <3>2, <3>3, FailTells
    <2> QED BY <1>6, <2>1, <2>2 DEF BindLoadInfo
  <1>7. CASE BindGroup
    <2> DEFINE ok == BoundUpToMissing(Groups[group])
    <2>1. CASE pc' = "bind" \/ (pc' = "options" /\ status' = "INITIALIZED")
      BY <2>1 DEF ChoiceInv
    <2>2. CASE Fail("AttributeError", NoAnswer, bound \cup ok)
      <3>1. lib' = lib /\ Checked
        BY <1>7 DEF BindGroup, LoadInv
      <3>2. NoVersion \in Choice!Told(lib')
        BY <3>1, ToldMeans DEF Checked
      <3>3. /\ NoAnswer \in [agent : {"-"}, sdk : Version \cup {NoVersion}]
            /\ NoAnswer.sdk = NoVersion
        BY DEF NoAnswer
      <3> HIDE DEF ok
      <3> QED BY <2>2, <3>2, <3>3, FailTells
    <2> QED BY <1>7, <2>1, <2>2 DEF BindGroup
  <1>8. CASE SetOption \/ OptionError
    BY <1>8 DEF SetOption, OptionError, ChoiceInv, LoadInv
  <1>9. CASE NativeInit
    BY <1>9 DEF NativeInit, arguments, ChoiceInv, LoadInv
  <1>10. CASE Use
    BY <1>10 DEF Use, answers, arguments, ChoiceInv
  <1>11. CASE Shutdown
    BY <1>11 DEF Shutdown, ChoiceInv
  <1>12. CASE Finalize
    <2>1. UNCHANGED <<pc, sdk, status, info, version, lib, passed, opts>>
      BY <1>12 DEF Finalize, answers, arguments
    <2> QED BY <2>1, ToldMeans DEF ChoiceInv
  <1>13. CASE UNCHANGED vars
    <2>1. UNCHANGED <<pc, sdk, status, info, version, lib, passed, opts>>
      BY <1>13 DEF vars
    <2> QED BY <2>1, ToldMeans DEF ChoiceInv
  <1> QED BY <1>1, <1>2, <1>3, <1>4, <1>5, <1>6, <1>7, <1>8, <1>9, <1>10, <1>11, <1>12,
             <1>13 DEF Next, Initialize

LEMMA ChoiceRefinedInit == Init => Choice!Init
  BY DEF Init, Choice!Init, WhenUp, NoAnswer, Unknown, Choice!NoAnswer, Choice!NoAgent

\* A step that makes an interface appear is the choice; one that drops it is the
\* shutdown; the others are not seen.
LEMMA ChoiceRefinedStep ==
  ASSUME LoadInv, LoadInv', ChoiceInv', [Next]_vars
  PROVE  [Choice!Next]_(Choice!vars)
  <1>1. CASE pc # "up" /\ pc' # "up"
    BY <1>1 DEF WhenUp, Choice!vars
  <1>2. CASE pc # "up" /\ pc' = "up"
    <2>1. sdk' \in {"dll", "null"} /\ lib' \in Libraries \cup {NoLibrary}
      BY <1>2 DEF LoadInv, TypeOK
    <2>2. WhenUp(sdk, "none") = "none"
      BY <1>2 DEF WhenUp
    <2>3. /\ WhenUp(sdk, "none")' = sdk' /\ WhenUp(status, "none")' = status'
          /\ WhenUp(version, NoAnswer)' = version' /\ WhenUp(info, Unknown)' = info'
      BY <1>2 DEF WhenUp
    <2>4. CASE sdk' = "dll"
      <3>1. /\ lib' \in Libraries /\ lib'.missing = {} /\ InRange(lib'.version)
        BY <2>1, <2>4 DEF LoadInv
      <3>2. Choice!Usable(lib')
        BY <3>1 DEF Choice!Usable, Choice!InRange, InRange
      <3>3. CASE passed' = opts'
        <4>1. version' = [agent |-> IF lib'.agent = "missing" THEN "" ELSE "agent",
                          sdk |-> lib'.version]
          BY <1>2, <2>4, <3>3 DEF LoadInv, AnswersAreCurrent, AgentVersion
        <4>2. info' = [found |-> lib'.agent # "missing", compatible |-> lib'.agent = "active"]
          <5>1. /\ info' \in [found : BOOLEAN, compatible : BOOLEAN]
                /\ info'.found <=> lib'.agent # "missing"
                /\ info'.compatible <=> lib'.agent = "active"
            BY <1>2, <2>4, <3>3 DEF LoadInv, TypeOK, AnswersAreCurrent
          <5> QED BY <5>1
        <4>3. status' \in {"INITIALIZED", "INITIALIZED_WITH_WARNING", "INIT_ERROR"}
          BY <1>2, <2>4 DEF ChoiceInv
        <4>4. Choice!Use(lib')
          BY <2>3, <2>4, <3>2, <4>1, <4>2, <4>3 DEF Choice!Use
        <4> QED BY <2>2, <3>1, <4>4 DEF Choice!Next, Choice!Initialize
      <3>4. CASE passed' # opts'
        <4>1. version' = Unasked /\ info' = Unknown
          BY <1>2, <2>4, <3>4 DEF LoadInv, AnswersAreCurrent
        <4>2. status' = "INIT_ERROR"
          BY <1>2, <2>4, <3>4 DEF ChoiceInv
        <4>3. Choice!KeepUninitialized(lib')
          BY <2>3, <2>4, <3>2, <4>1, <4>2
             DEF Choice!KeepUninitialized, Choice!NoAgent, Unasked, Unknown
        <4> QED BY <2>2, <3>1, <4>3 DEF Choice!Next, Choice!Initialize
      <3> QED BY <3>3, <3>4
    <2>5. CASE sdk' = "null"
      <3>1. /\ status' = "STUB_LOAD_ERROR" /\ info' = Unknown
            /\ version' \in [agent : {"-"}, sdk : Version \cup {NoVersion}]
            /\ lib' # NoLibrary => version'.sdk \in Choice!Told(lib')
        BY <1>2, <2>5 DEF ChoiceInv
      <3>2. version' = [agent |-> "-", sdk |-> version'.sdk]
        BY <3>1
      <3>3. ASSUME NEW told, version'.sdk \in told PROVE Choice!Replace(told)
        BY <2>3, <2>5, <3>1, <3>2, <3>3 DEF Choice!Replace, Choice!NoAgent, Unknown
      <3>4. CASE lib' = NoLibrary
        <4>1. version'.sdk = NoVersion
          BY <1>2, <2>5, <3>4 DEF LoadInv, RefusedIsNamed
        <4>2. Choice!Replace({NoVersion})
          BY <3>3, <4>1
        <4> QED BY <2>2, <4>2 DEF Choice!Next, Choice!Initialize
      <3>5. CASE lib' # NoLibrary
        <4>1. ~Choice!Usable(lib') /\ lib' \in Libraries
          BY <1>2, <2>1, <2>5, <3>5
             DEF LoadInv, UsedIffUsable, Choice!Usable, Choice!InRange, InRange
        <4>2. Choice!Replace(Choice!Told(lib'))
          BY <3>1, <3>3, <3>5
        <4> QED BY <2>2, <4>1, <4>2 DEF Choice!Next, Choice!Initialize
      <3> QED BY <3>4, <3>5
    <2> QED BY <2>1, <2>4, <2>5
  <1>3. CASE pc = "up" /\ pc' # "up"
    <2>1. Shutdown
      BY <1>3 DEF Next, Initialize, vars, Start, Collect, Open, BindMandatory, Gate, BindLoadInfo,
                  BindGroup, SetOption, OptionError, NativeInit, Use, Finalize
    <2>2. WhenUp(sdk, "none") # "none"
      BY <1>3 DEF LoadInv, TypeOK, WhenUp
    <2>3. Choice!Shutdown
      BY <1>3, <2>2 DEF Choice!Shutdown, WhenUp, NoAnswer, Unknown, Choice!NoAnswer,
                        Choice!NoAgent
    <2> QED BY <2>3 DEF Choice!Next
  <1>4. CASE pc = "up" /\ pc' = "up"
    <2>1. Use \/ Finalize \/ UNCHANGED vars
      BY <1>4 DEF Next, Initialize, Start, Collect, Open, BindMandatory, Gate, BindLoadInfo,
                  BindGroup, SetOption, OptionError, NativeInit, Shutdown
    <2>2. UNCHANGED <<pc, sdk, status, version, info>>
      BY <2>1 DEF Use, Finalize, vars, answers
    <2> QED BY <2>2 DEF WhenUp, Choice!vars
  <1> QED BY <1>1, <1>2, <1>3, <1>4

\* initialize, with all its stages, ways to fail and left-over objects, is the
\* choice of an interface in one step, for any set of libraries.
THEOREM LoadingImplementsChoice == Spec => ImplementsChoice
  <1>1. LoadInv /\ LoadInv' /\ ChoiceInv' /\ [Next]_vars => [Choice!Next]_(Choice!vars)
    BY ChoiceRefinedStep
  <1>2. Spec => []ChoiceInv
    BY ChoiceInit, ChoiceStep, LoadCorrect, PTL DEF Spec
  <1> QED BY <1>1, <1>2, ChoiceRefinedInit, LoadCorrect, PTL
          DEF Spec, ImplementsChoice, Choice!Spec
=============================================================================
