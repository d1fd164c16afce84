----------------------------- MODULE NativeLoad -----------------------------
(***************************************************************************)
(* Loading the native library: the options from the command line, loadsdk, *)
(* SDKDllInterface.__init__, its initialize, and the null interface that   *)
(* initialize falls back to.                                               *)
(*                                                                         *)
(* Sessions follow each other; each may find another library.  Lifecycle   *)
(* has the same calls with their lock, their counter and their errors, and *)
(* one step, InitLoad, where this module looks at the library.             *)
(***************************************************************************)
EXTENDS SdkFunctions, SdkVersion, Integers

CONSTANTS
  Libraries,    \* what can be found: [version, agent, missing]; see the assumption
  NoLibrary,
  NoVersion,    \* '-'
  CommandLines, \* sequences of arguments [isOption, text]
  Encodable,    \* the texts that can be converted for the library
  MaxSessions   \* bound: calls of initialize

\* agent is what the library finds: no agent, one it cannot work with, or one
\* it can; missing is what it does not export.
ASSUME LibrariesAssumption ==
  /\ Libraries \subseteq [version : Version, agent : {"missing", "incompatible", "active"},
                          missing : SUBSET Functions]
  /\ NoLibrary \notin Libraries

\* A command line is a sequence, of whatever arguments.
ASSUME CommandLinesAssumption ==
  \A args \in CommandLines : args \in Seq({args[i] : i \in DOMAIN args})

ASSUME NoVersionAssumption == NoVersion \notin Version

VARIABLES
  pc,        \* where the calls of the application are
  line,      \* history: the command line
  remove,    \* whether options are removed from argv
  argv,
  opts,      \* the result of sdkopts_from_commandline
  index,     \* i in its loop
  lib,       \* the library of this session
  bound,     \* functions the interface object has attributes for
  group,     \* the group of functions that is bound next
  sdkVersion,\* _agent_sdk_version: a version, or '-'
  passed,    \* history: options given to the library, in order
  sdk,       \* nativeagent._sdk
  version,   \* what agent_version_string tells
  info,      \* _agent_found, _agent_is_compatible
  status,    \* status of the InitResult
  garbage,   \* the attributes of interface objects that __del__ waits for
  unbound,   \* history: functions called although they were not bound
  sessions

vars == <<pc, line, remove, argv, opts, index, lib, bound, group, sdkVersion, passed, sdk,
          version, info, status, garbage, unbound, sessions>>
arguments == <<line, remove, argv, opts, index>>
answers == <<sdk, version, info, status>>

Unknown == [found |-> FALSE, compatible |-> FALSE]

TypeOK ==
  /\ pc \in {"idle", "collect", "open", "mandatory", "gate", "load_info", "bind",
             "options", "up"}
  /\ lib \in Libraries \cup {NoLibrary}
  /\ bound \subseteq Functions
  /\ group \in DOMAIN Groups
  /\ sdkVersion \in Version \cup {NoVersion}
  /\ sdk \in {"none", "dll", "null"}
  /\ version \in [agent : {"-", "", "agent", "None"}, sdk : Version \cup {NoVersion}]
  /\ info \in [found : BOOLEAN, compatible : BOOLEAN]
  /\ status \in {"none", "STUB_LOAD_ERROR", "INIT_ERROR", "INITIALIZED",
                 "INITIALIZED_WITH_WARNING"}
  /\ garbage \subseteq SUBSET Functions
  /\ unbound \subseteq Functions
  /\ sessions \in Nat
  /\ pc \in {"idle", "collect", "open"} => lib = NoLibrary /\ sdk = "none"
  /\ pc \notin {"idle", "collect", "open", "up"} => lib # NoLibrary

NoAnswer == [agent |-> "-", sdk |-> NoVersion]

\* _agent_version is None until the library is initialized.
Unasked == [agent |-> "None", sdk |-> NoVersion]

Init ==
  /\ pc = "idle"
  /\ line = <<>> /\ argv = <<>> /\ opts = <<>> /\ remove = FALSE /\ index = 0
  /\ lib = NoLibrary /\ bound = {} /\ group = 1 /\ sdkVersion = NoVersion /\ passed = <<>>
  /\ sdk = "none" /\ version = NoAnswer /\ info = Unknown /\ status = "none"
  /\ garbage = {} /\ unbound = {}
  /\ sessions = 0

\* A native function is an attribute of the interface once it is bound.
Calls(functions) == unbound' = unbound \cup (functions \ bound)

-----------------------------------------------------------------------------
(* Faulty variants of definitions below: each is a plausible slip in the     *)
(* code, and stands beside the specification to show that a property notices *)
(* it.                                                                       *)

\* The loop starts one element too early.
LoopStart_Second(args) == Len(args) - 1

\* initialize catches the errors of the SDK only.
Caught_SdkErrors(error) == error # "AttributeError"

\* __del__ does not ask whether __init__ came that far.
FinalizerCalls_Unguarded(attributes) == {"stub_set_logging_callback"}

\* A refusal does not carry the version.
RefusedVersion_Default == NoAnswer

\* The interface asks for the load information before it initializes.
LoadInfo_Early(l) == Unknown

-----------------------------------------------------------------------------
(* sdkopts_from_commandline *)

\* param[len(prefix):]
WithoutPrefix(arg) == arg.text

\* Of the first arguments, for each number of them, those that are options.
Options(args) ==
  LET chosen[n \in 0..Len(args)] ==
        IF n = 0 THEN <<>>
        ELSE IF args[n].isOption THEN Append(chosen[n - 1], WithoutPrefix(args[n]))
        ELSE chosen[n - 1]
  IN chosen

\* The list comprehension for a list that is left alone.
OptionsOf(args) == Options(args)[Len(args)]

\* result.reverse()
Collected(found) == [i \in DOMAIN found |-> found[Len(found) + 1 - i]]

LoopStart(args) == Len(args)

Start ==
  /\ pc = "idle" /\ sessions < MaxSessions
  /\ sessions' = sessions + 1
  /\ line' \in CommandLines
  /\ argv' = line'
  /\ \/ remove' = FALSE /\ opts' = OptionsOf(line') /\ index' = 0 /\ pc' = "open"
     \/ remove' = TRUE /\ opts' = <<>> /\ index' = LoopStart(line') /\ pc' = "collect"
  /\ passed' = <<>>
  /\ UNCHANGED <<lib, bound, group, sdkVersion, answers, garbage, unbound>>

\* One turn of the loop from the end, in which an option is deleted from argv.
Collect ==
  /\ pc = "collect"
  /\ \/ /\ index <= 0
        /\ opts' = Collected(opts)
        /\ pc' = "open"
        /\ UNCHANGED <<argv, index>>
     \/ /\ index > 0 /\ argv[index].isOption
        /\ opts' = Append(opts, WithoutPrefix(argv[index]))
        /\ argv' = SubSeq(argv, 1, index - 1) \o SubSeq(argv, index + 1, Len(argv))
        /\ index' = index - 1
        /\ UNCHANGED pc
     \/ /\ index > 0 /\ ~argv[index].isOption
        /\ index' = index - 1
        /\ UNCHANGED <<pc, opts, argv>>
  /\ UNCHANGED <<line, remove, lib, bound, group, sdkVersion, passed, answers, garbage,
                 unbound, sessions>>

-----------------------------------------------------------------------------
(* loadsdk and SDKDllInterface.__init__ *)

\* except Exception in _try_init_noref.
Caught(error) == TRUE

\* The handler: the null interface takes over, with the version of the error.
\* The half-made object is left to __del__, whenever the error is dropped.
Fail(error, told, attributes) ==
  /\ garbage' = garbage \cup {attributes}
  /\ bound' = {}
  /\ info' = Unknown
  /\ IF Caught(error)
     THEN /\ sdk' = "null" /\ version' = told /\ status' = "STUB_LOAD_ERROR"
          /\ pc' = "up"
     ELSE /\ UNCHANGED <<sdk, version, status>>
          /\ pc' = "idle"

\* The module sdkctypesiface cannot be imported, or the library not be opened
\* at the place it was looked for; or a new interface object is started.
Open ==
  /\ pc = "open"
  /\ sdkVersion' = NoVersion /\ group' = 1
  /\ \/ /\ \E error \in {"ImportError", "SDKError"} : Fail(error, NoAnswer, {})
        /\ lib' = NoLibrary
     \/ /\ lib' \in Libraries
        /\ bound' = {} /\ info' = Unknown
        /\ pc' = "mandatory"
        /\ UNCHANGED <<sdk, version, status, garbage>>
  /\ UNCHANGED <<arguments, passed, unbound, sessions>>

\* The error carries '-/' + the version of the library, '-' if it is not known.
RefusedVersion == [agent |-> "-", sdk |-> sdkVersion]

\* Those that hasattr or getattr finds before the first one that is missing.
BoundUpToMissing(seq) ==
  {seq[i] : i \in {j \in DOMAIN seq : \A k \in 1..j : seq[k] \notin lib.missing}}

BindMandatory ==
  /\ pc = "mandatory"
  /\ LET ok == BoundUpToMissing(Mandatory) IN
       \/ ok = Names(Mandatory) /\ bound' = ok /\ pc' = "gate"
          /\ UNCHANGED <<answers, garbage>>
       \/ ok # Names(Mandatory) /\ Fail("SDKInitializationError", RefusedVersion, ok)
  /\ UNCHANGED <<arguments, lib, group, sdkVersion, passed, unbound, sessions>>

\* The version of the library is asked for and compared.
Gate ==
  /\ pc = "gate"
  /\ Calls({"stub_get_version"})
  /\ sdkVersion' = lib.version
  /\ \/ /\ Accepted(lib.version)
        /\ pc' = "load_info"
        /\ UNCHANGED <<bound, answers, garbage>>
     \/ /\ ~Accepted(lib.version)
        /\ Fail("SDKInitializationError", RefusedVersion', bound)
  /\ UNCHANGED <<arguments, lib, group, passed, sessions>>

BindLoadInfo ==
  /\ pc = "load_info"
  /\ \/ /\ LoadInfoFunction \notin lib.missing
        /\ bound' = bound \cup {LoadInfoFunction}
        /\ pc' = "bind"
        /\ UNCHANGED <<answers, garbage>>
     \/ /\ LoadInfoFunction \in lib.missing
        /\ Fail("SDKInitializationError", RefusedVersion, bound)
  /\ UNCHANGED <<arguments, lib, group, sdkVersion, passed, unbound, sessions>>

\* The rest, one group after the other; the last one completes the interface,
\* and initialize goes on to the options, with no warning so far.
BindGroup ==
  /\ pc = "bind"
  /\ LET ok == BoundUpToMissing(Groups[group]) IN
       \/ /\ ok = Names(Groups[group])
          /\ bound' = bound \cup ok
          /\ \/ group < Len(Groups) /\ group' = group + 1 /\ UNCHANGED <<pc, sdk, status>>
             \/ /\ group = Len(Groups) /\ sdk' = "dll" /\ status' = "INITIALIZED"
                /\ pc' = "options" /\ UNCHANGED group
          /\ UNCHANGED <<version, info, garbage>>
       \/ /\ ok # Names(Groups[group])
          /\ Fail("AttributeError", NoAnswer, bound \cup ok)
          /\ UNCHANGED group
  /\ UNCHANGED <<arguments, lib, sdkVersion, passed, unbound, sessions>>

-----------------------------------------------------------------------------
(* Options, native initialization, and the session *)

NextOption == opts[Len(passed) + 1]

\* stub_set_variable for the next option; a refused one is a warning.
SetOption ==
  /\ pc = "options" /\ passed # opts
  /\ NextOption \in Encodable
  /\ passed' = Append(passed, NextOption)
  /\ Calls({"stub_set_variable", "stub_xstrerror"})
  /\ \/ UNCHANGED status
     \/ status' = "INITIALIZED_WITH_WARNING"
  /\ UNCHANGED <<pc, arguments, lib, bound, group, sdkVersion, sdk, version, info, garbage,
                 sessions>>

\* It raises before the library is called.  The handler finds the interface and
\* keeps it, with the options that are left not passed and the library not
\* initialized: no version is known, and no agent was looked for.
OptionError ==
  /\ pc = "options" /\ passed # opts
  /\ NextOption \notin Encodable
  /\ status' = "INIT_ERROR"
  /\ version' = Unasked /\ info' = Unknown
  /\ pc' = "up"
  /\ UNCHANGED <<arguments, lib, bound, group, sdkVersion, passed, sdk, garbage, unbound,
                 sessions>>

\* stub_get_agent_load_info, after onesdk_initialize_2 looked for the agent.
LoadInfo(l) == [found |-> l.agent # "missing", compatible |-> l.agent = "active"]

\* agent_get_version_string: empty without an agent.
AgentVersion(l) == IF l.agent = "missing" THEN "" ELSE "agent"

\* The loop over the options is done: SDKDllInterface.initialize, the check of
\* its result, and the technology reports.  The native result may be
\* AGENT_NOT_ACTIVE or another error.
NativeInit ==
  /\ pc = "options" /\ passed = opts
  /\ \/ UNCHANGED status
     \/ status' \in {"INITIALIZED_WITH_WARNING", "INIT_ERROR"}
  /\ version' = [agent |-> AgentVersion(lib), sdk |-> sdkVersion]
  /\ info' = LoadInfo(lib)
  /\ Calls({"initialize_2", "agent_get_version_string", LoadInfoFunction,
            "ex_api_enable_techtype", "stub_xstrerror",
            "ex_agent_add_process_technology"})
  /\ pc' = "up"
  /\ UNCHANGED <<arguments, lib, bound, group, sdkVersion, passed, sdk, garbage, sessions>>

\* The application works with the SDK; any function may be called.
Use ==
  /\ pc = "up" /\ sdk = "dll"
  /\ Calls(Functions)
  /\ UNCHANGED <<pc, arguments, lib, bound, group, sdkVersion, passed, answers, garbage,
                 sessions>>

\* nativeagent drops the interface; the application may still keep it alive.
Shutdown ==
  /\ pc = "up"
  /\ sdk' = "none"
  /\ garbage' = IF sdk = "dll" THEN garbage \cup {bound} ELSE garbage
  /\ bound' = {}
  /\ version' = NoAnswer /\ info' = Unknown /\ status' = "none"
  /\ lib' = NoLibrary
  /\ pc' = "idle"
  /\ UNCHANGED <<arguments, group, sdkVersion, passed, unbound, sessions>>

\* __del__ is also called when __init__ failed: it looks for the attribute.
FinalizerCalls(attributes) == {"stub_set_logging_callback"} \cap attributes

Finalize ==
  \E attributes \in garbage :
    /\ garbage' = garbage \ {attributes}
    /\ unbound' = unbound \cup (FinalizerCalls(attributes) \ attributes)
    /\ UNCHANGED <<pc, arguments, lib, bound, group, sdkVersion, passed, answers, sessions>>

-----------------------------------------------------------------------------

\* The steps of one initialize call, and of the loop before it.
Initialize ==
  \/ Collect \/ Open \/ BindMandatory \/ Gate \/ BindLoadInfo \/ BindGroup
  \/ SetOption \/ OptionError \/ NativeInit

Next == Start \/ Initialize \/ Use \/ Shutdown \/ Finalize

\* A call that has begun goes on.
Fairness == WF_vars(Initialize)

Spec == Init /\ [][Next]_vars /\ Fairness

-----------------------------------------------------------------------------
(* Properties *)

\* No native function is called that was not bound before: not by the SDK at
\* work, not while the interface is made, and not by __del__, which "is also
\* called when __init__ fails".
NoUnboundCall == unbound = {}

\* A library is used if and only if it exports everything and its version is in
\* the range the version check is about, 1.7.1 <= v < 2.0.0.
UsedIffUsable ==
  pc = "up" /\ lib # NoLibrary =>
    (sdk = "dll" <=> lib.missing = {} /\ InRange(lib.version))

\* A library of the wrong version is named by agent_version_string, though the
\* interface that could be asked for it is gone; otherwise no version is told
\* that is not that of the library.
RefusedIsNamed ==
  pc = "up" /\ sdk = "null" =>
    /\ version.agent = "-"
    /\ version.sdk # NoVersion => lib # NoLibrary /\ version.sdk = lib.version
    /\ lib # NoLibrary /\ ~InRange(lib.version) /\ lib.missing \cap Names(Mandatory) = {}
         => version.sdk # NoVersion

\* agent_version_string, agent_found and agent_is_compatible answer for the
\* library of this session, and for no agent without a library.  Where an option
\* raised they do not know the library that is used, and say no more than that:
\* nothing is left in them of an earlier session.
AnswersAreCurrent ==
  pc = "up" =>
    /\ sdk = "dll" /\ passed = opts =>
         /\ version = [agent |-> AgentVersion(lib), sdk |-> lib.version]
         /\ info.found <=> lib.agent # "missing"
         /\ info.compatible <=> lib.agent = "active"
    /\ sdk = "dll" /\ passed # opts => version = Unasked /\ info = Unknown
    /\ sdk = "null" => ~info.found /\ ~info.compatible

\* Of the first arguments, for each number of them, those that are no options.
Others(args) ==
  LET others[n \in 0..Len(args)] ==
        IF n = 0 THEN <<>>
        ELSE IF args[n].isOption THEN others[n - 1] ELSE Append(others[n - 1], args[n])
  IN others

\* The library gets the options of the command line in their order: all of
\* them, or those before the first one that cannot be converted.  No option is
\* lost unless the InitResult is INIT_ERROR.  Removing them from argv leaves the
\* other arguments, also in their order.
OptionsReachLibrary ==
  pc = "up" =>
    /\ sdk = "dll" =>
         \/ passed = OptionsOf(line) /\ \A i \in DOMAIN passed : passed[i] \in Encodable
         \/ \E n \in 1..Len(OptionsOf(line)) :
              /\ passed = SubSeq(OptionsOf(line), 1, n - 1)
              /\ \A i \in 1..(n - 1) : OptionsOf(line)[i] \in Encodable
              /\ OptionsOf(line)[n] \notin Encodable
              /\ status = "INIT_ERROR"
    /\ argv = IF remove THEN Others(line)[Len(line)] ELSE line

\* "Even if initialization fails, a dummy SDK will be available": whatever the
\* library lacks, a call of initialize ends with an interface.
InterfaceAvailable == (pc # "idle") ~> (pc = "up" /\ sdk # "none")

-----------------------------------------------------------------------------
(* Seen through the SDK, which is there when initialize returns, all the     *)
(* steps of a call are one.                                                  *)

WhenUp(told, default) == IF pc = "up" THEN told ELSE default

Choice == INSTANCE NativeChoice WITH
  interface <- WhenUp(sdk, "none"), status <- WhenUp(status, "none"),
  version <- WhenUp(version, NoAnswer), info <- WhenUp(info, Unknown)

\* The calls implement the choice of an interface in one step.
ImplementsChoice == Choice!Spec
=============================================================================
