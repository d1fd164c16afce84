----------------------------- MODULE TracerPath -----------------------------
(***************************************************************************)
(* Tracers: the factories of oneagent.sdk.SDK, the Tracer object an        *)
(* application holds, and the path each thread builds behind it.  The path *)
(* is the one of SDKMockInterface, the implementation of the native        *)
(* interface that comes with the repository.                               *)
(*                                                                         *)
(* Everything but finished_paths belongs to one thread, and finished_paths *)
(* is only touched under its lock, so a call is one step.  A call that     *)
(* raises before it changes anything is not a step.  The application is    *)
(* free: it may end tracers in any order, as interleaved "with" blocks of  *)
(* generators do.                                                          *)
(***************************************************************************)
EXTENDS Integers, Sequences

CONSTANTS
  Threads, NoThread,
  Tracers, NoTracer,
  Kind,              \* the kind of each tracer
  Failing,           \* tracers whose operation may fail with an exception
  MaxLinks           \* bound: entries a LINK_TAG child may get

Kinds == {"inweb", "outweb", "incall", "outcall", "message", "sql", "service"}

ASSUME NoThreadAssumption == NoThread \notin Threads
ASSUME NoTracerAssumption == NoTracer \notin Tracers
ASSUME KindAssumption == Kind \in [Tracers -> Kinds]
ASSUME FailingAssumption == Failing \subseteq Tracers
ASSUME MaxLinksAssumption == MaxLinks \in Nat

\* is_entrypoint, is_in_taggable and has_out_tag of the kinds; "service" stands
\* for custom services, in-process links and outgoing or received messages.
Entrypoint == {"inweb", "outweb", "incall"}
InTaggable == {"inweb", "incall"}
OutTaggable == {"outweb", "outcall"}

\* Kinds whose factory can raise after it created the tracer, and of these the
\* ones whose factory ends the tracer before it lets the exception through.
FactoryMayRaise == {"inweb", "outweb", "incall", "outcall", "message"}
FactoryCleansUp == {"inweb", "outweb"}

VARIABLES
  handle,    \* what the application has: Tracer.handle, or "lost" with its factory
  owner,     \* the thread that created the tracer
  state,     \* TracerHandle.state
  live,      \* tracers with is_live
  hasPath,   \* threads that have a Path
  stack,     \* the nodestack of the thread's Path
  parent,    \* the tracer that has this one among its LINK_CHILD children
  began,     \* history: tracers that were ever put on a path
  finished,  \* roots in finished_paths
  tags,      \* tracers whose outgoing tag was taken
  inTag,     \* the tracer whose tag is the incoming tag of this one
  links,     \* LINK_TAG entries for this tracer among the children of inTag
  marks      \* how often the tracer was marked as failed

vars == <<handle, owner, state, live, hasPath, stack, parent, began, finished,
          tags, inTag, links, marks>>

TypeOK ==
  /\ handle \in [Tracers -> {"none", "held", "cleared", "lost"}]
  /\ owner \in [Tracers -> Threads \cup {NoThread}]
  /\ state \in [Tracers -> {"none", "created", "started", "ended"}]
  /\ live \subseteq Tracers
  /\ hasPath \subseteq Threads
  /\ stack \in [Threads -> Seq(Tracers)]
  /\ \A t \in Threads : stack[t] # <<>> => t \in hasPath
  /\ parent \in [Tracers -> Tracers \cup {NoTracer}]
  /\ began \subseteq Tracers
  /\ finished \subseteq Tracers
  /\ tags \subseteq Tracers
  /\ inTag \in [Tracers -> Tracers \cup {NoTracer}]
  /\ links \in [Tracers -> Nat]
  /\ marks \in [Tracers -> 0..2]

Init ==
  /\ handle = [x \in Tracers |-> "none"]
  /\ owner = [x \in Tracers |-> NoThread]
  /\ state = [x \in Tracers |-> "none"]
  /\ live = {}
  /\ hasPath = {}
  /\ stack = [t \in Threads |-> <<>>]
  /\ parent = [x \in Tracers |-> NoTracer]
  /\ began = {}
  /\ finished = {}
  /\ tags = {}
  /\ inTag = [x \in Tracers |-> NoTracer]
  /\ links = [x \in Tracers |-> 0]
  /\ marks = [x \in Tracers |-> 0]

Top(t) == IF stack[t] = <<>> THEN NoTracer ELSE stack[t][Len(stack[t])]
Pop(s) == SubSeq(s, 1, Len(s) - 1)

\* A faulty variant of the next definition, as further below.
OnOwnThread_Unchecked(t, x) == handle[x] = "held" /\ owner[x] # NoThread

\* Every method of a tracer is refused on another thread than its own.
OnOwnThread(t, x) == handle[x] = "held" /\ owner[x] = t

OpenChildren(x) == {c \in Tracers : parent[c] = x /\ state[c] = "started"}

\* all_finished_nodes: the nodes of the subtrees of finished_paths.
InFinished[x \in Tracers] ==
  x \in finished \/ (parent[x] # NoTracer /\ InFinished[parent[x]])
FinishedNodes == {x \in Tracers : InFinished[x]}

-----------------------------------------------------------------------------
(* Faulty variants of definitions below: each is a plausible slip in the     *)
(* code, and stands beside the specification to show that a property notices *)
(* it.                                                                       *)

\* An entry point's start does not store the Path it creates.
PathOnStart_Forgotten(t, x) == hasPath

\* Path.start makes the tracer a child of the root.
NewParent_Root(t) == IF stack[t] = <<>> THEN NoTracer ELSE stack[t][1]

\* Path.end pops whatever is on top.
Ends_PopsAnyTop(t, x) == Top(t) # NoTracer /\ OpenChildren(x) = {}

\* Every tracer that ends is taken for a root.
FinishedBy_AnyTracer(t, x) == finished \cup {x}

\* The path is recorded whenever one of its tracers ends.
FinishedBy_Early(t, x) == finished \cup {stack[t][1]}

\* Tracer.end forgets the handle before the native call that may raise.
EndSucceeds_Always(t, x) == TRUE

\* A tag can be taken before the tracer is started.
TagsTakenFrom_Created(t) ==
  {x \in live : OnOwnThread(t, x) /\ Kind[x] \in OutTaggable}

\* A factory that fails does not end the tracer it made.
FailedFactory_Leaks(x) == FALSE

-----------------------------------------------------------------------------
(* Factories *)

\* A factory that returns a tracer; tag is the tracer of the incoming tag, if
\* one is given: _applytag passes it on while the tracer is not started yet.
Create(t, x) ==
  /\ handle[x] = "none"
  /\ handle' = [handle EXCEPT ![x] = "held"]
  /\ owner' = [owner EXCEPT ![x] = t]
  /\ state' = [state EXCEPT ![x] = "created"]
  /\ live' = live \cup {x}
  /\ \E tag \in {NoTracer} \cup (IF Kind[x] \in InTaggable THEN tags ELSE {}) :
       inTag' = [inTag EXCEPT ![x] = tag]
  /\ UNCHANGED <<hasPath, stack, parent, began, finished, tags, links, marks>>

FailedFactoryEnds(x) == Kind[x] \in FactoryCleansUp

\* A factory in which a call on the new tracer raises (a header list, a remote
\* address, a protocol name, a tag).  The web request factories end the
\* tracer: it is not on the stack, so its end raises on a thread with a path,
\* but only after closing it.  The others leave it behind, open.
FactoryFails(t, x) ==
  /\ handle[x] = "none"
  /\ Kind[x] \in FactoryMayRaise
  /\ handle' = [handle EXCEPT ![x] = "lost"]
  /\ owner' = [owner EXCEPT ![x] = t]
  /\ state' = [state EXCEPT ![x] = IF FailedFactoryEnds(x) THEN "ended" ELSE "created"]
  /\ live' = IF FailedFactoryEnds(x) THEN live ELSE live \cup {x}
  /\ UNCHANGED <<hasPath, stack, parent, began, finished, tags, inTag, links, marks>>

-----------------------------------------------------------------------------
(* Start, and what a started tracer can do *)

\* get_path(create=tracer_h.is_entrypoint)
PathOnStart(t, x) == IF Kind[x] \in Entrypoint THEN hasPath \cup {t} ELSE hasPath

\* self.nodestack[-1].children.append(...)
NewParent(t) == Top(t)

\* Tracer.start, Tracer.__enter__.  Without a path nothing happens at all: the
\* tracer stays in the state "created".
Start(t, x) ==
  /\ OnOwnThread(t, x)
  /\ x \in live /\ state[x] = "created"
  /\ Kind[x] \in Entrypoint \/ t \in hasPath
  /\ hasPath' = PathOnStart(t, x)
  /\ state' = [state EXCEPT ![x] = "started"]
  /\ parent' = [parent EXCEPT ![x] = NewParent(t)]
  /\ stack' = [stack EXCEPT ![t] = Append(@, x)]
  /\ began' = began \cup {x}
  /\ UNCHANGED <<handle, owner, live, finished, tags, inTag, links, marks>>

TagsTakenFrom(t) ==
  {x \in live : OnOwnThread(t, x) /\ Kind[x] \in OutTaggable /\ state[x] = "started"}

\* outgoing_dynatrace_string_tag, outgoing_dynatrace_byte_tag
GetTag(t) ==
  /\ \E x \in TagsTakenFrom(t) : tags' = tags \cup {x}
  /\ UNCHANGED <<handle, owner, state, live, hasPath, stack, parent, began,
                 finished, inTag, links, marks>>

\* Tracer.mark_failed and mark_failed_exc by the application, which marks a
\* tracer at most once.
MarkFailed(t, x) ==
  /\ OnOwnThread(t, x) /\ x \in Failing
  /\ x \in live /\ state[x] = "started"
  /\ marks[x] = 0
  /\ marks' = [marks EXCEPT ![x] = 1]
  /\ UNCHANGED <<handle, owner, state, live, hasPath, stack, parent, began,
                 finished, tags, inTag, links>>

\* SDK.add_custom_request_attribute: get_path(True) gives the thread a path;
\* without an active tracer the call then raises, but the path stays.
AddAttribute(t) ==
  /\ hasPath' = hasPath \cup {t}
  /\ UNCHANGED <<handle, owner, state, live, stack, parent, began, finished,
                 tags, inTag, links, marks>>

-----------------------------------------------------------------------------
(* End *)

\* Path.end gets as far as popping the tracer.
Ends(t, x) == Top(t) = x /\ OpenChildren(x) = {}

\* Tracer.end returns normally, and only then forgets its handle.
EndSucceeds(t, x) == t \notin hasPath \/ Ends(t, x)

\* The path is finished when the tracer that ends is the last on the stack.
FinishedBy(t, x) == IF Len(stack[t]) = 1 THEN finished \cup {x} ELSE finished

\* SDKMockInterface.tracer_end: the tracer becomes "ended" before anything is
\* checked, and stays alive if it has open children.
NativeEnd(t, x) ==
  /\ state' = [state EXCEPT ![x] = "ended"]
  /\ live' = IF OpenChildren(x) = {} THEN live \ {x} ELSE live
  /\ \/ /\ Ends(t, x)
        /\ stack' = [stack EXCEPT ![t] = Pop(@)]
        /\ finished' = FinishedBy(t, x)
     \/ ~Ends(t, x) /\ UNCHANGED <<stack, finished>>

\* Tracer.end: the handle is kept if the native call raises.
TracerEnd(t, x) ==
  /\ OnOwnThread(t, x)
  /\ NativeEnd(t, x)
  /\ handle' = IF EndSucceeds(t, x) THEN [handle EXCEPT ![x] = "cleared"] ELSE handle
  /\ UNCHANGED <<owner, hasPath, parent, began, tags, inTag, links>>

\* Tracer.end by the application, or Tracer.__exit__ without an exception.
End(t, x) == TracerEnd(t, x) /\ UNCHANGED marks

\* Tracer.__exit__ when an exception leaves the "with" block: marks the tracer
\* as failed, marked already or not, and ends it; if marking raises, because it is
\* not started any more, what remains is End.
ExitWithException(t, x) ==
  /\ x \in Failing
  /\ x \in live /\ state[x] = "started"
  /\ marks' = [marks EXCEPT ![x] = @ + 1]
  /\ TracerEnd(t, x)

-----------------------------------------------------------------------------

\* process_finished_paths_tags: every finished node with an incoming tag
\* becomes a LINK_TAG child of the finished node the tag was taken from.
Resolved == {x \in FinishedNodes : inTag[x] # NoTracer /\ inTag[x] \in FinishedNodes}

LinkTags ==
  /\ Resolved # {}
  /\ \A x \in Resolved : links[x] < MaxLinks
  /\ links' = [x \in Tracers |-> IF x \in Resolved THEN links[x] + 1 ELSE links[x]]
  /\ UNCHANGED <<handle, owner, state, live, hasPath, stack, parent, began,
                 finished, tags, inTag, marks>>

Next ==
  \/ \E t \in Threads :
       \/ GetTag(t) \/ AddAttribute(t)
       \/ \E x \in Tracers :
            \/ Create(t, x) \/ FactoryFails(t, x)
            \/ Start(t, x) \/ MarkFailed(t, x)
            \/ End(t, x) \/ ExitWithException(t, x)
  \/ LinkTags

Spec == Init /\ [][Next]_vars

-----------------------------------------------------------------------------
(* Properties *)

OnStack(x) == \E t \in Threads : \E i \in 1..Len(stack[t]) : stack[t][i] = x

\* The root of the tree a tracer is in.
RootOf[x \in Tracers] == IF parent[x] = NoTracer THEN x ELSE RootOf[parent[x]]

\* "The tracer becomes a child of the previously active tracer on this
\* thread": a stack is the chain of parents of its top, in one thread, however
\* ends that failed and starts alternate.
ActiveChain ==
  \A t \in Threads : \A i \in 1..Len(stack[t]) :
    /\ owner[stack[t][i]] = t
    /\ stack[t][i] \in began
    /\ parent[stack[t][i]] = IF i = 1 THEN NoTracer ELSE stack[t][i - 1]

\* The active tracer can always be ended: a failed attempt to end an outer
\* tracer too early never leaves a path that cannot be closed.
ActiveEndable ==
  \A t \in Threads : stack[t] # <<>> =>
    /\ OpenChildren(Top(t)) = {}
    /\ OnOwnThread(t, Top(t))

\* A path is recorded once it is complete, and not before: a tree is in
\* finished_paths if and only if no node of it is on a stack or open.
FinishedComplete ==
  \A x \in began :
    /\ x \in FinishedNodes => x \notin live /\ state[x] = "ended"
    /\ x \in FinishedNodes <=> ~OnStack(RootOf[x])

\* What is in finished_paths is final: a recorded tree gets no new node, loses
\* none, and none of its tracers is opened or ended again, by whatever threads
\* still have Tracers of it.
FinishedIsFinal ==
  [][\A x \in FinishedNodes :
       /\ x \in FinishedNodes'
       /\ x \notin live' /\ state'[x] = "ended"
       /\ {c \in Tracers : parent'[c] = x} = {c \in Tracers : parent[c] = x}]_vars

\* A Tracer forgets its handle only when the native tracer is closed and off
\* the stack; so a tracer whose end raised can be ended again.
ReleasedIsClosed ==
  \A x \in Tracers :
    handle[x] = "cleared" => x \notin live /\ state[x] = "ended" /\ ~OnStack(x)

\* A web request factory that raises leaves no open tracer behind.
FailedFactoryReleases ==
  \A x \in Tracers :
    handle[x] = "lost" /\ Kind[x] \in {"inweb", "outweb"} => x \notin live

\* Parents and incoming tags follow causality across threads: no tracer is its
\* own ancestor through any mix of the two, so linking never makes a cycle.
CausalOrder ==
  \A S \in SUBSET Tracers : S # {} =>
    \E x \in S : parent[x] \notin S /\ inTag[x] \notin S

\* "Once a tracer is marked as failed, attempts to do it again are forbidden."
MarkedOnce == \A x \in Tracers : marks[x] <= 1

\* The paths of the threads implement the promise of the documentation.
Path == INSTANCE PurePath WITH active <- [t \in Threads |-> Top(t)], begun <- began

ImplementsPurePath == Path!Spec
=============================================================================
