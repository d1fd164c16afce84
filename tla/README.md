# TLA+ specifications of the OneAgent SDK for Python

The package `oneagent` is a Python layer over the native OneAgent SDK library.
It keeps little state of its own, but what it keeps is shared by all threads of
an application and has to agree with state on the other side of a C interface.
These specifications describe that state and the code that changes it. TLC
checks them on small instances; TLAPS proves most of the safety properties for
any number of threads, tracers and interfaces.

Paths below are relative to `src/`.

## Inventory

| Component | Source | State | Operations | Where it is hard |
|---|---|---|---|---|
| Lifecycle | `src/oneagent/__init__.py`, `_impl/native/nativeagent.py` | `_sdk_ref_lk`, `_sdk_ref_count`, `_should_shutdown`, `_sdk_instance`, `nativeagent._sdk`; the native agent | `initialize`, `shutdown`, `get_sdk` | `get_sdk` reads without the lock; failures of every native call; KeyboardInterrupt between assignments; counting over threads |
| Tracers | `src/oneagent/sdk/__init__.py`, `sdk/tracers.py`, `_impl/util.py` | `Tracer.handle` | the `trace_*` factories, `start`, `end`, `mark_failed`, `with`, tags | exceptions inside a factory, inside `end`, inside a `with` block; thread affinity |
| Mock interface | `test-util-src/sdkmockiface.py` | handles with state and children, a `Path` per thread, `finished_paths` | the tracer half of the native interface, `process_finished_paths_tags` | ends in the wrong order, paths that outlive their trace, tags across threads |
| Native interface | `src/oneagent/_impl/native/sdkctypesiface.py` | bound functions, callbacks and their thunks, agent found/compatible, version | `__init__`, `initialize`, callback setters, marshalling, `__del__` | lifetime of thunks the library points to; the version gate; sizes and widths |
| Info handles | `src/oneagent/common.py` | `handle` | `close`, `with`, `__del__` | close of two threads at once; close after `shutdown` |
| Null interface | `_impl/native/sdknulliface.py` | none | no-ops, null handles | agreement with the other interfaces |
| Versions | `_impl/native/sdkversion.py`, `version.py` | none | comparison | boundaries of the supported range |
| Options | `src/oneagent/__init__.py` (`sdkopts_from_commandline`) | the caller's `argv` | select, remove | deletion during a walk |
| Forking | native; `initialize(forkable=True)` | fork state of the agent, the inherited lock | `fork`, `agent_state` | a lock held across `fork` |

How they interact: `initialize` creates the native interface (or the null
interface if the library does not load) and wraps it in an `SDK`. `get_sdk`
hands that object out. Its factories call the interface to create native
tracers and wrap the handles in `Tracer` objects; the application calls those.
The native library calls back into Python through the registered callbacks; the
mock interface stands in for it in the tests.

What makes each component correct:

* Lifecycle: a holder has a usable, stable SDK; only the last `shutdown` stops
  the agent; a failed one can be repeated; the lock is always released.
* Tracers and paths: nesting per thread as the README of the repository
  describes it (`README.md:235-245`); recorded paths are complete; a `Tracer`
  never forgets a native tracer that is still open; links are causal.
* Callbacks: whatever the library may call is alive, and Python and the library
  agree on it.
* Loading: a library is used exactly if it is complete and in the supported
  range; otherwise `initialize` still ends with an interface, which names what was
  refused; nothing is called that was not bound.
* Info handles: each native object is deleted once, through the interface that
  made it, and not used afterwards.
* Marshalling: the other side has what the accepted calls passed, pairs in their
  order and numbers unchanged, and a call that raises adds nothing; tags and
  links are complete.

## Modules

`Lifecycle` models the three functions. Each assignment to a global is an
action, because `get_sdk` and an interrupt can observe the state in between;
`pc[t]` says which assignment thread `t` does next. A *ticket* is an
`initialize` call that a `shutdown` call has still to match: it exists only in
the model, to say who holds a reference. With `Disciplined`, callers shut down
exactly what they initialized; without it they call `shutdown` at any time.
`InitLoad`, `InitNative` and `InitTech` choose among the outcomes of the native
calls; the text of options and errors is left out. `Interrupt` is
KeyboardInterrupt while the lock is held. It is external: nothing in the code
raises it, and nothing catches it.

`SharedSession` is what the lifecycle promises: one session that is opened,
joined, left and closed in single steps. `Lifecycle!ImplementsSession` is the
refinement; a thread counts as a holder from the publication of the SDK to the
decrement or withdrawal, which are the points where the calls take effect.

`TracerPath` models a tracer on both sides: the Python object (`handle`,
`owner`) and the mock's `TracerHandle` (`state`, `live`, `parent`, `inTag`,
`links`) with the `nodestack` of each thread (`stack`) and `finished_paths`.
A call touches only what belongs to its thread, or is under the lock of
`finished_paths`, so it is one action. The error paths inside a call are
disjuncts of its action: `NativeEnd` changes the state of a tracer even when it
then raises, and `TracerEnd` forgets the handle only if it does not raise. A
call that raises before changing anything is not an action. `began` and `marks`
are history variables. The mock's module docstring says that it is strict and does
not support broken paths; the properties below hold for callers who end tracers
in any order all the same.

`PurePath` is the documented rule for nesting: a tracer that starts becomes a
child of the active one, only the active one finishes. `ImplementsPurePath`
is the refinement; ends that fail are stuttering steps.

`DiagCallbacks` models the two callbacks. The native setter is a step of its own
(`Register`), since ctypes releases the interpreter lock around it; `Store` and
`StorePy` are the assignments after it. `Referenced` says which thunks CPython
keeps, `Collect` is `__del__`. Thunk identities are reused once nothing, the
library included, refers to them. A thread is either in no call or in one;
`job[t]` holds the local variables of that call. Any thread sets any callback at any
time, since nothing in the code keeps two calls from setting the same one at once.
Where they do, the last registration and the last assignment may be of different
calls, and the registered thunk is freed. The properties say that nothing else does
this, and how far it goes: `raced` has the callbacks that several calls were setting at
once, and a call that is `alone` takes its callback out again when it registers.

`InfoHandles` models `SDKHandleBase`: `wrapper` and `maker` are its attributes
`handle` and `nsdk`, `native` the object in the library. `close` is four steps,
since it reads the handle twice and ctypes releases the interpreter lock around the
native call: `Close` tests, `ReadHandle` reads again, `NativeDelete` calls, `Clear`
assigns. `Finalize` is `__del__`, which is
due when the application dropped its reference (`held`) and no frame holds one
(`KeptAlive`); `Warn` is the diagnostic callback, which may raise. `Use` and
`NativeUse` are a factory that reads the handle and then passes it on. Any thread
closes and uses any wrapper. `closedBeside` and `usedBeside` note the wrappers of which
calls of close, or a close and a use, overlapped: `close` has no lock, so these may be
deleted twice or used after the deletion, and the properties say that no others are.
`Publish` and `Withdraw` are the lifecycle as `get_sdk` shows it.

`NativeLoad` models how the native library is found, checked and bound.
`SdkFunctions` is the table of the functions that `SDKDllInterface.__init__` binds, in
its order and by its groups; `SdkVersion` the comparisons of `OnesdkStubVersion` as the
code derives them, and the range. A library is a version, an agent it will find,
and the functions it lacks. `BindMandatory`, `Gate`, `BindLoadInfo` and `BindGroup` are
the stages of `__init__`, each with its way to fail; `Fail` is the handler in
`_try_init_noref`, and `garbage` holds the attribute sets of half-made objects, on
which `Finalize` (`__del__`) runs at any later time. `Start` and `Collect` are
`sdkopts_from_commandline`, the second one turn of the loop that deletes from
`argv`. `Options` is the list comprehension of the other form, one function value for
each number of arguments that were looked at; the loop is compared with it.
`NativeLoad` spells out the one step `InitLoad` of `Lifecycle`, which leaves
open what makes a library load. The options go to the library one at a time
(`SetOption`); one that cannot be converted for ctypes, such as a lone surrogate from
`argv`, raises (`OptionError`). The handler then keeps the interface, with the other
options not passed and the library not initialized, and the SDK answers as if there
were no agent, and None for its version.

`NativeChoice` is what is promised of all this: a call of `initialize` takes a library
or none, works with it if it is usable and with the null interface otherwise, and
answers for that library, or, if an option could not be passed, keeps the library
without initializing it (`KeepUninitialized`). `NativeLoad!ImplementsChoice` is the refinement. A session is
visible once `initialize` has returned, so the steps of a call, its failures and
the finalizers that run in between are stuttering steps up to the last one.

`Marshal` holds what happens to values on their way: the requests that
`add_parameters` and the factories make of their arguments, what the wrapper of a
header list passes to the library, what the mock adds, which of them accept, and
the wrap-around of `c_int32`. It has operators only. `TracerData` uses them: a
tracer of each kind is told pairs, numbers and texts by its factory and its
methods, over the library, the mock or the null interface; `pairs`, `number` and
`text` are what the other side has, `asked...` what the accepted calls passed. A
`Tracer` knows its object by a handle (`handle`), which is free again once the object is
released and may be given to the next one (`owner`): a call is made on whatever object
has the handle, `Object(x)`, with the null handle on none, and with None, after `end`, it
raises. `lost` are the tracers whose factory raised: the web request factories end
the object first, the call factories leave it behind.
`AskSize` and `Fill` are the two native calls that fetch a tag or link, with
the agent coming or going in between (`LengthsNow`).

The modules with names in `...Proofs` hold theorems and proofs, those with
`MC...` the instances for TLC; `FinishedPathsProofs` continues `TracerPathProofs`.
`InductionLemmas` has induction over the natural numbers in the form the proofs use. The operators named `X_Something` in a specification
are faulty variants of its operator `X`; each was put in the place of `X` to see that
a property notices.

## Runs

| Run | Instance | What it shows |
|---|---|---|
| `lifecycle_threads` | 3 threads, 3 tickets, 2 library and 1 null interface, disciplined, `MaxRefs` 4 | sharing, retries, refinement of `SharedSession`, release of the lock |
| `lifecycle_interrupts` | 3 threads, one interruptible, 2 tickets, undisciplined, technology reports may raise | the globals agree with each other at every instant |
| `tracer_paths` | 2 threads, 4 tracers of four kinds, up to 2 tag resolutions | nesting, completeness and finality of recorded paths, release, causality, refinement of `PurePath` |
| `callbacks` | 2 threads that set either callback, 2 interfaces, 3 thunks | the lifetime of thunks, agreement of the two sides, but for calls that race for one callback |
| `info_handles` | 2 threads that close and use either of 2 wrappers, 2 sessions | deleted once and not used afterwards, but where calls overlap; deleted by the maker, and when dropped |
| `native_load` | 2 sessions, any library, command lines of up to 3 arguments, one of which may not be convertible | which libraries are used, what the fall-back says, options up to the first that raises, no call of an unbound function, refinement of `NativeChoice` |
| `tracer_data` | 2 tracers of any kinds, 2 handles, 3 interfaces, 2 calls, lists of up to 2 entries | pairs, texts and numbers arrive at the object of their tracer, handles are given up with their objects, tags are whole |
| `get_sdk_none` | 2 threads | **fails**: `get_sdk` returns None when a shutdown falls between its two reads |
| `shutdown_leak` | 2 threads, one interruptible | **fails**: after an interrupt, shutdown reports success and the agent runs on |
| `marked_twice` | 1 thread, 3 tracers | **fails**: `__exit__` marks a tracer as failed that was marked already |
| `callback_leak` | as `callbacks`, setters refuse after the shutdown | **fails**: `__del__` leaves a callback registered that was set before the shutdown |
| `header_count` | as `tracer_data` | **fails**: with the library, a list longer than the count raises IndexError |

The runs that fail state a sentence of the documentation or a comment; the
entries under "findings" in `PROJECT.json` quote it.

Bounds. Three threads are enough for one to tear down, one to hold and one to
read or to initialize in between; two tickets besides the one in teardown give a
counter of two and three, where the test for the last reference matters. Two
library interfaces let a second session differ from the first. `MaxRefs` bounds
only `CallInitialize`. Four tracers make stacks of depth four, a failed end in the
middle of one, and a tag that is taken on one thread and resolved on another;
`MaxLinks` bounds the only counter. Three thunks are a registered one and those of two
calls that replace it at once; an identity is used again as soon as it is free. The
interfaces follow each other; two of them are an old one and a new one.
`SetAfterShutdown` says whether the native setters still work then, which the code of
the library would tell: the passing run lets them, the failing one does not, so that
a callback registered late plays no part in it.

In `info_handles` two threads are enough for a close beside a close, and a close beside
a use; two wrappers keep one of them waiting for its finalizer while the
threads are in calls about the other; two sessions make
the maker of a wrapper differ from the interface published now, in both
directions. `MaxSessions` bounds `Publish`. The libraries of `native_load` have the
versions at both ends of the range and their neighbours in each field, lack
nothing or one function (every checked one, and the last of each group, after
all others of the group were bound); in two sessions the answers of the first
could be told in the second. Three arguments are enough for an option between
two others, for two options in a row, and for one that cannot be converted before
or after another. `tracer_data` has lists in which a good value, None or a
foreign object stands at either place, counts below, at and above their lengths,
numbers at, below and beyond the limit of the integer type (`Limit`, here 2, is
2^31 in the code), and two calls, so that a later one could disturb an earlier
one; `MaxTold` bounds the calls. Two handles let one tracer end and give its handle
to the next while the first `Tracer` is still there; the theorems have no such bound.

Deadlock is checked for the lifecycle. In the other instances the system may
stop: all tracers are used up, all interfaces or wrappers are deleted, or the sessions
are over.

Symmetry is declared for interchangeable threads, tickets, interfaces, thunks, tracers and handles,
and not in `lifecycle_threads`, which checks a liveness property.

Fairness: weak fairness of the steps of a call that is under way (`Run(t)`), for
each thread. The operating system schedules runnable threads and the native
calls are assumed to return. Nothing is assumed about when the application calls,
and nothing about the order in which threads get the lock: Python's `Lock` is
not fair. `LockReleased` needs no more than that.

`InfoHandles` assumes the same of running calls, and strong fairness of `Finalize` for
each wrapper: CPython runs `__del__` when the last reference goes, but the model
lets another wrapper's finalizer or call take the thread first. `NativeLoad`
assumes weak fairness of the steps of a call that has begun; whether sessions
follow, and when finalizers run, is left open.

## Proofs

For any number of threads, tickets, tracers, interfaces, thunks, wrappers and
libraries (tickets form a finite set, so that they can be counted; the other sets
may be infinite), lists of any length, and any width of integers.

*Lifecycle.* `OrderInv` is inductive: types, `LockDiscipline` (the lock is held by
exactly the threads between acquisition and release), `PublishOrder`,
`OnlyDllShutDown` and `StepInv`, which says for each step of a call what the code
before it has established. `PublishOrder` alone is not inductive: that
`ShutUnpublish` may reset the instance depends on the counter having been zeroed
by the same thread under the same lock. `HoldInv` adds the accounting for
disciplined callers: the tickets that count, of calls that have incremented the
counter and not yet decremented it, are as many as the counter says or fewer
(interrupts lose tickets, never references). From both follow `HeldIsUsable`,
`AgentStopsOnlyForLast`, `SharedObjectStable` and `FailedShutdownRetryable`.
`FalsyShutdownStops` needs the assumptions that no thread is interrupted and no
technology report raises, and `ImplementsSession` the assumptions that callers are
disciplined and not interrupted. The first is necessary: the run `shutdown_leak`
shows what happens otherwise.

Two theorems state properties that no run checks as such. `GetSdkIsShared` is the true
part of the claim that the run `get_sdk_none` refutes: `get_sdk` returns None or a
dummy only in a moment when no disciplined caller holds a reference, so whoever has
initialized gets the shared SDK in spite of the two reads without the lock.
`LockIsRunDown` is the part of `LockReleased` that needs no fairness: each step of the
owner of the lock, on every path of success or failure, lowers a count of the steps
that are left (`StepsLeft`), which is seven at the acquisition and zero at the release,
and no step of another thread touches it.

*Tracers.* `StackInv` is inductive: the stack of a thread is a chain of parents
(`ActiveChain`), every tracer on a stack still has its Python handle (`Placed`),
no tracer is on it twice, a started tracer is on the stack of its thread, and a
tracer that was never started has no children (`BegunInv`). The last two make the top
of a stack the only node with no open children. `HandleInv` adds what is known of
cleared handles, `CausalInv` that tags are only taken from tracers that were
started. `CausalOrder`, which quantifies over sets of tracers, follows because a step
gives a new parent or tag only to a tracer that nothing refers to yet: in
a set with that tracer, what is left without it has a first element already.

`FinishedComplete` and `FinishedIsFinal` speak of `RootOf` and `FinishedNodes`, which
are recursive along the parents. That the parents have no cycle is an invariant and
serves as the induction principle: a set of tracers in which each has its parent
in the set is empty. `RecordInv` also says that the recursive equation of `RootOf`
has a solution at all (`RootsDefined`); each start of a tracer gives one for the larger
forest. Besides, it ties the recorded roots to the stacks: what is on a stack has the root at
its bottom, a root is recorded once it has left its stack, and what has left a stack is
forgotten by its `Tracer`. From it, the tracers of a tree count as recorded together (`RecordedTrees`).

*Callbacks.* `CallbackInv`: what a call registered is still registered when it
assigns the attributes (`Undisturbed`), and until then the call itself holds the thunk
(`KeptInv`, `PythonInv`), but for the callbacks in `raced`. `RaceInv` says why: a call
that is alone is the only one that sets its callback, and a call that sets a callback which is
not in `raced` is alone. The theorems assume nothing about the callers.

*Info handles.* `CloseInv` says for every step of a close which state its wrapper and
native object are in: a closing thread is the only one and its wrapper still open unless
the wrapper is in `closedBeside` (`CloserInv`), a wrapper about to be used is not being
closed unless it is in `usedBeside` (`UserInv`), an object is deleted before its handle is
cleared (`ObjectInv`, `CallInv`). A finalizer runs only when nobody has a reference, so it
never adds to either set. The theorems assume nothing about who closes and uses what.

*Loading.* `LoadInv` relates `bound` to the stage that was reached: after the mandatory
functions, after the load information, after each group, up to the whole table;
with what each failure leaves behind, an option that raises included. That the gate is the range from 1.7.1 to 2.0.0
is a theorem about `OnesdkStubVersion` for all versions (`GateIsRange`), as is the order
(`VersionsAreOrdered`). `ImplementsChoice` adds `ChoiceInv`: which statuses go with
which interface, and that the null interface tells the version of a refused library.

*Options.* `OptionsReachLibrary` compares the loop that deletes from `argv` with the
comprehension. `LineInv` is the invariant of the loop: what the comprehension finds
among the arguments that are still to be looked at, followed by what the loop has
collected, is what it finds in the whole line; likewise for the arguments that
are no options and the end of `argv`; and the arguments before the index are untouched.
Afterwards the options passed are a beginning of those collected, all of which can be
converted: the whole of them if the library was initialized, and otherwise up to the first that cannot. It
holds for lines of any length. `CommandLinesAssumption` only says that a command line
is a sequence.

*Data.* `DllAsDocumented` and `MockAsDocumented` say that a documented request which is
accepted arrives as the documentation has it, so the test double and the real
interface agree on such requests. `MockRejectsWithPrefix` says where they differ: a request
that the mock rejects leaves a proper beginning of the pairs in it, up to the first
bad one, where the library gets none. `OnlyRangeIsKept` says that a number comes through
the conversion to a C integer unchanged if and only if it is in range. `HandlesKept`: a
`Tracer` has a handle of the other side exactly as long as its object lives, and
never that of another tracer's object. With this and the types of the conversions,
`CallsArrive` and `NumbersKept` follow by induction over the calls: what a call passes reaches
the object of its tracer. `TagsWhole` needs `SizeFits`, that the size
in hand is the one the library answered, with the terminator of a string tag: then
an unwritten or short buffer fails the assertion in the code.

Recursion over numbers (`Options`, `Others`, the pairs of a request) is reasoned about with
`LeastNatural`: the numbers for which a claim fails have no least one. It follows from
the library's theorem on well-founded sets, which speaks of sets; the induction
theorems that take a predicate are of no use to the provers at hand.

Only model-checked: `LockReleased`, `DroppedIsDeleted` and `InterfaceAvailable`, which are
liveness under fairness; and the runs that fail.

## Differences noted without a run

* A thread's `Path` in the mock stays after its root has ended, and
  `add_custom_request_attribute` makes an empty one; an SQL tracer started then
  becomes a root, though such traces are "only created if they occur within some
  other SDK trace" (`src/oneagent/sdk/__init__.py:145-146`).
* On a thread with a `Path` the mock raises when a tracer is ended that was never
  started, though `end` "may be called in any state" (`src/oneagent/sdk/tracers.py:123`);
  the `Tracer` keeps its handle.
* `agent_version_string` is documented to be empty before the initialization
  (`src/oneagent/sdk/__init__.py:470-471`); the null interface answers `-/-`, and a
  library whose options could not be passed None (`src/oneagent/_impl/native/sdkctypesiface.py:174`).
* `create_in_process_link` is documented to return bytes; the null interface
  returns None.
* An interrupt between the native delete and the assignment in `SDKHandleBase.close`
  leaves a wrapper that deletes a second time when it is finalized.
* Two threads that close a wrapper at once can both pass the test in
  `SDKHandleBase.close` (`src/oneagent/common.py:374`): the object is deleted twice, or the
  second call raises for the handle None. `DeletedOnce` excepts just these.
* Two threads that set the same diagnostic callback at once can free the one that
  is registered (`src/oneagent/_impl/native/sdkctypesiface.py:738-740`).
  `RegisteredStaysReferenced` excepts just these.
* The mock's `customrequestattribute_add_integers` and its two siblings pass `self`
  twice and always raise TypeError for a list that is not empty
  (`test-util-src/sdkmockiface.py:681`, 687, 693); its `agent_set_verbose_callback`
  fails once the agent is initialized, where its sibling fails before (lines 427, 433).
* A count larger than a list is padded with null strings by the library's wrapper and
  ignored by the mock; the documentation says nothing of it.

## Not modelled

* Forking: the states are those of the native agent, which is not in this
  repository. Python contributes a flag, and the copy of `_sdk_ref_lk` in a child;
  no code runs at a fork.
* The mock's agent functions and its list of custom attributes: stand-ins for
  native state that `Lifecycle` and `DiagCallbacks` have from the real interface.
* Typed attribute lists (`_wrap_typed_headerlist_fn`): the loops of `_wrap_headerlist_fn`
  with another element type, and no tracer to attach to.
* Text encodings, `strerror`, trace context strings: conversions without state,
  about which no property says anything.
* `six.py` (vendored), `setup.py`, samples and the documentation build (no state of
  the running system), logging and message texts, the enums of `common.py`
  (numbers).
