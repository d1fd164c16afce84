----------------------------- MODULE TracerData ------------------------------
(***************************************************************************)
(* What a tracer is told: the headers, parameters, numbers and texts the   *)
(* application passes to it, what reaches the other side of the native     *)
(* interface, and the tags and in-process links that come back.            *)
(*                                                                         *)
(* A Tracer knows the object on the other side by its handle, a number     *)
(* that is free again when the object is released and may be given to the  *)
(* next one.  A call on a Tracer is therefore a call on whatever object    *)
(* has its handle at that time.                                            *)
(*                                                                         *)
(* The interface is SDKDllInterface, whose other side is the library, or   *)
(* SDKMockInterface, which keeps the data itself, or SDKNullInterface,     *)
(* which keeps nothing.  Tracers are bound to their thread, and these are  *)
(* the tracers of one thread; which of them can start and end is up to     *)
(* TracerPath, so here any tracer can start and the innermost one ends.    *)
(* The agent behind the library comes and goes between any two native      *)
(* calls.                                                                  *)
(***************************************************************************)
EXTENDS Marshal

CONSTANTS
  Tracers,
  Handles,      \* of objects on the other side
  NullHandle,   \* 0: no object
  NoHandle,     \* None, the handle attribute of an ended Tracer
  NoTracer,
  Arguments,    \* the lists of names and values of the application
  Singles,      \* single names with their values
  Texts,        \* addresses, protocol names and message ids
  Numbers,      \* counts and status codes
  TagSizes,     \* lengths of the tags and links of the library
  MaxTold       \* bound: calls that tell something or ask for a tag

Kinds == {"inweb", "outweb", "sql", "incall", "outcall", "outmsg", "inmsg"}

PairFields == {"request", "response", "parameter"}
NumberFields == {"status", "rows", "trips"}
TextFields == {"address", "protocol", "vendorid", "correlation"}

\* What the tracer classes let the application tell after the factory.
LatePairs == [inweb |-> {"response", "parameter"}, outweb |-> {"response"}]
LateNumbers == [inweb |-> {"status"}, outweb |-> {"status"}, sql |-> {"rows", "trips"}]
LateTexts == [outmsg |-> {"vendorid", "correlation"}, inmsg |-> {"vendorid", "correlation"}]

ASSUME HandlesAssumption ==
  NullHandle \notin Handles /\ NoHandle \notin Handles /\ NoHandle # NullHandle
ASSUME NoTracerAssumption == NoTracer \notin Tracers
ASSUME ArgumentsAssumption ==
  Arguments \subseteq [form : {"lists", "counted"}, keys : Seq(Values), values : Seq(Values),
                       count : Int \cup {NoCount}]
ASSUME SinglesAssumption == Singles \subseteq Values \X Values
ASSUME TextsAssumption == Texts \subseteq Values
ASSUME NumbersAssumption == Numbers \subseteq Int
ASSUME TagSizesAssumption == TagSizes \subseteq Nat
ASSUME MaxToldAssumption == MaxTold \in Nat

VARIABLES
  iface,       \* the native interface of the session
  kind,        \* the factory that made the tracer
  handle,      \* attribute of the Tracer
  lost,        \* tracers whose factory raised: the application has none of them
  owner,       \* the tracer whose object has the handle, or NoTracer
  state,       \* of the object that was made for the tracer
  stack,       \* the tracers whose objects are started, innermost last
  pairs, number, text,  \* what the object of each tracer has been told
  askedPairs, askedNumber, askedText,  \* history: what accepted calls asked for
  spilled,     \* history: tracers of which a call raised halfway
  told,        \* calls so far
  getting,     \* the native call for the size that was answered last
  tag          \* the tag or link the last such call returned, with its history

pairVars == <<pairs, askedPairs, spilled>>
lifeVars == <<kind, handle, lost, owner, state, stack>>
numberVars == <<number, askedNumber>>
textVars == <<text, askedText>>
tagVars == <<getting, tag>>
vars == <<iface, lifeVars, pairVars, numberVars, textVars, told, tagVars>>

Getters == {"string", "byte", "link"}
Answers == [of : Getters, first : Nat, size : Nat]
Tags == [of : Getters, first : Nat, last : Nat, length : Nat, written : Nat]
Nothing == [of |-> "none"]

TypeOK ==
  /\ iface \in {"dll", "mock", "null"}
  /\ kind \in [Tracers -> Kinds \cup {"none"}]
  /\ handle \in [Tracers -> Handles \cup {NullHandle, NoHandle}]
  /\ lost \subseteq Tracers
  /\ owner \in [Handles -> Tracers \cup {NoTracer}]
  /\ state \in [Tracers -> {"none", "created", "started", "ended"}]
  /\ stack \in Seq(Tracers)
  /\ pairs \in [Tracers -> [PairFields -> Pairs]]
  /\ askedPairs \in [Tracers -> [PairFields -> Pairs]]
  /\ spilled \subseteq Tracers
  /\ number \in [Tracers -> [NumberFields -> SUBSET Int]]
  /\ askedNumber \in [Tracers -> [NumberFields -> SUBSET Int]]
  /\ text \in [Tracers -> [TextFields -> SUBSET Values]]
  /\ askedText \in [Tracers -> [TextFields -> SUBSET Values]]
  /\ told \in Nat
  /\ getting \in Answers \cup {Nothing}
  /\ tag \in Tags \cup {Nothing}
  /\ \A x \in Tracers :
       kind[x] = "none" => state[x] = "none" /\ handle[x] = NoHandle /\ x \notin lost
  /\ \A h \in Handles : owner[h] # NoTracer => kind[owner[h]] # "none"

Untold(fields, nothing) == [x \in Tracers |-> [f \in fields |-> nothing]]

Init ==
  /\ iface \in {"dll", "mock", "null"}
  /\ kind = [x \in Tracers |-> "none"]
  /\ handle = [x \in Tracers |-> NoHandle]
  /\ lost = {}
  /\ owner = [h \in Handles |-> NoTracer]
  /\ state = [x \in Tracers |-> "none"]
  /\ stack = <<>>
  /\ pairs = Untold(PairFields, <<>>) /\ askedPairs = pairs
  /\ spilled = {}
  /\ number = Untold(NumberFields, {}) /\ askedNumber = number
  /\ text = Untold(TextFields, {}) /\ askedText = text
  /\ told = 0
  /\ getting = Nothing
  /\ tag = Nothing

Tell == told < MaxTold /\ told' = told + 1

-----------------------------------------------------------------------------
(* Faulty variants of definitions below and of Marshal: each is a plausible  *)
(* slip in the code, and stands beside the specification to show that a      *)
(* property notices it.                                                      *)

\* The header wrapper calls the library for each pair as it converts it.
Arriving_Streamed(r) == MockPairs(r)

\* c_int32 where the library takes the number as unsigned.
StoredNumber_Unsigned(n) == n % (2 * Limit)

\* Tracer.end leaves the handle as it is.
HandleAfterEnd_Kept(h) == h

\* tracer_get_outgoing_tag takes the buffer as it is.
Complete_Unchecked(answer, cnt) == TRUE

\* A factory forgets the tracer it made.
Made_Forgotten(x, k, h) == kind' = kind /\ handle' = [handle EXCEPT ![x] = h]

-----------------------------------------------------------------------------
(* Passing names and values *)

Accepts(r) == IF iface = "mock" THEN MockAccepts(r) ELSE DllAccepts(r)

\* The wrappers of SDKDllInterface call the library once, when both arrays are
\* filled; the mock adds pair after pair, and keeps what it has when one fails.
Arriving(r) ==
  IF iface = "mock" THEN MockPairs(r)
  ELSE IF DllAccepts(r) THEN DllPairs(r) ELSE <<>>

\* What the call asks for, as far as its documentation says so.
Asked(r) == IF Documented(r) THEN AskedPairs(r) ELSE Arriving(r)

\* A call on x that reaches the object of y.
TellPairs(x, y, f, r) ==
  /\ Tell
  /\ pairs' = [pairs EXCEPT ![y][f] = @ \o Arriving(r)]
  /\ askedPairs' = IF Accepts(r) THEN [askedPairs EXCEPT ![x][f] = @ \o Asked(r)] ELSE askedPairs
  /\ spilled' = IF ~Accepts(r) /\ Arriving(r) # <<>> THEN spilled \cup {y} ELSE spilled

\* A call passes the handle of the Tracer on.  It raises for None and is of no
\* effect for 0 or for a handle that no object has; else it goes to the object
\* that has the handle, for whichever tracer that was made.
Object(x) == owner[handle[x]]
Reaches(x) == x \notin lost /\ handle[x] \in Handles /\ Object(x) # NoTracer

\* add_parameters, add_response_headers
AddPairs(x, f, arg) ==
  /\ Reaches(x) /\ kind[x] \in DOMAIN LatePairs /\ f \in LatePairs[kind[x]]
  /\ TellPairs(x, Object(x), f, AddKvs(arg))
  /\ UNCHANGED <<iface, lifeVars, numberVars, textVars, tagVars>>

Single(p) == [keys |-> <<p[1]>>, values |-> <<p[2]>>, count |-> 1]

\* add_parameter, add_response_header: arrays of one entry, or one pair
AddPair(x, f, p) ==
  /\ Reaches(x) /\ kind[x] \in DOMAIN LatePairs /\ f \in LatePairs[kind[x]]
  /\ TellPairs(x, Object(x), f, Single(p))
  /\ UNCHANGED <<iface, lifeVars, numberVars, textVars, tagVars>>

-----------------------------------------------------------------------------
(* Numbers and texts *)

StoredNumber(n) == IF iface = "dll" THEN CInt(n) ELSE n

\* The mock asserts that counts are not negative.
NumberAccepted(f, n) == iface = "dll" \/ f = "status" \/ n >= 0

\* set_status_code, set_rows_returned, set_round_trip_count
SetNumber(x, f, n) ==
  /\ Reaches(x) /\ kind[x] \in DOMAIN LateNumbers /\ f \in LateNumbers[kind[x]]
  /\ NumberAccepted(f, n)
  /\ Tell
  /\ number' = [number EXCEPT ![Object(x)][f] = {StoredNumber(n)}]
  /\ askedNumber' = [askedNumber EXCEPT ![x][f] = {n}]
  /\ UNCHANGED <<iface, lifeVars, pairVars, textVars, tagVars>>

\* The mock keeps the ids of outgoing messages as they come, and drops the ones
\* of processed messages.
Dropped(x) == iface = "mock" /\ kind[x] = "inmsg"
MessageIdAccepted(v) == iface = "mock" \/ Convertible(v)

\* set_vendor_message_id, set_correlation_id
SetMessageId(x, f, v) ==
  /\ Reaches(x) /\ kind[x] \in DOMAIN LateTexts /\ f \in LateTexts[kind[x]]
  /\ MessageIdAccepted(v)
  /\ Tell
  /\ text' = IF Dropped(Object(x)) THEN text ELSE [text EXCEPT ![Object(x)][f] = {v}]
  /\ askedText' = [askedText EXCEPT ![x][f] = {v}]
  /\ UNCHANGED <<iface, lifeVars, pairVars, numberVars, tagVars>>

-----------------------------------------------------------------------------
(* Factories.  What they pass on for the new tracer are its entry fields,    *)
(* which the mock takes only before the start.                               *)

Made(x, k, h) ==
  /\ kind' = [kind EXCEPT ![x] = k]
  /\ handle' = [handle EXCEPT ![x] = h]

\* Without an agent the library's handle is 0, and the null interface gives that
\* handle for everything: the tracer is falsy, and what is told of it is told of
\* no object.  The web request factories return it as it is; those for calls
\* pass the protocol name on, which may raise.
Reject(x, k) ==
  /\ kind[x] = "none" /\ iface \in {"dll", "null"}
  /\ Made(x, k, NullHandle)
  /\ \/ UNCHANGED lost
     \/ iface = "dll" /\ k \in {"incall", "outcall"} /\ lost' = lost \cup {x}
  /\ UNCHANGED <<iface, owner, state, stack, pairVars, numberVars, textVars, told, tagVars>>

\* The library gives the new object a free handle, which may be one that an
\* ended object had; a handle of the mock is the object itself, and no other as
\* long as anybody has it.
FreeHandle(h) == owner[h] = NoTracer /\ (iface = "mock" => \A y \in Tracers : handle[y] # h)

NewObject(x, k, h) ==
  /\ kind[x] = "none" /\ iface # "null" /\ FreeHandle(h)
  /\ Made(x, k, h)
  /\ owner' = [owner EXCEPT ![h] = x]
  /\ state' = [state EXCEPT ![x] = "created"]

\* trace_sql_database_request, trace_outgoing_message and
\* trace_incoming_message_process have nothing to pass on but tags.
CreatePlain(x, k, h) ==
  /\ k \in {"sql", "outmsg", "inmsg"}
  /\ NewObject(x, k, h)
  /\ UNCHANGED <<iface, lost, stack, pairVars, numberVars, textVars, told, tagVars>>

\* if protocol_name is not None.  If that raises nobody ends the tracer: the
\* Tracer is lost with the only reference to its object.
CreateCall(x, k, h, v) ==
  /\ k \in {"incall", "outcall"}
  /\ Tell
  /\ NewObject(x, k, h)
  /\ lost' = IF OptionalString(v) THEN lost ELSE lost \cup {x}
  /\ IF OptionalString(v) /\ v # None
     THEN /\ text' = [text EXCEPT ![x]["protocol"] = {v}]
          /\ askedText' = [askedText EXCEPT ![x]["protocol"] = {v}]
     ELSE UNCHANGED textVars
  /\ UNCHANGED <<iface, stack, pairVars, numberVars, tagVars>>

\* The headers come first; a remote address is passed on unless it is falsy.
AddressArrives(k, v, r) == k = "inweb" /\ Accepts(r) /\ OptionalString(v) /\ v \notin {None, Blank}
WebFactoryRaises(k, v, r) == ~Accepts(r) \/ (k = "inweb" /\ ~OptionalString(v))

\* Tracer.end: self.handle = None
HandleAfterEnd(h) == NoHandle

\* If either raises, the factory ends the tracer: its object is released, and
\* the handle is free again.
MadeOrEnded(x, k, h, raises) ==
  IF raises
  THEN /\ kind[x] = "none" /\ iface # "null" /\ FreeHandle(h)
       /\ Made(x, k, HandleAfterEnd(h))
       /\ state' = [state EXCEPT ![x] = "ended"]
       /\ lost' = lost \cup {x}
       /\ UNCHANGED owner
  ELSE NewObject(x, k, h) /\ UNCHANGED lost

CreateWeb(x, k, h, arg, v) ==
  /\ k \in {"inweb", "outweb"}
  /\ TellPairs(x, x, "request", GetKvc(arg))
  /\ MadeOrEnded(x, k, h, WebFactoryRaises(k, v, GetKvc(arg)))
  /\ IF AddressArrives(k, v, GetKvc(arg))
     THEN /\ text' = [text EXCEPT ![x]["address"] = {v}]
          /\ askedText' = [askedText EXCEPT ![x]["address"] = {v}]
     ELSE UNCHANGED textVars
  /\ UNCHANGED <<iface, stack, numberVars, tagVars>>

Start(x) ==
  /\ Reaches(x) /\ state[Object(x)] = "created"
  /\ state' = [state EXCEPT ![Object(x)] = "started"]
  /\ stack' = Append(stack, Object(x))
  /\ UNCHANGED <<iface, kind, handle, lost, owner, pairVars, numberVars, textVars, told, tagVars>>

\* tracer_end of the innermost object, or of one that never started.
Release(y) ==
  /\ \/ /\ stack # <<>> /\ y = stack[Len(stack)]
        /\ stack' = SubSeq(stack, 1, Len(stack) - 1)
     \/ state[y] = "created" /\ UNCHANGED stack
  /\ state' = [state EXCEPT ![y] = "ended"]

\* Tracer.end, with a handle; without one it does nothing.
End(x) ==
  /\ \/ /\ Reaches(x)
        /\ Release(Object(x))
        /\ owner' = [owner EXCEPT ![handle[x]] = NoTracer]
     \/ handle[x] = NullHandle /\ UNCHANGED <<owner, state, stack>>
  /\ handle' = [handle EXCEPT ![x] = HandleAfterEnd(@)]
  /\ UNCHANGED <<iface, kind, lost, pairVars, numberVars, textVars, told, tagVars>>

-----------------------------------------------------------------------------
(* tracer_get_outgoing_tag and create_in_process_link of SDKDllInterface:    *)
(* one native call for the size, a buffer of that size, one call to fill it. *)
(* The mock answers in one step, as in TracerPath.                           *)

\* Lengths of the tag or link at the time of a native call; 0 without an agent.
LengthsNow == TagSizes \cup {0}

\* A string tag has a terminator; without a tag there need not be one.
SizesOf(g, n) == IF g # "string" THEN {n} ELSE IF n = 0 THEN {0, 1} ELSE {n + 1}

Taggable == {"outweb", "outcall", "outmsg"}

TagOwner(g) == g = "link" \/ \E i \in 1..Len(stack) : kind[stack[i]] \in Taggable

AskSize(g) ==
  /\ iface = "dll" /\ getting = Nothing /\ TagOwner(g)
  /\ Tell
  /\ \E n \in LengthsNow : \E size \in SizesOf(g, n) :
       getting' = [of |-> g, first |-> n, size |-> size]
  /\ tag' = Nothing
  /\ UNCHANGED <<iface, lifeVars, pairVars, numberVars, textVars>>

\* The second call writes everything, or nothing if the buffer is too small.
BytesWritten(answer, n) ==
  LET needed == IF answer.of = "string" THEN n + 1 ELSE n IN
    IF needed <= answer.size THEN n ELSE 0

\* assert cnt == tagsz.value, or cnt + 1 for a string tag
Complete(answer, cnt) == (IF answer.of = "string" THEN cnt + 1 ELSE cnt) = answer.size

\* A string tag is what the buffer has before the terminator, the others are
\* the whole buffer.
Fill(n) ==
  /\ getting # Nothing
  /\ LET cnt == BytesWritten(getting, n) IN
       tag' = IF Complete(getting, cnt)
              THEN [of |-> getting.of, first |-> getting.first, last |-> n,
                    length |-> IF getting.of = "string" THEN cnt ELSE getting.size,
                    written |-> cnt]
              ELSE Nothing
  /\ getting' = Nothing
  /\ UNCHANGED <<iface, lifeVars, pairVars, numberVars, textVars, told>>

\* The null interface has an empty tag for every tracer.
NullTag(x, g) ==
  /\ iface = "null" /\ kind[x] \in Taggable /\ g # "link"
  /\ tag' = [of |-> g, first |-> 0, last |-> 0, length |-> 0, written |-> 0]
  /\ UNCHANGED <<iface, lifeVars, pairVars, numberVars, textVars, told, getting>>

-----------------------------------------------------------------------------
Next ==
  \/ \E x \in Tracers :
       \/ \E k \in Kinds : Reject(x, k) \/ \E h \in Handles : CreatePlain(x, k, h)
       \/ \E k \in Kinds, h \in Handles, v \in Texts :
            CreateCall(x, k, h, v) \/ \E arg \in Arguments : CreateWeb(x, k, h, arg, v)
       \/ \E f \in PairFields, arg \in Arguments : AddPairs(x, f, arg)
       \/ \E f \in PairFields, p \in Singles : AddPair(x, f, p)
       \/ \E f \in NumberFields, n \in Numbers : SetNumber(x, f, n)
       \/ \E f \in TextFields, v \in Texts : SetMessageId(x, f, v)
       \/ \E g \in Getters : NullTag(x, g)
       \/ Start(x) \/ End(x)
  \/ \E g \in Getters : AskSize(g)
  \/ \E n \in LengthsNow : Fill(n)

Spec == Init /\ [][Next]_vars

-----------------------------------------------------------------------------
(* Properties *)

\* What calls that return have passed to a tracer is what the other side has of
\* it, every pair in its order and no other: always with the library, which a
\* call that raises does not reach, and with the mock until a call raises
\* halfway.  The mock drops the ids of processed messages.
AcceptedArrive ==
  \A x \in Tracers :
    /\ iface # "mock" \/ x \notin spilled => pairs[x] = askedPairs[x]
    /\ ~Dropped(x) => text[x] = askedText[x]

\* A number the library has room for arrives unchanged, and the mock, which has
\* room for every number, has no negative count.
NumbersArrive ==
  \A x \in Tracers, f \in NumberFields :
    /\ \A n \in askedNumber[x][f] : iface = "mock" \/ InRange(n) => number[x][f] = {n}
    /\ iface = "mock" /\ f # "status" => \A n \in number[x][f] : n >= 0

\* "The tracer is now ended and no further operations are allowed on it": a
\* Tracer has a handle of the other side just as long as its object lives, and
\* never one that has passed to the object of another Tracer; every object that
\* lives can be ended by its Tracer, but for those of the call factories that
\* raised, which nobody ends.
HandlesAreOwn ==
  /\ \A x \in Tracers :
       /\ handle[x] \in Handles <=> state[x] \in {"created", "started"}
       /\ handle[x] \in Handles => Object(x) = x
       /\ x \in lost => handle[x] = NoHandle \/ kind[x] \in {"incall", "outcall"}
  /\ \A h \in Handles : owner[h] # NoTracer => handle[owner[h]] = h

\* However the agent comes and goes between the two native calls, a tag or link
\* that is returned is one the library had at one of them, to its last byte.
TagsAreWhole ==
  tag # Nothing => tag.length = tag.written /\ tag.length \in {tag.first, tag.last}

\* "An optional integer giving the count of values in names / values to use":
\* a call with strings of which it uses the first count adds those.
CountIsUsed ==
  [][\A x \in Tracers, f \in PairFields, arg \in Arguments :
       LET r == AddKvs(arg) IN
         /\ AddPairs(x, f, arg) /\ Documented(r)
         /\ \A i \in 1..Len(r.keys) : NonBlank(r.keys[i])
         /\ \A i \in 1..Len(r.values) : NonBlank(r.values[i])
         => pairs'[x][f] = pairs[x][f] \o AskedPairs(r)]_vars
=============================================================================
