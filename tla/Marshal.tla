------------------------------- MODULE Marshal -------------------------------
(***************************************************************************)
(* What becomes of the values an application passes: the conversions of    *)
(* SDKDllInterface to the types of the native library, and the checks of   *)
(* SDKMockInterface, which takes its place in the tests.                   *)
(*                                                                         *)
(* A value is a string with text in it, a blank string, None, or an object *)
(* of another type.  A request for name/value pairs has the names, the     *)
(* values and a count, which may be NoCount (None).                        *)
(***************************************************************************)
EXTENDS Integers, Sequences, FiniteSets

CONSTANTS
  Words,      \* strings that are not blank
  Blank,
  None,
  Foreign,    \* an object that is not a string
  NoCount,
  Limit       \* 2^31: the library's integers are -Limit..Limit - 1

Values == Words \cup {Blank, None, Foreign}

ASSUME WordsAssumption == Blank \notin Words /\ None \notin Words /\ Foreign \notin Words
ASSUME ForeignAssumption == Foreign # Blank /\ Foreign # None
ASSUME NoneAssumption == Blank # None
ASSUME NoCountAssumption == NoCount \notin Int
ASSUME LimitAssumption == Limit \in Nat \ {0}

Pairs == Seq(Values \X Values)
Requests == [keys : Seq(Values), values : Seq(Values), count : Int \cup {NoCount}]

Smaller(a, b) == IF a < b THEN a ELSE b

-----------------------------------------------------------------------------
(* How an argument of the public interface becomes a request: "lists" is a   *)
(* mapping or two lists, "counted" two lists with a count, None perhaps.     *)

\* Headers given to a factory.
GetKvc(arg) == IF arg.form = "counted"
               THEN [keys |-> arg.keys, values |-> arg.values, count |-> arg.count]
               ELSE [keys |-> arg.keys, values |-> arg.values, count |-> Len(arg.keys)]

\* add_parameters, add_response_headers: a count of None is resolved as well.
AddKvs(arg) ==
  [keys |-> arg.keys, values |-> arg.values,
   count |-> IF arg.form = "counted" /\ arg.count # NoCount THEN arg.count ELSE Len(arg.keys)]

-----------------------------------------------------------------------------
(* SDKDllInterface *)

\* CCString.from_param takes text, bytes and None.
Convertible(v) == v # Foreign

Count(r) == IF r.count = NoCount THEN Len(r.keys) ELSE r.count

\* The arrays have Count(r) entries, and the loops put every name and every
\* value into them: an entry too many is an IndexError.
DllAccepts(r) ==
  /\ Count(r) >= 0
  /\ Len(r.keys) <= Count(r) /\ Len(r.values) <= Count(r)
  /\ \A i \in 1..Len(r.keys) : Convertible(r.keys[i])
  /\ \A i \in 1..Len(r.values) : Convertible(r.values[i])

\* An entry nobody writes is zeroed, which is the same as NULL_STR.
Entry(s, i) == IF i <= Len(s) THEN s[i] ELSE None

DllPairs(r) == [i \in 1..Count(r) |-> <<Entry(r.keys, i), Entry(r.values, i)>>]

\* ctypes keeps the low bits of an int, as a signed number.
CInt(n) == ((n + Limit) % (2 * Limit)) - Limit

-----------------------------------------------------------------------------
(* SDKMockInterface *)

\* _strcheck, for mandatory and for optional strings
NonBlank(v) == v \in Words
OptionalString(v) == v # Foreign

\* zip(range(count), keys, vals)
ZipLength(r) ==
  IF r.count < 0 THEN 0 ELSE Smaller(r.count, Smaller(Len(r.keys), Len(r.values)))

GoodPair(r, i) == NonBlank(r.keys[i]) /\ NonBlank(r.values[i])

MockAccepts(r) == r.count # NoCount /\ \A i \in 1..ZipLength(r) : GoodPair(r, i)

\* The pairs the loop adds before it raises.
MockLength(r) ==
  IF r.count = NoCount THEN 0
  ELSE Cardinality({n \in 1..ZipLength(r) : \A i \in 1..n : GoodPair(r, i)})

MockPairs(r) == [i \in 1..MockLength(r) |-> <<r.keys[i], r.values[i]>>]

-----------------------------------------------------------------------------
(* The documentation of add_parameters and of the headers: names and values  *)
(* are equally long, or a count says how many of them to use.                *)

Documented(r) ==
  IF r.count = NoCount THEN Len(r.keys) = Len(r.values)
  ELSE r.count >= 0 /\ r.count <= Len(r.keys) /\ r.count <= Len(r.values)

AskedPairs(r) == [i \in 1..Count(r) |-> <<r.keys[i], r.values[i]>>]

InRange(n) == n >= -Limit /\ n < Limit
=============================================================================
