---------------------------- MODULE ParserSession ----------------------------
(***************************************************************************)
(* TreeSitterParser objects shared by threads: parse(), parseIncremental(), *)
(* setIncludedRanges() and reset() use the native parser under the mutex   *)
(* of the object.  copy() makes an object with a native parser of its own. *)
(* setTimeout() only writes a member that nothing reads, and is left out.  *)
(*                                                                         *)
(* The native parser is not part of the repository: it parses with the     *)
(* included ranges it finds when it begins and reads them again as it goes *)
(* on, and it refuses ranges that are not in order.                        *)
(***************************************************************************)
EXTENDS Naturals, FiniteSets

CONSTANTS
    Thread,
    Parser,     \* TreeSitterParser objects
    Source,     \* texts given to parse()
    Ranges,     \* arguments of setIncludedRanges()
    Everything, \* the ranges of a new parser, and of an empty list
    Ordered,    \* the arguments the native parser accepts
    Null

ASSUME RangeLists == Everything \in Ordered /\ Ordered \subseteq Ranges
ASSUME NullIsNothing == Null \notin Thread \cup Parser \cup Source \cup Ranges

VARIABLES
    handle,   \* Parser -> its native parser, named for the object it was made
              \* for; Null: there is no such object
    included, \* native parser -> its included ranges
    mutex,    \* Parser -> the threads inside its lock_guard
    pc,       \* Thread -> where its call is
    parser,   \* Thread -> the object it calls
    source,   \* Thread -> the text of its parse
    ranges    \* Thread -> the argument of its setIncludedRanges(), or the
              \* ranges its parse began with

objects == <<handle, included>>
frame   == <<parser, source, ranges>>
session == <<objects, mutex, pc, frame>>

SessionTypeOK ==
    /\ handle \in [Parser -> Parser \cup {Null}]
    /\ included \in [Parser -> Ranges]
    /\ mutex \in [Parser -> SUBSET Thread]
    /\ pc \in [Thread -> {"idle", "parse", "parsing", "setRanges", "setting",
                          "reset", "resetting"}]
    /\ parser \in [Thread -> Parser \cup {Null}]
    /\ source \in [Thread -> Source \cup {Null}]
    /\ ranges \in [Thread -> Ranges \cup {Null}]

SessionInit ==
    /\ handle = [p \in Parser |-> Null]
    /\ included = [p \in Parser |-> Everything]
    /\ mutex = [p \in Parser |-> {}]
    /\ pc = [t \in Thread |-> "idle"]
    /\ parser = [t \in Thread |-> Null]
    /\ source = [t \in Thread |-> Null]
    /\ ranges = [t \in Thread |-> Null]

At(t, step) == pc[t] = step
Goto(t, step) == pc' = [pc EXCEPT ![t] = step]
Enter(t, p, step) ==
    /\ At(t, "idle")
    /\ handle[p] # Null
    /\ parser' = [parser EXCEPT ![t] = p]
    /\ Goto(t, step)
Return(t) ==
    /\ mutex' = [p \in Parser |-> mutex[p] \ {t}]
    /\ Goto(t, "idle")
    /\ parser' = [parser EXCEPT ![t] = Null]
    /\ source' = [source EXCEPT ![t] = Null]
    /\ ranges' = [ranges EXCEPT ![t] = Null]

-----------------------------------------------------------------------------
(* Objects *)

New(p) ==
    /\ handle[p] = Null
    /\ handle' = [handle EXCEPT ![p] = p]
    /\ included' = [included EXCEPT ![p] = Everything]

Construct(p) ==
    /\ New(p)
    /\ UNCHANGED <<mutex, pc, frame>>

\* Faulty: the copy takes over the native parser.
CopyHandle(t, p, new) ==
    /\ At(t, "idle")
    /\ handle[p] # Null /\ handle[new] = Null
    /\ handle' = [handle EXCEPT ![new] = handle[p]]
    /\ UNCHANGED <<included, mutex, pc, frame>>

\* The copy has the language of the parser, its ranges it has not.
Copy(t, p, new) ==
    /\ At(t, "idle")
    /\ handle[p] # Null
    /\ New(new)
    /\ UNCHANGED <<mutex, pc, frame>>

\* The runtime keeps the object while a method of it runs.
Destroy(p) ==
    /\ handle[p] # Null
    /\ \A t \in Thread : parser[t] # p
    /\ handle' = [handle EXCEPT ![p] = Null]
    /\ included' = [included EXCEPT ![p] = Everything]
    /\ UNCHANGED <<mutex, pc, frame>>

-----------------------------------------------------------------------------
(* parse() and parseIncremental() *)

CallParse(t, p, s) ==
    /\ Enter(t, p, "parse")
    /\ source' = [source EXCEPT ![t] = s]
    /\ UNCHANGED <<objects, mutex, ranges>>

Acquire(t) ==
    /\ mutex[parser[t]] = {}
    /\ mutex' = [mutex EXCEPT ![parser[t]] = {t}]

LockParse(t) ==
    /\ At(t, "parse")
    /\ Acquire(t)
    /\ Goto(t, "parsing")
    /\ ranges' = [ranges EXCEPT ![t] = included[handle[parser[t]]]]
    /\ UNCHANGED <<objects, parser, source>>

\* Parsed, or the native parser returned no tree: TREESITTER-PARSE-ERROR.
EndParse(t) ==
    /\ At(t, "parsing")
    /\ Return(t)
    /\ UNCHANGED objects

-----------------------------------------------------------------------------
(* setIncludedRanges() and reset() *)

CallSetRanges(t, p, r) ==
    /\ Enter(t, p, "setRanges")
    /\ ranges' = [ranges EXCEPT ![t] = r]
    /\ UNCHANGED <<objects, mutex, source>>

LockRanges(t) ==
    /\ At(t, "setRanges")
    /\ Acquire(t)
    /\ Goto(t, "setting")
    /\ UNCHANGED <<objects, frame>>

\* Faulty: ranges that are refused are tried again.
RefuseAgain(t) ==
    /\ At(t, "setting")
    /\ ranges[t] \notin Ordered
    /\ UNCHANGED session

RefuseRanges(t) ==
    /\ At(t, "setting")
    /\ ranges[t] \notin Ordered
    /\ Return(t)
    /\ UNCHANGED objects

\* Faulty: the argument is read after it is gone.
SetDropped(t) ==
    /\ At(t, "setting")
    /\ ranges[t] \in Ordered
    /\ Return(t)
    /\ included' = [included EXCEPT ![handle[parser[t]]] = ranges'[t]]
    /\ UNCHANGED handle

SetRanges(t) ==
    /\ At(t, "setting")
    /\ ranges[t] \in Ordered
    /\ included' = [included EXCEPT ![handle[parser[t]]] = ranges[t]]
    /\ Return(t)
    /\ UNCHANGED handle

CallReset(t, p) ==
    /\ Enter(t, p, "reset")
    /\ UNCHANGED <<objects, mutex, source, ranges>>

LockReset(t) ==
    /\ At(t, "reset")
    /\ Acquire(t)
    /\ Goto(t, "resetting")
    /\ UNCHANGED <<objects, frame>>

\* ts_parser_reset() forgets a parse that was stopped; ranges stay.
Reset(t) ==
    /\ At(t, "resetting")
    /\ Return(t)
    /\ UNCHANGED objects

-----------------------------------------------------------------------------
(* What must hold *)

\* The ranges never change under a parse, whatever other threads do with this
\* parser and its copies: what a tree was parsed with is what was set when the
\* parse began and is still set when it ends.
RangesHoldForAParse ==
    \A t \in Thread : At(t, "parsing") => ranges[t] = included[handle[parser[t]]]

\* Why they do: objects share no native parser, a call keeps its object, and
\* every use of the native parser is inside the mutex of the object.
OwnParsers == \A p \in Parser : handle[p] \in {p, Null}
CallsKeepParsers ==
    \A t \in Thread : ~At(t, "idle") => parser[t] \in Parser /\ handle[parser[t]] = parser[t]
ArgumentsKept ==
    \A t \in Thread :
        /\ pc[t] \in {"parse", "parsing"} => source[t] \in Source
        /\ pc[t] \in {"setRanges", "setting"} => ranges[t] \in Ranges
LocksHeld ==
    \A t \in Thread :
        pc[t] \in {"parsing", "setting", "resetting"} => mutex[parser[t]] = {t}
SessionInv ==
    /\ SessionTypeOK
    /\ OwnParsers /\ CallsKeepParsers /\ ArgumentsKept /\ LocksHeld
    /\ RangesHoldForAParse

\* Every call returns, also one that waits for the parse of another thread.
CallsReturn == \A t \in Thread : ~At(t, "idle") ~> At(t, "idle")
=============================================================================
