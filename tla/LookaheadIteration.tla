-------------------------- MODULE LookaheadIteration --------------------------
(***************************************************************************)
(* One TreeSitterLookaheadIterator that threads share, on top of the       *)
(* registry that finds its language.  reset() finds the language before it *)
(* takes the mutex; every use of the native iterator is inside it.         *)
(*                                                                         *)
(* The native iterator is not part of the repository: it refuses a state   *)
(* that its language does not have, assigns its fields one after another   *)
(* and hands out the symbols of its state in the order of its tables.      *)
(***************************************************************************)
EXTENDS LanguageRegistry, Integers

CONSTANTS
    ScriptState, \* integers that scripts give as a parse state
    Width,       \* TSStateId holds 0 .. Width - 1
    StateCount,  \* language -> how many states it has
    Expected     \* language -> state -> the symbols that can follow

ASSUME States ==
    /\ Width \in Nat \ {0} /\ ScriptState \subseteq Int
    /\ StateCount \in [Language -> 1 .. Width]
    /\ DOMAIN Expected = Language
    /\ \A l \in Language : DOMAIN Expected[l] = 0 .. StateCount[l] - 1

VARIABLES
    native, \* the native iterator, Null: there is no object
    taken,  \* Symbol -> calls of next() that moved to it since the last reset
    mutex,  \* the threads inside a lock_guard
    call,   \* Thread -> the method it is in, "none": no method
    at,     \* Thread -> how far it got
    state,  \* Thread -> the parse state it was called with, as TSStateId
    pick    \* Thread -> the symbol its next() moves to

object == <<native, taken, mutex>>
frame  == <<state, pick>>
vars   == <<registry, object, call, at, frame>>

SymbolsOf(l) == UNION {Expected[l][s] : s \in DOMAIN Expected[l]}
Symbol == UNION {SymbolsOf(l) : l \in Language}
Native == [language : Language, state : 0 .. Width - 1, left : SUBSET Symbol,
           current : Symbol \cup {Null}]

ASSUME NullIsNoIterator == Null \notin Native

TypeOK ==
    /\ RegistryTypeOK
    /\ native \in Native \cup {Null}
    /\ taken \in [Symbol -> Nat]
    /\ mutex \subseteq Thread
    /\ call \in [Thread -> {"none", "isLanguageSupported", "constructor",
                            "reset", "resetState", "next", "getCurrentSymbol"}]
    /\ at \in [Thread -> {"idle", "resolve", "lock", "inside", "store"}]
    /\ state \in [Thread -> 0 .. Width - 1]
    /\ pick \in [Thread -> Symbol \cup {Null}]

Init ==
    /\ RegistryInit
    /\ native = Null
    /\ taken = [s \in Symbol |-> 0]
    /\ mutex = {}
    /\ call = [t \in Thread |-> "none"]
    /\ at = [t \in Thread |-> "idle"]
    /\ state = [t \in Thread |-> 0]
    /\ pick = [t \in Thread |-> Null]

Is(t, method, step) == call[t] = method /\ at[t] = step
Goto(t, step) == at' = [at EXCEPT ![t] = step]
Begin(t, method, step) == at[t] = "idle" /\ Goto(t, step) /\ call' = [call EXCEPT ![t] = method]
Return(t) ==
    /\ mutex' = mutex \ {t}
    /\ Goto(t, "idle")
    /\ call' = [call EXCEPT ![t] = "none"]
    /\ state' = [state EXCEPT ![t] = 0]
    /\ pick' = [pick EXCEPT ![t] = Null]
    /\ Forget(t)

\* Faulty: the integer of the script is taken as it is.
Uncut(i) == i

\* static_cast<TSStateId>
ToStateId(i) == i % Width

Fits(l, s) == s < StateCount[l]
Restarted(n, s) == [n EXCEPT !.state = s, !.left = Expected[n.language][s], !.current = Null]

-----------------------------------------------------------------------------
(* isLanguageSupported(), constructor, destructor *)

isLanguageSupported(t, n) ==
    /\ Begin(t, "isLanguageSupported", "resolve")
    /\ getLanguage(t, n)
    /\ UNCHANGED <<object, frame>>

Supported(t) ==
    /\ Is(t, "isLanguageSupported", "resolve") /\ In(t, "idle")
    /\ Return(t)
    /\ UNCHANGED <<native, taken>>

\* No thread is in a method of the object or in its constructor.
Unused == \A u \in Thread : call[u] \in {"none", "isLanguageSupported"}

Construct(t, n, i) ==
    /\ native = Null /\ Unused
    /\ Begin(t, "constructor", "resolve")
    /\ state' = [state EXCEPT ![t] = ToStateId(i)]
    /\ getLanguage(t, n)
    /\ UNCHANGED <<object, pick>>

Constructed(t) ==
    /\ Is(t, "constructor", "resolve") /\ In(t, "idle")
    /\ Return(t)
    /\ native' = IF found[t] # Null /\ Fits(found[t], state[t])
                 THEN Restarted([language |-> found[t], state |-> 0, left |-> {},
                                 current |-> Null], state[t])
                 ELSE Null           \* an exception: the object is not created
    /\ taken' = [s \in Symbol |-> 0]

\* The runtime keeps the object while a method of it runs.
Destroy ==
    /\ native # Null /\ Unused
    /\ native' = Null
    /\ UNCHANGED <<registry, taken, mutex, call, at, frame>>

-----------------------------------------------------------------------------
(* reset() and resetState() *)

Reset(t, n, i) ==
    /\ native # Null
    /\ Begin(t, "reset", "resolve")
    /\ state' = [state EXCEPT ![t] = ToStateId(i)]
    /\ getLanguage(t, n)
    /\ UNCHANGED <<object, pick>>

\* An unknown language is an exception; the iterator is not touched.
Resolved(t) ==
    /\ Is(t, "reset", "resolve") /\ In(t, "idle")
    /\ IF found[t] = Null
       THEN Return(t)
       ELSE Goto(t, "lock") /\ UNCHANGED <<registry, mutex, call, frame>>
    /\ UNCHANGED <<native, taken>>

ResetState(t, i) ==
    /\ native # Null
    /\ Begin(t, "resetState", "lock")
    /\ state' = [state EXCEPT ![t] = ToStateId(i)]
    /\ UNCHANGED <<registry, object, pick>>

\* Faulty: the mutex is not taken.
Pass(t) ==
    /\ at[t] = "lock"
    /\ mutex' = mutex \cup {t}
    /\ Goto(t, "inside")
    /\ UNCHANGED <<registry, native, taken, call, frame>>

Lock(t) ==
    /\ at[t] = "lock"
    /\ mutex = {} /\ mutex' = {t}
    /\ Goto(t, "inside")
    /\ UNCHANGED <<registry, native, taken, call, frame>>

NewLanguage(t) == IF call[t] = "reset" THEN found[t] ELSE native.language

\* Faulty: the language is exchanged before the state is looked at.
SwitchFirst(t) ==
    /\ call[t] \in {"reset", "resetState"} /\ at[t] = "inside"
    /\ native' = [native EXCEPT !.language = NewLanguage(t)]
    /\ IF Fits(NewLanguage(t), state[t])
       THEN Goto(t, "store") /\ UNCHANGED <<registry, mutex, call, frame>>
       ELSE Return(t)
    /\ UNCHANGED taken

CheckState(t) ==
    /\ call[t] \in {"reset", "resetState"} /\ at[t] = "inside"
    /\ IF Fits(NewLanguage(t), state[t])
       THEN /\ native' = [native EXCEPT !.language = NewLanguage(t)]
            /\ Goto(t, "store") /\ UNCHANGED <<registry, mutex, call, frame>>
       ELSE Return(t) /\ UNCHANGED native      \* the method returns False
    /\ UNCHANGED taken

StoreState(t) ==
    /\ call[t] \in {"reset", "resetState"} /\ at[t] = "store"
    /\ native' = Restarted(native, state[t])
    /\ taken' = [s \in Symbol |-> 0]
    /\ Return(t)

-----------------------------------------------------------------------------
(* next(), getCurrentSymbol() and getCurrentSymbolName() *)

Use(t, method) ==
    /\ method \in {"next", "getCurrentSymbol"}
    /\ native # Null
    /\ Begin(t, method, "lock")
    /\ UNCHANGED <<registry, object, frame>>

Advance(t) ==
    /\ Is(t, "next", "inside")
    /\ \E s \in native.left :
          pick' = [pick EXCEPT ![t] = s] /\ Goto(t, "store")
    /\ UNCHANGED <<registry, object, call, state>>

NoMore(t) ==
    /\ Is(t, "next", "inside")
    /\ native.left = {}
    /\ Return(t)
    /\ UNCHANGED <<native, taken>>

Advanced(t) ==
    /\ Is(t, "next", "store")
    /\ native' = [native EXCEPT !.left = @ \ {pick[t]}, !.current = pick[t]]
    /\ taken' = [taken EXCEPT ![pick[t]] = @ + 1]
    /\ Return(t)

Current(t) ==
    /\ Is(t, "getCurrentSymbol", "inside")
    /\ Return(t)
    /\ UNCHANGED <<native, taken>>

-----------------------------------------------------------------------------
Inside(t) ==
    \/ InLookup(t) /\ UNCHANGED <<object, call, at, frame>>
    \/ Supported(t) \/ Constructed(t) \/ Resolved(t) \/ CheckState(t) \/ StoreState(t)
    \/ Advance(t) \/ NoMore(t) \/ Advanced(t) \/ Current(t)

ModuleInit(t) ==
    /\ \/ \E n \in Name : Load(t, n)
       \/ Loaded(t)
    /\ UNCHANGED <<object, call, at, frame>>

Next ==
    \/ Destroy
    \/ \E t \in Thread :
        \/ ModuleInit(t) \/ Inside(t) \/ Lock(t)
        \/ \E n \in Name : isLanguageSupported(t, n)
        \/ \E i \in ScriptState : ResetState(t, i)
        \/ \E i \in ScriptState, n \in Name : Construct(t, n, i) \/ Reset(t, n, i)
        \/ \E method \in {"next", "getCurrentSymbol"} : Use(t, method)

Spec == Init /\ [][Next]_vars

-----------------------------------------------------------------------------
(* What must hold *)

\* A method finds the iterator as one reset left it: a state that the language
\* has, and the symbols of that state, whose names the language knows.
StateFitsLanguage ==
    \A t \in Thread : at[t] = "inside" =>
        /\ Fits(native.language, native.state)
        /\ native.left \subseteq Expected[native.language][native.state]
        /\ native.current \in SymbolsOf(native.language) \cup {Null}

\* Threads that share the iterator share the symbols: each expected symbol is
\* handed out by one call of next() since the last reset that was accepted,
\* and when no more are left all were.
EachSymbolOnce ==
    native # Null /\ mutex = {} =>
        \A s \in Symbol :
            taken[s] = IF s \in Expected[native.language][native.state] \ native.left
                       THEN 1 ELSE 0
=============================================================================
