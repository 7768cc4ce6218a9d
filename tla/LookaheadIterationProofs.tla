---------------------- MODULE LookaheadIterationProofs ----------------------
(***************************************************************************)
(* Proofs about LookaheadIteration and the registry under it, for all      *)
(* tables of names, languages, states and symbols and any number of        *)
(* threads.  Registered says that the table is filled by one call before   *)
(* the module is loaded, Calls which calls can be under way together,      *)
(* Positioned what the native iterator is between two resets.              *)
(***************************************************************************)
EXTENDS LookaheadIteration, TLAPS

Registered ==
    /\ module = "absent" => \A t \in Thread : In(t, "idle") /\ name[t] = Null
    /\ module = "loading" =>
          \A t, u \in Thread : ~In(t, "idle") /\ ~In(u, "idle") => t = u
    /\ initialized => languages = DOMAIN LanguageOf
    /\ module = "loaded" => initialized
    /\ module = "loading" /\ ~initialized =>
          \E t \in Thread : lookup[t] \in {"test", "fill"}
    /\ \A t \in Thread :
          /\ In(t, "fill") => module = "loading" /\ ~initialized
                              /\ languages \cup todo[t] = DOMAIN LanguageOf
          /\ In(t, "find") => initialized
          /\ In(t, "idle") /\ name[t] # Null =>
                found[t] = IF name[t] \in DOMAIN LanguageOf THEN LanguageOf[name[t]] ELSE Null

Resetting(t) == call[t] \in {"reset", "resetState"} /\ at[t] = "store"

Calls ==
    /\ module # "loaded" => native = Null /\ \A t \in Thread : at[t] = "idle"
    /\ \A t \in Thread :
          /\ at[t] = "idle" <=> call[t] = "none"
          /\ call[t] \in {"isLanguageSupported", "constructor"} => at[t] = "resolve"
          /\ call[t] \in {"reset", "resetState", "next", "getCurrentSymbol"} => native # Null
          /\ call[t] = "constructor" =>
                native = Null /\ \A u \in Thread :
                                    u # t => call[u] \in {"none", "isLanguageSupported"}
          /\ at[t] \in {"lock", "inside", "store"} => In(t, "idle")
          /\ at[t] = "idle" /\ module = "loaded" => In(t, "idle")
          /\ at[t] \in {"lock", "inside", "store"} /\ call[t] = "reset" => found[t] # Null
          /\ at[t] \in {"inside", "store"} => mutex = {t}
          /\ call[t] = "getCurrentSymbol" => at[t] # "store"

Positioned ==
    /\ native # Null /\ (\A t \in Thread : ~Resetting(t)) =>
          /\ Fits(native.language, native.state)
          /\ native.left \subseteq Expected[native.language][native.state]
          /\ native.current \in SymbolsOf(native.language) \cup {Null}
          /\ \A s \in Symbol :
                taken[s] = IF s \in Expected[native.language][native.state] \ native.left
                           THEN 1 ELSE 0
    /\ \A t \in Thread :
          /\ Resetting(t) => Fits(native.language, state[t])
          /\ call[t] = "next" /\ at[t] = "store" => pick[t] \in native.left

Inv == TypeOK /\ Registered /\ Calls /\ Positioned

-----------------------------------------------------------------------------
(* States, languages and the native iterator *)

\* The cast of any integer is a state of the width.
LEMMA ToStateIdType == \A i \in ScriptState : ToStateId(i) \in 0 .. Width - 1
<1> SUFFICES ASSUME NEW i \in ScriptState PROVE ToStateId(i) \in 0 .. Width - 1
  OBVIOUS
<1>1. i \in Int /\ Width \in Nat \ {0}
  BY States
<1>2. i % Width \in 0 .. Width - 1
  BY <1>1
<1> QED BY <1>2 DEF ToStateId

\* What the table knows is a language.
LEMMA NamesKnown ==
  /\ DOMAIN LanguageOf \subseteq Name
  /\ \A n \in DOMAIN LanguageOf : LanguageOf[n] \in Language /\ LanguageOf[n] # Null
  /\ Null \notin Language
BY Known, NoLanguage DEF Language

\* The fields of a native iterator, and what a reset makes of it.
LEMMA NativeTypes ==
  /\ Null \notin Native
  /\ \A n \in Native :
        /\ n # Null /\ n.language \in Language /\ n.state \in 0 .. Width - 1
        /\ n.left \in SUBSET Symbol /\ n.current \in Symbol \cup {Null}
  /\ \A n \in Native, l \in Language : [n EXCEPT !.language = l] \in Native
  /\ \A n \in Native, s \in 0 .. Width - 1 : Fits(n.language, s) =>
        /\ Expected[n.language][s] \subseteq Symbol
        /\ Restarted(n, s) \in Native
        /\ Restarted(n, s).language = n.language /\ Restarted(n, s).state = s
        /\ Restarted(n, s).left = Expected[n.language][s] /\ Restarted(n, s).current = Null
<1>1. \A n \in Native :
        /\ n.language \in Language /\ n.state \in 0 .. Width - 1
        /\ n.left \in SUBSET Symbol /\ n.current \in Symbol \cup {Null}
  BY DEF Native
<1>2. \A n \in Native, l \in Language : [n EXCEPT !.language = l] \in Native
  BY DEF Native
<1>3. ASSUME NEW n \in Native, NEW s \in 0 .. Width - 1, Fits(n.language, s)
      PROVE  /\ Expected[n.language][s] \subseteq Symbol
             /\ Restarted(n, s) \in Native
             /\ Restarted(n, s).language = n.language /\ Restarted(n, s).state = s
             /\ Restarted(n, s).left = Expected[n.language][s] /\ Restarted(n, s).current = Null
  <2>1. n.language \in Language /\ StateCount[n.language] \in 1 .. Width /\ Width \in Nat
    BY <1>1, States
  <2>2. s \in 0 .. StateCount[n.language] - 1
    BY <1>3, <2>1 DEF Fits
  <2>3. s \in DOMAIN Expected[n.language]
    BY <2>1, <2>2, States
  <2>4. Expected[n.language][s] \subseteq Symbol
    BY <2>1, <2>3 DEF Symbol, SymbolsOf
  <2> QED BY <2>4 DEF Restarted, Native
<1> QED BY <1>1, <1>2, <1>3, NullIsNoIterator

\* A call returns: its frame is cleared and the mutex released.
LEMMA ReturnTypes ==
  ASSUME TypeOK, NEW t \in Thread, Return(t),
         native' \in Native \cup {Null}, taken' \in [Symbol -> Nat]
  PROVE  TypeOK'
<1>1. Width \in Nat /\ 0 \in 0 .. Width - 1
  BY States
<1>2. /\ call' \in [Thread -> {"none", "isLanguageSupported", "constructor",
                               "reset", "resetState", "next", "getCurrentSymbol"}]
      /\ at' \in [Thread -> {"idle", "resolve", "lock", "inside", "store"}]
      /\ mutex' \subseteq Thread
  BY DEF TypeOK, Return, Goto
<1>3. state' \in [Thread -> 0 .. Width - 1]
  BY <1>1 DEF TypeOK, Return
<1>4. pick' \in [Thread -> Symbol \cup {Null}]
  BY DEF TypeOK, Return
<1>5. RegistryTypeOK'
  BY DEF TypeOK, RegistryTypeOK, Return, Forget, table
<1> QED BY <1>2, <1>3, <1>4, <1>5 DEF TypeOK

\* A return leaves the table alone.
LEMMA ReturnRegistered ==
  ASSUME TypeOK, Registered, NEW t \in Thread, Return(t)
  PROVE  Registered'
<1>1. /\ UNCHANGED <<module, initialized, languages, lookup, todo>>
      /\ name \in [Thread -> Name \cup {Null}] /\ found \in [Thread -> Language \cup {Null}]
      /\ name' = [name EXCEPT ![t] = Null] /\ found' = [found EXCEPT ![t] = Null]
  BY DEF TypeOK, RegistryTypeOK, Return, Forget, table
<1> QED BY <1>1 DEF Registered, In

\* The other calls go on when one returns.
LEMMA ReturnCalls ==
  ASSUME TypeOK, Calls, NEW t \in Thread, Return(t), In(t, "idle"), native' = Null <=> native = Null
  PROVE  Calls'
<1>1. /\ UNCHANGED <<module, lookup>> /\ mutex' = mutex \ {t}
      /\ at'[t] = "idle" /\ call'[t] = "none"
      /\ \A u \in Thread : u # t => at'[u] = at[u] /\ call'[u] = call[u] /\ found'[u] = found[u]
  BY DEF TypeOK, RegistryTypeOK, Return, Forget, Goto
<1> QED BY <1>1 DEF Calls, In

\* Only one call is in the middle of storing something.
LEMMA OneInside ==
  ASSUME TypeOK, Calls, NEW t \in Thread, at[t] \in {"inside", "store"}
  PROVE  /\ native # Null
         /\ \A u \in Thread : u # t => at[u] \notin {"inside", "store"} /\ ~Resetting(u)
<1>1. call[t] \in {"reset", "resetState", "next", "getCurrentSymbol"} /\ mutex = {t}
  BY DEF TypeOK, Calls
<1> QED BY <1>1 DEF Calls, Resetting

-----------------------------------------------------------------------------
(* The steps *)

\* module_init() asks for a language before there are classes.
LEMMA LoadStep ==
  ASSUME Inv, NEW t \in Thread, NEW n \in Name, Load(t, n), UNCHANGED <<object, call, at, frame>>
  PROVE  Inv'
<1> USE DEF Load, Ask, registry, table, request, object, frame, In
<1>1. RegistryTypeOK'
  BY ToStateIdType, NamesKnown DEF Inv, TypeOK, RegistryTypeOK
<1>2. TypeOK'
  BY <1>1, NativeTypes, ToStateIdType DEF Inv, TypeOK, RegistryTypeOK, Registered, Calls
<1>3. Registered'
  BY NamesKnown DEF Inv, Registered, TypeOK, RegistryTypeOK
<1>4. Calls'
  BY NativeTypes DEF Inv, Calls, Registered, TypeOK, RegistryTypeOK
<1>5. Positioned'
  BY NativeTypes DEF Inv, Positioned, Resetting, Calls, TypeOK, RegistryTypeOK
<1> QED BY <1>2, <1>3, <1>4, <1>5 DEF Inv

\* The call of module_init() has returned: the table is filled.
LEMMA LoadedStep ==
  ASSUME Inv, NEW t \in Thread, Loaded(t), UNCHANGED <<object, call, at, frame>>
  PROVE  Inv'
<1> USE DEF Loaded, registry, table, request, object, frame, In
<1>1. RegistryTypeOK'
  BY ToStateIdType, NamesKnown DEF Inv, TypeOK, RegistryTypeOK
<1>2. TypeOK'
  BY <1>1, NativeTypes, ToStateIdType DEF Inv, TypeOK, RegistryTypeOK, Registered, Calls
<1>3. Registered'
  BY NamesKnown DEF Inv, Registered, TypeOK, RegistryTypeOK
<1>4. Calls'
  BY NativeTypes DEF Inv, Calls, Registered, TypeOK, RegistryTypeOK
<1>5. Positioned'
  BY NativeTypes DEF Inv, Positioned, Resetting, Calls, TypeOK, RegistryTypeOK
<1> QED BY <1>2, <1>3, <1>4, <1>5 DEF Inv

\* Only the first call finds the flag unset.
LEMMA TestFlagStep ==
  ASSUME Inv, NEW t \in Thread, TestFlag(t), UNCHANGED <<object, call, at, frame>>
  PROVE  Inv'
<1> USE DEF TestFlag, registry, table, request, object, frame, In
<1>1. RegistryTypeOK'
  BY ToStateIdType, NamesKnown DEF Inv, TypeOK, RegistryTypeOK
<1>2. TypeOK'
  BY <1>1, NativeTypes, ToStateIdType DEF Inv, TypeOK, RegistryTypeOK, Registered, Calls
<1>3. Registered'
  BY NamesKnown DEF Inv, Registered, TypeOK, RegistryTypeOK
<1>4. Calls'
  BY NativeTypes DEF Inv, Calls, Registered, TypeOK, RegistryTypeOK
<1>5. Positioned'
  BY NativeTypes DEF Inv, Positioned, Resetting, Calls, TypeOK, RegistryTypeOK
<1> QED BY <1>2, <1>3, <1>4, <1>5 DEF Inv

\* The table is filled by one call.
LEMMA EnterStep ==
  ASSUME Inv, NEW t \in Thread, Enter(t), UNCHANGED <<object, call, at, frame>>
  PROVE  Inv'
<1> USE DEF Enter, registry, table, request, object, frame, In
<1>1. RegistryTypeOK'
  BY ToStateIdType, NamesKnown DEF Inv, TypeOK, RegistryTypeOK
<1>2. TypeOK'
  BY <1>1, NativeTypes, ToStateIdType DEF Inv, TypeOK, RegistryTypeOK, Registered, Calls
<1>3. Registered'
  <2>1. PICK n \in todo[t] : /\ languages' = languages \cup {n}
                            /\ todo' = [todo EXCEPT ![t] = todo[t] \ {n}]
    OBVIOUS
  <2>2. /\ module = "loading" /\ ~initialized
        /\ \A u \in Thread : u # t => lookup[u] = "idle"
        /\ languages' \cup todo'[t] = DOMAIN LanguageOf
    <3>1. todo \in [Thread -> SUBSET DOMAIN LanguageOf]
      BY DEF Inv, TypeOK, RegistryTypeOK
    <3>2. todo'[t] = todo[t] \ {n} /\ languages' = languages \cup {n}
      BY <2>1, <3>1
    <3>3. /\ module = "loading" /\ ~initialized /\ languages \cup todo[t] = DOMAIN LanguageOf
          /\ \A u \in Thread : u # t => lookup[u] = "idle"
      BY DEF Inv, Registered
    <3> QED BY <3>2, <3>3
  <2> QED BY <2>1, <2>2 DEF Inv, Registered
<1>4. Calls'
  BY NativeTypes DEF Inv, Calls, Registered, TypeOK, RegistryTypeOK
<1>5. Positioned'
  BY NativeTypes DEF Inv, Positioned, Resetting, Calls, TypeOK, RegistryTypeOK
<1> QED BY <1>2, <1>3, <1>4, <1>5 DEF Inv

\* The flag is set when every name is entered.
LEMMA SetFlagStep ==
  ASSUME Inv, NEW t \in Thread, SetFlag(t), UNCHANGED <<object, call, at, frame>>
  PROVE  Inv'
<1> USE DEF SetFlag, registry, table, request, object, frame, In
<1>1. RegistryTypeOK'
  BY ToStateIdType, NamesKnown DEF Inv, TypeOK, RegistryTypeOK
<1>2. TypeOK'
  BY <1>1, NativeTypes, ToStateIdType DEF Inv, TypeOK, RegistryTypeOK, Registered, Calls
<1>3. Registered'
  BY NamesKnown DEF Inv, Registered, TypeOK, RegistryTypeOK
<1>4. Calls'
  BY NativeTypes DEF Inv, Calls, Registered, TypeOK, RegistryTypeOK
<1>5. Positioned'
  BY NativeTypes DEF Inv, Positioned, Resetting, Calls, TypeOK, RegistryTypeOK
<1> QED BY <1>2, <1>3, <1>4, <1>5 DEF Inv

\* The table has every name when it is searched.
LEMMA FindStep ==
  ASSUME Inv, NEW t \in Thread, Find(t), UNCHANGED <<object, call, at, frame>>
  PROVE  Inv'
<1> USE DEF Find, registry, table, request, object, frame, In
<1>1. RegistryTypeOK'
  BY ToStateIdType, NamesKnown DEF Inv, TypeOK, RegistryTypeOK
<1>2. TypeOK'
  BY <1>1, NativeTypes, ToStateIdType DEF Inv, TypeOK, RegistryTypeOK, Registered, Calls
<1>3. Registered'
  BY NamesKnown DEF Inv, Registered, TypeOK, RegistryTypeOK
<1>4. Calls'
  BY NativeTypes DEF Inv, Calls, Registered, TypeOK, RegistryTypeOK
<1>5. Positioned'
  BY NativeTypes DEF Inv, Positioned, Resetting, Calls, TypeOK, RegistryTypeOK
<1> QED BY <1>2, <1>3, <1>4, <1>5 DEF Inv

\* isLanguageSupported() is called.
LEMMA SupportedCallStep ==
  ASSUME Inv, NEW t \in Thread, NEW n \in Name, isLanguageSupported(t, n)
  PROVE  Inv'
<1> USE DEF isLanguageSupported, Begin, Goto, getLanguage, Ask, registry, table, request, object, frame, In
<1>1. RegistryTypeOK'
  BY ToStateIdType, NamesKnown DEF Inv, TypeOK, RegistryTypeOK
<1>2. TypeOK'
  BY <1>1, NativeTypes, ToStateIdType DEF Inv, TypeOK, RegistryTypeOK, Registered, Calls
<1>3. Registered'
  BY NamesKnown DEF Inv, Registered, TypeOK, RegistryTypeOK
<1>4. Calls'
  BY NativeTypes DEF Inv, Calls, Registered, TypeOK, RegistryTypeOK
<1>5. Positioned'
  BY NativeTypes DEF Inv, Positioned, Resetting, Calls, TypeOK, RegistryTypeOK
<1> QED BY <1>2, <1>3, <1>4, <1>5 DEF Inv

\* isLanguageSupported() returns.
LEMMA SupportedStep ==
  ASSUME Inv, NEW t \in Thread, Supported(t)
  PROVE  Inv'
<1> USE DEF Supported, Is, Return, Goto, Forget, registry, table, request, object, frame, In
<1>1. RegistryTypeOK'
  BY ToStateIdType, NamesKnown DEF Inv, TypeOK, RegistryTypeOK
<1>2. TypeOK'
  BY NativeTypes, ReturnTypes DEF Inv, TypeOK, Calls
<1>3. Registered'
  BY ReturnRegistered DEF Inv
<1>4. Calls'
  BY NativeTypes DEF Inv, Calls, Registered, TypeOK, RegistryTypeOK
<1>5. Positioned'
  BY NativeTypes DEF Inv, Positioned, Resetting, Calls, TypeOK, RegistryTypeOK
<1> QED BY <1>2, <1>3, <1>4, <1>5 DEF Inv

\* A constructor runs before anyone has the object.
LEMMA ConstructStep ==
  ASSUME Inv, NEW t \in Thread, NEW n \in Name, NEW i \in ScriptState, Construct(t, n, i)
  PROVE  Inv'
<1> USE DEF Construct, Unused, Begin, Goto, getLanguage, Ask, registry, table, request, object, frame, In
<1>1. RegistryTypeOK'
  BY ToStateIdType, NamesKnown DEF Inv, TypeOK, RegistryTypeOK
<1>2. TypeOK'
  BY <1>1, NativeTypes, ToStateIdType DEF Inv, TypeOK, RegistryTypeOK, Registered, Calls
<1>3. Registered'
  BY NamesKnown DEF Inv, Registered, TypeOK, RegistryTypeOK
<1>4. Calls'
  BY NativeTypes DEF Inv, Calls, Registered, TypeOK, RegistryTypeOK
<1>5. Positioned'
  BY NativeTypes DEF Inv, Positioned, Resetting, Calls, TypeOK, RegistryTypeOK
<1> QED BY <1>2, <1>3, <1>4, <1>5 DEF Inv

\* A state that the language has, or no object.
LEMMA ConstructedStep ==
  ASSUME Inv, NEW t \in Thread, Constructed(t)
  PROVE  Inv'
<1>1. /\ call[t] = "constructor" /\ native = Null /\ In(t, "idle") /\ Return(t)
      /\ \A u \in Thread : u # t => call[u] \in {"none", "isLanguageSupported"}
      /\ taken' = [s \in Symbol |-> 0]
  BY DEF Constructed, Is, Inv, Calls
<1>2. found[t] \in Language \cup {Null} /\ state[t] \in 0 .. Width - 1
  BY DEF Inv, TypeOK, RegistryTypeOK
<1>3. ASSUME found[t] # Null, Fits(found[t], state[t])
      PROVE  /\ native' \in Native /\ Fits(native'.language, native'.state)
             /\ native'.left = Expected[native'.language][native'.state]
             /\ native'.current = Null
  <2> DEFINE r == [language |-> found[t], state |-> 0, left |-> {}, current |-> Null]
  <2>1. r \in Native /\ r.language = found[t]
    <3>1. 0 \in 0 .. Width - 1
      BY States
    <3> QED BY <1>2, <1>3, <3>1 DEF Native
  <2>2. native' = Restarted(r, state[t])
    BY <1>3 DEF Constructed
  <2> HIDE DEF r
  <2> QED BY <1>2, <1>3, <2>1, <2>2, NativeTypes
<1>4. ~(found[t] # Null /\ Fits(found[t], state[t])) => native' = Null
  BY DEF Constructed
<1>5. TypeOK'
  <2>1. native' \in Native \cup {Null} /\ taken' \in [Symbol -> Nat]
    BY <1>1, <1>3, <1>4
  <2> QED BY <1>1, <2>1, ReturnTypes DEF Inv
<1>6. Registered'
  BY <1>1, ReturnRegistered DEF Inv
<1>7. /\ UNCHANGED <<module, lookup>> /\ mutex' = mutex \ {t} /\ module = "loaded"
      /\ at'[t] = "idle" /\ call'[t] = "none"
      /\ \A u \in Thread : u # t => /\ at'[u] = at[u] /\ call'[u] = call[u]
                                    /\ found'[u] = found[u] /\ at[u] \in {"idle", "resolve"}
                                    /\ pick'[u] = pick[u]
  <2>1. module = "loaded" /\ \A u \in Thread : u # t => at[u] \in {"idle", "resolve"}
    BY <1>1 DEF Inv, Calls
  <2> QED BY <1>1, <2>1 DEF Inv, TypeOK, RegistryTypeOK, Return, Forget, Goto
<1>8. Calls'
  BY <1>1, <1>7 DEF Inv, Calls, In
<1>9. Positioned'
  <2>1. \A u \in Thread : at'[u] # "store"
    BY <1>7
  <2>2. native' # Null => /\ Fits(native'.language, native'.state)
                          /\ native'.left = Expected[native'.language][native'.state]
                          /\ native'.current = Null
    BY <1>3, <1>4
  <2> QED BY <1>1, <2>1, <2>2 DEF Positioned, Resetting
<1> QED BY <1>5, <1>6, <1>8, <1>9 DEF Inv

\* The object goes when no method of it runs.
LEMMA DestroyStep ==
  ASSUME Inv, Destroy
  PROVE  Inv'
<1> USE DEF Destroy, Unused, registry, table, request, object, frame, In
<1>1. RegistryTypeOK'
  BY ToStateIdType, NamesKnown DEF Inv, TypeOK, RegistryTypeOK
<1>2. TypeOK'
  BY <1>1, NativeTypes, ToStateIdType DEF Inv, TypeOK, RegistryTypeOK, Registered, Calls
<1>3. Registered'
  BY NamesKnown DEF Inv, Registered, TypeOK, RegistryTypeOK
<1>4. Calls'
  BY NativeTypes DEF Inv, Calls, Registered, TypeOK, RegistryTypeOK
<1>5. Positioned'
  BY NativeTypes DEF Inv, Positioned, Resetting, Calls, TypeOK, RegistryTypeOK
<1> QED BY <1>2, <1>3, <1>4, <1>5 DEF Inv

\* reset() looks for its language before it takes the mutex.
LEMMA ResetCallStep ==
  ASSUME Inv, NEW t \in Thread, NEW n \in Name, NEW i \in ScriptState, Reset(t, n, i)
  PROVE  Inv'
<1> USE DEF Reset, Begin, Goto, getLanguage, Ask, registry, table, request, object, frame, In
<1>1. RegistryTypeOK'
  BY ToStateIdType, NamesKnown DEF Inv, TypeOK, RegistryTypeOK
<1>2. TypeOK'
  BY <1>1, NativeTypes, ToStateIdType DEF Inv, TypeOK, RegistryTypeOK, Registered, Calls
<1>3. Registered'
  BY NamesKnown DEF Inv, Registered, TypeOK, RegistryTypeOK
<1>4. Calls'
  BY NativeTypes DEF Inv, Calls, Registered, TypeOK, RegistryTypeOK
<1>5. Positioned'
  BY NativeTypes DEF Inv, Positioned, Resetting, Calls, TypeOK, RegistryTypeOK
<1> QED BY <1>2, <1>3, <1>4, <1>5 DEF Inv

\* reset() has its language, or is over.
LEMMA ResolvedStep ==
  ASSUME Inv, NEW t \in Thread, Resolved(t)
  PROVE  Inv'
<1>1. /\ call[t] = "reset" /\ at[t] = "resolve" /\ In(t, "idle") /\ native # Null
      /\ UNCHANGED <<native, taken>>
  BY DEF Resolved, Is, Inv, Calls
<1>2. CASE found[t] = Null
  <2>1. Return(t)
    BY <1>2 DEF Resolved
  <2>2. TypeOK' /\ Registered' /\ Calls'
    BY <1>1, <2>1, ReturnTypes, ReturnRegistered, ReturnCalls DEF Inv, TypeOK
  <2>3. Positioned'
    BY <1>1, <2>1 DEF Inv, Positioned, Resetting, TypeOK, RegistryTypeOK, Return, Goto
  <2> QED BY <2>2, <2>3 DEF Inv
<1>3. CASE found[t] # Null
  <2>1. at' = [at EXCEPT ![t] = "lock"]
        /\ UNCHANGED <<registry, native, taken, mutex, call, state, pick>>
    BY <1>1, <1>3 DEF Resolved, Goto, frame
  <2>2. UNCHANGED <<module, initialized, languages, lookup, todo, name, found>>
    BY <2>1 DEF registry, table, request
  <2>3. TypeOK'
    BY <2>1, <2>2 DEF Inv, TypeOK, RegistryTypeOK
  <2>4. Registered'
    BY <2>2 DEF Inv, Registered, In
  <2>5. Calls'
    BY <1>1, <1>3, <2>1, <2>2 DEF Inv, Calls, TypeOK, In
  <2>6. Positioned'
    BY <1>1, <2>1 DEF Inv, Positioned, Resetting, TypeOK
  <2> QED BY <2>3, <2>4, <2>5, <2>6 DEF Inv
<1> QED BY <1>2, <1>3

\* resetState() is called.
LEMMA ResetStateStep ==
  ASSUME Inv, NEW t \in Thread, NEW i \in ScriptState, ResetState(t, i)
  PROVE  Inv'
<1> USE DEF ResetState, Begin, Goto, registry, table, request, object, frame, In
<1>1. RegistryTypeOK'
  BY ToStateIdType, NamesKnown DEF Inv, TypeOK, RegistryTypeOK
<1>2. TypeOK'
  BY <1>1, NativeTypes, ToStateIdType DEF Inv, TypeOK, RegistryTypeOK, Registered, Calls
<1>3. Registered'
  BY NamesKnown DEF Inv, Registered, TypeOK, RegistryTypeOK
<1>4. Calls'
  BY NativeTypes DEF Inv, Calls, Registered, TypeOK, RegistryTypeOK
<1>5. Positioned'
  BY NativeTypes DEF Inv, Positioned, Resetting, Calls, TypeOK, RegistryTypeOK
<1> QED BY <1>2, <1>3, <1>4, <1>5 DEF Inv

\* One call at a time gets inside.
LEMMA LockStep ==
  ASSUME Inv, NEW t \in Thread, Lock(t)
  PROVE  Inv'
<1> USE DEF Lock, Goto, registry, table, request, object, frame, In
<1>1. RegistryTypeOK'
  BY ToStateIdType, NamesKnown DEF Inv, TypeOK, RegistryTypeOK
<1>2. TypeOK'
  BY <1>1, NativeTypes, ToStateIdType DEF Inv, TypeOK, RegistryTypeOK, Registered, Calls
<1>3. Registered'
  BY NamesKnown DEF Inv, Registered, TypeOK, RegistryTypeOK
<1>4. Calls'
  BY NativeTypes DEF Inv, Calls, Registered, TypeOK, RegistryTypeOK
<1>5. Positioned'
  BY NativeTypes DEF Inv, Positioned, Resetting, Calls, TypeOK, RegistryTypeOK
<1> QED BY <1>2, <1>3, <1>4, <1>5 DEF Inv

\* A state is looked at before anything is changed.
LEMMA CheckStateStep ==
  ASSUME Inv, NEW t \in Thread, CheckState(t)
  PROVE  Inv'
<1>1. /\ call[t] \in {"reset", "resetState"} /\ at[t] = "inside" /\ In(t, "idle")
      /\ native # Null /\ native \in Native /\ taken' = taken
      /\ \A u \in Thread : u # t => at[u] \notin {"inside", "store"} /\ ~Resetting(u)
  BY OneInside DEF CheckState, Inv, Calls, TypeOK
<1>2. CASE ~Fits(NewLanguage(t), state[t])
  <2>1. Return(t) /\ native' = native
    BY <1>2 DEF CheckState
  <2>2. TypeOK' /\ Registered' /\ Calls'
    BY <1>1, <2>1, ReturnTypes, ReturnRegistered, ReturnCalls DEF Inv, TypeOK
  <2>3. \A u \in Thread : ~Resetting(u) /\ ~Resetting(u)' /\ at'[u] # "store"
    BY <1>1, <2>1 DEF Inv, TypeOK, Resetting, Return, Goto
  <2>4. Positioned'
    BY <1>1, <2>1, <2>3 DEF Inv, Positioned
  <2> QED BY <2>2, <2>4 DEF Inv
<1>3. CASE Fits(NewLanguage(t), state[t])
  <2>1. /\ native' = [native EXCEPT !.language = NewLanguage(t)]
        /\ at' = [at EXCEPT ![t] = "store"]
        /\ UNCHANGED <<registry, taken, mutex, call, state, pick>>
    BY <1>1, <1>3 DEF CheckState, Goto, frame
  <2>2. UNCHANGED <<module, initialized, languages, lookup, todo, name, found>>
    BY <2>1 DEF registry, table, request
  <2>3. NewLanguage(t) \in Language
    BY <1>1, NativeTypes DEF NewLanguage, Inv, Calls, TypeOK, RegistryTypeOK
  <2>4. native' \in Native /\ native' # Null /\ native'.language = NewLanguage(t)
    BY <1>1, <2>1, <2>3, NativeTypes DEF Native
  <2>5. TypeOK'
    BY <2>1, <2>2, <2>4 DEF Inv, TypeOK, RegistryTypeOK
  <2>6. Registered'
    BY <2>2 DEF Inv, Registered, In
  <2>7. Calls'
    BY <1>1, <2>1, <2>2, <2>4 DEF Inv, Calls, TypeOK, In
  <2>8. Positioned'
    <3>1. at \in [Thread -> {"idle", "resolve", "lock", "inside", "store"}]
      BY DEF Inv, TypeOK
    <3>2. at'[t] = "store" /\ \A u \in Thread : u # t => at'[u] # "store"
      BY <1>1, <2>1, <3>1
    <3>3. Resetting(t)' /\ \A u \in Thread : u # t => ~Resetting(u)'
      BY <1>1, <2>1, <3>2 DEF Resetting
    <3> QED BY <1>1, <1>3, <2>1, <2>4, <3>2, <3>3 DEF Positioned
  <2> QED BY <2>5, <2>6, <2>7, <2>8 DEF Inv
<1> QED BY <1>2, <1>3

\* The iterator begins anew, in a state of its language.
LEMMA StoreStateStep ==
  ASSUME Inv, NEW t \in Thread, StoreState(t)
  PROVE  Inv'
<1>1. /\ Resetting(t) /\ at[t] = "store" /\ In(t, "idle") /\ Return(t)
      /\ native # Null /\ native \in Native /\ state[t] \in 0 .. Width - 1
      /\ native' = Restarted(native, state[t]) /\ taken' = [s \in Symbol |-> 0]
      /\ \A u \in Thread : u # t => at[u] \notin {"inside", "store"} /\ ~Resetting(u)
  BY OneInside DEF StoreState, Resetting, Inv, Calls, TypeOK
<1>2. Fits(native.language, state[t])
  BY <1>1 DEF Inv, Positioned
<1>3. /\ native' \in Native /\ native' # Null /\ Fits(native'.language, native'.state)
      /\ native'.left = Expected[native'.language][native'.state] /\ native'.current = Null
  BY <1>1, <1>2, NativeTypes
<1>4. TypeOK' /\ Registered' /\ Calls'
  BY <1>1, <1>3, ReturnTypes, ReturnRegistered, ReturnCalls DEF Inv
<1>5. \A u \in Thread : ~Resetting(u)' /\ at'[u] # "store"
  BY <1>1 DEF Inv, TypeOK, Resetting, Return, Goto
<1>6. Positioned'
  BY <1>1, <1>3, <1>5 DEF Positioned
<1> QED BY <1>4, <1>6 DEF Inv

\* next() or getCurrentSymbol() is called.
LEMMA UseStep ==
  ASSUME Inv, NEW t \in Thread, NEW method, Use(t, method)
  PROVE  Inv'
<1> USE DEF Use, Begin, Goto, registry, table, request, object, frame, In
<1>1. RegistryTypeOK'
  BY ToStateIdType, NamesKnown DEF Inv, TypeOK, RegistryTypeOK
<1>2. TypeOK'
  BY <1>1, NativeTypes, ToStateIdType DEF Inv, TypeOK, RegistryTypeOK, Registered, Calls
<1>3. Registered'
  BY NamesKnown DEF Inv, Registered, TypeOK, RegistryTypeOK
<1>4. Calls'
  BY NativeTypes DEF Inv, Calls, Registered, TypeOK, RegistryTypeOK
<1>5. Positioned'
  BY NativeTypes DEF Inv, Positioned, Resetting, Calls, TypeOK, RegistryTypeOK
<1> QED BY <1>2, <1>3, <1>4, <1>5 DEF Inv

\* next() finds a symbol that is left.
LEMMA AdvanceStep ==
  ASSUME Inv, NEW t \in Thread, Advance(t)
  PROVE  Inv'
<1> USE DEF Advance, Is, Goto, registry, table, request, object, frame, In
<1>1. RegistryTypeOK'
  BY ToStateIdType, NamesKnown DEF Inv, TypeOK, RegistryTypeOK
<1>2. TypeOK'
  BY <1>1, NativeTypes, ToStateIdType DEF Inv, TypeOK, RegistryTypeOK, Registered, Calls
<1>3. Registered'
  BY NamesKnown DEF Inv, Registered, TypeOK, RegistryTypeOK
<1>4. Calls'
  BY NativeTypes DEF Inv, Calls, Registered, TypeOK, RegistryTypeOK
<1>5. Positioned'
  BY NativeTypes DEF Inv, Positioned, Resetting, Calls, TypeOK, RegistryTypeOK
<1> QED BY <1>2, <1>3, <1>4, <1>5 DEF Inv

\* next() finds no symbol.
LEMMA NoMoreStep ==
  ASSUME Inv, NEW t \in Thread, NoMore(t)
  PROVE  Inv'
<1> USE DEF NoMore, Is, Return, Goto, Forget, registry, table, request, object, frame, In
<1>1. RegistryTypeOK'
  BY ToStateIdType, NamesKnown DEF Inv, TypeOK, RegistryTypeOK
<1>2. TypeOK'
  BY NativeTypes, ReturnTypes DEF Inv, TypeOK, Calls
<1>3. Registered'
  BY ReturnRegistered DEF Inv
<1>4. Calls'
  BY NativeTypes DEF Inv, Calls, Registered, TypeOK, RegistryTypeOK
<1>5. Positioned'
  BY NativeTypes DEF Inv, Positioned, Resetting, Calls, TypeOK, RegistryTypeOK
<1> QED BY <1>2, <1>3, <1>4, <1>5 DEF Inv

\* next() moves to the symbol it found: no call was between.
LEMMA AdvancedStep ==
  ASSUME Inv, NEW t \in Thread, Advanced(t)
  PROVE  Inv'
<1>1. /\ call[t] = "next" /\ at[t] = "store" /\ In(t, "idle") /\ Return(t)
      /\ native # Null /\ native \in Native /\ taken \in [Symbol -> Nat]
      /\ native' = [native EXCEPT !.left = @ \ {pick[t]}, !.current = pick[t]]
      /\ taken' = [taken EXCEPT ![pick[t]] = @ + 1]
      /\ pick[t] \in native.left
      /\ \A u \in Thread : u # t => at[u] \notin {"inside", "store"} /\ ~Resetting(u)
  BY OneInside DEF Advanced, Is, Inv, Calls, TypeOK, Positioned
<1>2. pick[t] \in Symbol
  BY <1>1, NativeTypes
<1>3. /\ native' \in Native /\ native' # Null
      /\ native'.language = native.language /\ native'.state = native.state
      /\ native'.left = native.left \ {pick[t]} /\ native'.current = pick[t]
  <2>1. native' \in Native
    BY <1>1, <1>2 DEF Native
  <2> QED BY <1>1, <2>1, NativeTypes DEF Native
<1>4. TypeOK' /\ Registered' /\ Calls'
  <2>1. taken' \in [Symbol -> Nat]
    BY <1>1, <1>2
  <2> QED BY <1>1, <1>3, <2>1, ReturnTypes, ReturnRegistered, ReturnCalls DEF Inv
<1>5. \A u \in Thread : ~Resetting(u) /\ ~Resetting(u)' /\ at'[u] # "store"
  BY <1>1 DEF Inv, TypeOK, Resetting, Return, Goto
<1>6. /\ Fits(native.language, native.state)
      /\ native.left \subseteq Expected[native.language][native.state]
      /\ \A s \in Symbol :
            taken[s] = IF s \in Expected[native.language][native.state] \ native.left
                       THEN 1 ELSE 0
  BY <1>1, <1>5 DEF Inv, Positioned
<1>7. pick[t] \in SymbolsOf(native.language)
  <2>1. native.language \in Language /\ native.state \in DOMAIN Expected[native.language]
    <3>1. /\ native.language \in Language /\ native.state \in 0 .. Width - 1
          /\ StateCount[native.language] \in 1 .. Width /\ Width \in Nat
      BY <1>1, NativeTypes, States
    <3> QED BY <1>6, <3>1, States DEF Fits
  <2> QED BY <1>1, <1>6, <2>1 DEF SymbolsOf
<1>8. \A s \in Symbol :
         taken'[s] = IF s \in Expected[native.language][native.state] \ native'.left
                     THEN 1 ELSE 0
  BY <1>1, <1>2, <1>3, <1>6
<1>9. Positioned'
  BY <1>3, <1>5, <1>6, <1>7, <1>8 DEF Positioned
<1> QED BY <1>4, <1>9 DEF Inv

\* getCurrentSymbol() changes nothing.
LEMMA CurrentStep ==
  ASSUME Inv, NEW t \in Thread, Current(t)
  PROVE  Inv'
<1> USE DEF Current, Is, Return, Goto, Forget, registry, table, request, object, frame, In
<1>1. RegistryTypeOK'
  BY ToStateIdType, NamesKnown DEF Inv, TypeOK, RegistryTypeOK
<1>2. TypeOK'
  BY NativeTypes, ReturnTypes DEF Inv, TypeOK, Calls
<1>3. Registered'
  BY ReturnRegistered DEF Inv
<1>4. Calls'
  BY NativeTypes DEF Inv, Calls, Registered, TypeOK, RegistryTypeOK
<1>5. Positioned'
  BY NativeTypes DEF Inv, Positioned, Resetting, Calls, TypeOK, RegistryTypeOK
<1> QED BY <1>2, <1>3, <1>4, <1>5 DEF Inv

-----------------------------------------------------------------------------
(* The invariant and what follows from it *)

\* Nothing is loaded at first.
LEMMA InitInv == Init => Inv
<1> SUFFICES ASSUME Init PROVE Inv
  OBVIOUS
<1>1. 0 \in 0 .. Width - 1
  BY States
<1>2. TypeOK
  BY <1>1 DEF Init, RegistryInit, TypeOK, RegistryTypeOK
<1>3. Registered /\ Calls /\ Positioned
  BY DEF Init, RegistryInit, Registered, Calls, Positioned, Resetting, In
<1> QED BY <1>2, <1>3 DEF Inv

\* Every step keeps the invariant.
LEMMA NextInv == Inv /\ [Next]_vars => Inv'
<1> SUFFICES ASSUME Inv, [Next]_vars PROVE Inv'
  OBVIOUS
<1>1. CASE Destroy
  BY <1>1, DestroyStep
<1>2. ASSUME NEW t \in Thread, ModuleInit(t)
      PROVE  Inv'
  BY <1>2, LoadStep, LoadedStep DEF ModuleInit
<1>3. ASSUME NEW t \in Thread, InLookup(t), UNCHANGED <<object, call, at, frame>>
      PROVE  Inv'
  BY <1>3, TestFlagStep, EnterStep, SetFlagStep, FindStep DEF InLookup
<1>4. ASSUME NEW t \in Thread, Inside(t)
      PROVE  Inv'
  BY <1>3, <1>4, SupportedStep, ConstructedStep, ResolvedStep, CheckStateStep, StoreStateStep,
     AdvanceStep, NoMoreStep, AdvancedStep, CurrentStep DEF Inside
<1>5. ASSUME NEW t \in Thread,
             \/ Lock(t)
             \/ \E n \in Name : isLanguageSupported(t, n)
             \/ \E i \in ScriptState : ResetState(t, i)
             \/ \E i \in ScriptState, n \in Name : Construct(t, n, i) \/ Reset(t, n, i)
             \/ \E method \in {"next", "getCurrentSymbol"} : Use(t, method)
      PROVE  Inv'
  BY <1>5, LockStep, SupportedCallStep, ResetStateStep, ConstructStep, ResetCallStep, UseStep
<1>6. CASE UNCHANGED vars
  <2>1. UNCHANGED <<module, initialized, languages, lookup, todo, name, found,
                    native, taken, mutex, call, at, state, pick>>
    BY <1>6 DEF vars, registry, table, request, object, frame
  <2> QED BY <2>1 DEF Inv, TypeOK, RegistryTypeOK, Registered, Calls, Positioned, Resetting, In
<1> QED BY <1>1, <1>2, <1>4, <1>5, <1>6 DEF Next

\* Inv is an invariant of the specification; the theorems below follow from it.
THEOREM Invariant == Spec => []Inv
  BY InitInv, NextInv, PTL DEF Spec

\* The registry and the iterator keep their types; in particular every integer
\* that a script gives as a state is used as one of Width states.
THEOREM TypesOK == Spec => []TypeOK
<1>1. Inv => TypeOK
  BY DEF Inv
<1> QED BY Invariant, <1>1, PTL

\* The table of languages, which nothing protects, is filled by one call while
\* no other is under way, because module_init() makes the first.
THEOREM TableFilledAlone == Spec => []TableNotShared
<1>1. Inv => TableNotShared
  BY DEF Inv, Registered, TableNotShared, In
<1> QED BY Invariant, <1>1, PTL

\* Every call of getLanguage() finds the languages there are, by any name.
THEOREM LookupsRight == Spec => []LookupsAgree
<1>1. Inv => LookupsAgree
  BY DEF Inv, Registered, LookupsAgree
<1> QED BY Invariant, <1>1, PTL

\* A method inside the mutex finds a state that belongs to the language, however
\* reset() and resetState() of other threads were refused or accepted.
THEOREM StateFits == Spec => []StateFitsLanguage
<1>1. Inv => StateFitsLanguage
  <2> SUFFICES ASSUME Inv, NEW t \in Thread, at[t] = "inside"
               PROVE  /\ Fits(native.language, native.state)
                      /\ native.left \subseteq Expected[native.language][native.state]
                      /\ native.current \in SymbolsOf(native.language) \cup {Null}
    BY DEF StateFitsLanguage
  <2>1. native # Null /\ \A u \in Thread : ~Resetting(u)
    BY OneInside DEF Inv, Resetting
  <2> QED BY <2>1 DEF Inv, Positioned
<1> QED BY Invariant, <1>1, PTL

\* Threads that share the iterator get each symbol once between two resets.
THEOREM SymbolsOnce == Spec => []EachSymbolOnce
<1>1. Inv => EachSymbolOnce
  <2> SUFFICES ASSUME Inv, native # Null, mutex = {}
               PROVE  \A s \in Symbol :
                        taken[s] = IF s \in Expected[native.language][native.state] \ native.left
                                   THEN 1 ELSE 0
    BY DEF EachSymbolOnce
  <2>1. \A u \in Thread : ~Resetting(u)
    BY DEF Inv, Calls, Resetting
  <2> QED BY <2>1 DEF Inv, Positioned
<1> QED BY Invariant, <1>1, PTL
=============================================================================
