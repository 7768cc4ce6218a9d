--------------------------- MODULE LanguageRegistry ---------------------------
(***************************************************************************)
(* TreeSitterLanguages: a table from names to languages, filled by the     *)
(* first call that finds the flag unset.  Neither table nor flag is        *)
(* protected; module_init() makes the first call, and the runtime, which   *)
(* is not part of the repository, shows classes to scripts only when       *)
(* module_init() has returned.                                             *)
(***************************************************************************)
EXTENDS Naturals, FiniteSets

CONSTANTS
    Thread,
    Name,        \* names that are asked for
    LanguageOf,  \* the names that are known, aliases too -> their language
    Null

ASSUME Known == DOMAIN LanguageOf \subseteq Name
ASSUME NoLanguage == \A n \in DOMAIN LanguageOf : LanguageOf[n] # Null

VARIABLES
    module,       \* "absent", "loading" or "loaded"
    initialized,  \* the flag
    languages,    \* the names entered in the table
    lookup,       \* Thread -> where its call of getLanguage() is
    todo,         \* Thread -> the names it has not entered yet
    name,         \* Thread -> the name it asks for, Null: it asks for none
    found         \* Thread -> what its call returned

table    == <<initialized, languages>>
request  == <<lookup, todo, name, found>>
registry == <<module, table, request>>

Language == {LanguageOf[n] : n \in DOMAIN LanguageOf}

RegistryTypeOK ==
    /\ module \in {"absent", "loading", "loaded"}
    /\ initialized \in BOOLEAN
    /\ languages \subseteq DOMAIN LanguageOf
    /\ lookup \in [Thread -> {"idle", "test", "fill", "find"}]
    /\ todo \in [Thread -> SUBSET DOMAIN LanguageOf]
    /\ name \in [Thread -> Name \cup {Null}]
    /\ found \in [Thread -> Language \cup {Null}]

RegistryInit ==
    /\ module = "absent"
    /\ initialized = FALSE /\ languages = {}
    /\ lookup = [t \in Thread |-> "idle"]
    /\ todo = [t \in Thread |-> {}]
    /\ name = [t \in Thread |-> Null]
    /\ found = [t \in Thread |-> Null]

In(t, step) == lookup[t] = step

Ask(t, n) ==
    /\ In(t, "idle")
    /\ lookup' = [lookup EXCEPT ![t] = "test"]
    /\ name' = [name EXCEPT ![t] = n]
    /\ UNCHANGED <<table, todo, found>>

\* Faulty: module_init() registers the classes and leaves the table to the
\* first script that needs it.
LoadOnly(t, n) ==
    /\ module = "absent"
    /\ module' = "loading"
    /\ UNCHANGED <<table, request>>

\* module_init() asks for one language before any class is registered.
Load(t, n) ==
    /\ module = "absent"
    /\ module' = "loading"
    /\ Ask(t, n)

\* Its call has returned: classes and constants are registered.
Loaded(t) ==
    /\ module = "loading"
    /\ In(t, "idle") /\ \A u \in Thread : In(u, "idle")
    /\ module' = "loaded"
    /\ UNCHANGED <<table, request>>

\* getLanguage() and isLanguageSupported() as scripts reach them.
getLanguage(t, n) ==
    /\ module = "loaded"
    /\ Ask(t, n)
    /\ UNCHANGED module

TestFlag(t) ==
    /\ In(t, "test")
    /\ lookup' = [lookup EXCEPT ![t] = IF initialized THEN "find" ELSE "fill"]
    /\ todo' = [todo EXCEPT ![t] = IF initialized THEN {} ELSE DOMAIN LanguageOf]
    /\ UNCHANGED <<module, table, name, found>>

\* Faulty: of two names for a language one is entered.
EnterOnce(t) ==
    /\ In(t, "fill")
    /\ \E n \in todo[t] :
          /\ languages' = languages \cup {n}
          /\ todo' = [todo EXCEPT ![t] = {m \in @ : LanguageOf[m] # LanguageOf[n]}]
    /\ UNCHANGED <<module, initialized, lookup, name, found>>

Enter(t) ==
    /\ In(t, "fill")
    /\ \E n \in todo[t] :
          /\ languages' = languages \cup {n}
          /\ todo' = [todo EXCEPT ![t] = @ \ {n}]
    /\ UNCHANGED <<module, initialized, lookup, name, found>>

SetFlag(t) ==
    /\ In(t, "fill")
    /\ todo[t] = {}
    /\ initialized' = TRUE
    /\ lookup' = [lookup EXCEPT ![t] = "find"]
    /\ UNCHANGED <<module, languages, todo, name, found>>

Find(t) ==
    /\ In(t, "find")
    /\ found' = [found EXCEPT ![t] =
                   IF name[t] \in languages THEN LanguageOf[name[t]] ELSE Null]
    /\ lookup' = [lookup EXCEPT ![t] = "idle"]
    /\ UNCHANGED <<module, table, todo, name>>

\* The caller returns and its frame goes.
Forget(t) ==
    /\ name' = [name EXCEPT ![t] = Null]
    /\ found' = [found EXCEPT ![t] = Null]
    /\ UNCHANGED <<module, table, lookup, todo>>

InLookup(t) == TestFlag(t) \/ Enter(t) \/ SetFlag(t) \/ Find(t)

-----------------------------------------------------------------------------
\* The table is never written while another thread reads or writes it: nothing
\* but the order of module_init() and the first script call sees to it.
TableNotShared ==
    \A t, u \in Thread : t # u /\ In(t, "fill") => lookup[u] \notin {"fill", "find"}

\* A name that is known, as itself or as an alias, is found by every call.
LookupsAgree ==
    \A t \in Thread : In(t, "idle") /\ name[t] # Null =>
        found[t] = IF name[t] \in DOMAIN LanguageOf THEN LanguageOf[name[t]] ELSE Null
=============================================================================
