--------------------------- MODULE QueryPredicates ---------------------------
(***************************************************************************)
(* TreeSitterQuery::evaluatePredicates(), run by several threads for the   *)
(* matches of one query.  The predicates of a pattern are one flat array   *)
(* of steps, "Done" between them; the loop walks through the array, and    *)
(* the first predicate that does not hold ends it.  Compiled patterns of   *)
(* #match? are kept in regex_cache, under a mutex of their own.            *)
(*                                                                         *)
(* collectDirectives() walks through the same array for each match that   *)
(* passes; it reads nothing that changes, so it is one step.               *)
(*                                                                         *)
(* tree-sitter only accepts predicates that begin with a name, so the loop *)
(* never meets the step without one that it could skip.                    *)
(***************************************************************************)
EXTENDS Naturals, Sequences, FiniteSets, SequencesExt, FiniteSetsExt

CONSTANTS
    Thread,
    Capture,   \* capture names of the query
    Text,      \* texts of nodes, string arguments and property names
    Empty,     \* the text of a capture that the match does not have
    True,      \* the value of a directive without one
    Pattern,   \* the texts used as regular expressions
    Invalid,   \* the patterns that do not compile
    Found,     \* pairs of a valid pattern and a text it is found in
    Node,      \* the nodes that are captured
    TextOf,    \* Node -> its text
    ByteRange,
    RangeOf,   \* Node -> its range: a node and its only child share one
    Matches,   \* the matches evaluated: sequences of captures
    Metadata,  \* what they may be evaluated with: property -> ranges
    Patterns   \* the predicates of the patterns evaluated, as written

Argument == [kind : {"capture"}, value : Capture] \cup [kind : {"string"}, value : Text]
Predicate == [name : {"eq?", "not-eq?", "match?", "not-match?", "any-of?", "not-any-of?",
                      "is?", "is-not?", "set!", "unknown?"},
              args : Seq(Argument)]

ASSUME Texts == Pattern \subseteq Text /\ Empty \in Text /\ True \notin Text /\ TextOf \in [Node -> Text]
ASSUME Regexes == Invalid \subseteq Pattern /\ Found \subseteq (Pattern \ Invalid) \X Text
ASSUME Inputs ==
    /\ Matches \subseteq Seq([name : Capture, node : Node])
    /\ Metadata \subseteq [Text -> SUBSET ByteRange]
    /\ RangeOf \in [Node -> ByteRange]
    /\ Patterns \subseteq Seq(Predicate)
ASSUME RegexArguments ==
    \A ps \in Patterns : \A k \in DOMAIN ps :
        /\ ps[k].name \in {"match?", "not-match?"} /\ Len(ps[k].args) >= 2
        /\ ps[k].args[2].kind = "string"
        => ps[k].args[2].value \in Pattern

VARIABLES
    predicates,   \* the predicates of the pattern, as written
    steps,        \* the same as a flat array
    match,        \* Thread -> the match it evaluates
    metadata,     \* Thread -> the metadata it was called with
    next,         \* Thread -> the step it looks at next
    pc,           \* Thread -> where its call is
    verdict,      \* Thread -> what its last call returned, "none" before
    directives,   \* Thread -> the directives of the match that passed
    regex_cache,  \* the patterns with a compiled regular expression
    mutex,        \* the threads inside regex_cache_mutex
    compiled      \* Pattern -> how often it was compiled with success

pattern == <<predicates, steps>>
call    == <<match, metadata>>
regex   == <<regex_cache, mutex, compiled>>
result  == <<verdict, directives>>
vars    == <<pattern, call, next, pc, result, regex>>

Done == [kind |-> "done", value |-> Empty]
Flatten(ps) ==
    FlattenSeq([k \in DOMAIN ps |->
        <<[kind |-> "name", value |-> ps[k].name]>> \o ps[k].args \o <<Done>>])

NoMetadata == [property \in Text |-> {}]

TypeOK ==
    /\ match \in [Thread -> Matches \cup {<<>>}]
    /\ metadata \in [Thread -> Metadata \cup {NoMetadata}]
    /\ next \in [Thread -> 1 .. Len(steps) + 1]
    /\ \A t \in Thread : next[t] <= Len(steps) => steps[next[t]].kind = "name"
    /\ pc \in [Thread -> {"idle", "loop", "find", "compile", "search", "collect"}]
    /\ verdict \in [Thread -> {"none", "pass", "fail"}]
    /\ \A t \in Thread : /\ DOMAIN directives[t] \subseteq Text
                         /\ Range(directives[t]) \subseteq Text \cup {True}
    /\ regex_cache \subseteq Pattern \ Invalid
    /\ mutex \subseteq Thread
    /\ compiled \in [Pattern -> Nat]

Init ==
    /\ predicates \in Patterns
    /\ steps = Flatten(predicates)
    /\ match = [t \in Thread |-> <<>>]
    /\ metadata = [t \in Thread |-> NoMetadata]
    /\ next = [t \in Thread |-> 1]
    /\ pc = [t \in Thread |-> "idle"]
    /\ verdict = [t \in Thread |-> "none"]
    /\ directives = [t \in Thread |-> <<>>]
    /\ regex_cache = {} /\ mutex = {}
    /\ compiled = [p \in Pattern |-> 0]

At(t, step) == pc[t] = step
Goto(t, step) == pc' = [pc EXCEPT ![t] = step]

-----------------------------------------------------------------------------
(* One predicate of the array *)

DoneAfter(k) == CHOOSE d \in k .. Len(steps) :
                    steps[d].kind = "done" /\ \A e \in k .. d - 1 : steps[e].kind # "done"
Named(t, names) == At(t, "loop") /\ next[t] <= Len(steps) /\ steps[next[t]].value \in names
Args(t) == SubSeq(steps, next[t] + 1, DoneAfter(next[t]) - 1)
Kinds(t) == [k \in DOMAIN Args(t) |-> Args(t)[k].kind]

\* Faulty: the last capture of a name counts.
CapturedLast(t, c) == SelectLastInSeq(match[t], LAMBDA x : x.name = c)

\* Only the first capture of that name counts.
Captured(t, c) == SelectInSeq(match[t], LAMBDA x : x.name = c)
getCaptureText(t, c) ==
    IF Captured(t, c) = 0 THEN Empty ELSE TextOf[match[t][Captured(t, c)].node]
ValueOf(t, arg) == IF arg.kind = "capture" THEN getCaptureText(t, arg.value) ELSE arg.value

\* Faulty: the end of a predicate is taken for the next one.
AdvanceToDone(t) == next' = [next EXCEPT ![t] = DoneAfter(@)]

Advance(t) == next' = [next EXCEPT ![t] = DoneAfter(@) + 1]

\* Faulty: a predicate that holds is evaluated again.
DecideAgain(t, holds) ==
    IF holds
    THEN Goto(t, "loop") /\ UNCHANGED <<next, verdict>>
    ELSE /\ verdict' = [verdict EXCEPT ![t] = "fail"]
         /\ next' = [next EXCEPT ![t] = 1]
         /\ Goto(t, "idle")

\* The predicate holds and the loop goes on, or the call returns false.
Decide(t, holds) ==
    IF holds
    THEN Advance(t) /\ Goto(t, "loop") /\ UNCHANGED verdict
    ELSE /\ verdict' = [verdict EXCEPT ![t] = "fail"]
         /\ next' = [next EXCEPT ![t] = 1]
         /\ Goto(t, "idle")

-----------------------------------------------------------------------------
Call(t, m, md) ==
    /\ At(t, "idle")
    /\ match' = [match EXCEPT ![t] = m]
    /\ metadata' = [metadata EXCEPT ![t] = md]
    /\ verdict' = [verdict EXCEPT ![t] = "none"]
    /\ directives' = [directives EXCEPT ![t] = <<>>]
    /\ Goto(t, "loop")
    /\ UNCHANGED <<pattern, next, regex>>

Pass(t) ==
    /\ At(t, "loop")
    /\ next[t] > Len(steps)
    /\ verdict' = [verdict EXCEPT ![t] = "pass"]
    /\ next' = [next EXCEPT ![t] = 1]
    /\ Goto(t, "collect")
    /\ UNCHANGED <<pattern, call, directives, regex>>

TwoValues(t) == Len(Args(t)) >= 2
CaptureFirst(t) == TwoValues(t) /\ Kinds(t)[1] = "capture"
CaptureThenString(t) == CaptureFirst(t) /\ Kinds(t)[2] = "string"
WithProperty(t) ==
    Args(t) # <<>> /\ (Kinds(t)[1] = "capture" => CaptureThenString(t))

\* A directive, an unknown predicate, or arguments the predicate cannot have.
Ignore(t) ==
    /\ \/ Named(t, {"set!", "unknown?"})
       \/ Named(t, {"eq?", "not-eq?"}) /\ ~TwoValues(t)
       \/ Named(t, {"match?", "not-match?"}) /\ ~CaptureThenString(t)
       \/ Named(t, {"any-of?", "not-any-of?"}) /\ ~CaptureFirst(t)
       \/ Named(t, {"is?", "is-not?"}) /\ ~WithProperty(t)
    /\ Advance(t)
    /\ UNCHANGED <<pattern, call, pc, result, regex>>

Eq(t) ==
    /\ Named(t, {"eq?", "not-eq?"}) /\ TwoValues(t)
    /\ LET equal == ValueOf(t, Args(t)[1]) = ValueOf(t, Args(t)[2])
       IN  Decide(t, equal = Named(t, {"eq?"}))
    /\ UNCHANGED <<pattern, call, directives, regex>>

AnyOf(t) ==
    /\ Named(t, {"any-of?", "not-any-of?"}) /\ CaptureFirst(t)
    /\ LET found == \E k \in 2 .. Len(Args(t)) :
                        ValueOf(t, Args(t)[1]) = ValueOf(t, Args(t)[k])
       IN  Decide(t, found = Named(t, {"any-of?"}))
    /\ UNCHANGED <<pattern, call, directives, regex>>

\* The property and the capture come in either order; without a capture, or
\* without a node captured by it, nothing is found.  Any node of the range counts.
Is(t) ==
    /\ Named(t, {"is?", "is-not?"}) /\ WithProperty(t)
    /\ LET property == IF Kinds(t)[1] = "capture" THEN Args(t)[2] ELSE Args(t)[1]
           captures == {Args(t)[k].value : k \in {l \in {1, 2} \cap DOMAIN Args(t) :
                                                    Kinds(t)[l] = "capture"}}
           found == \E c \in captures :
                        /\ Captured(t, c) # 0
                        /\ RangeOf[match[t][Captured(t, c)].node] \in metadata[t][property.value]
       IN  Decide(t, found = Named(t, {"is?"}))
    /\ UNCHANGED <<pattern, call, directives, regex>>

-----------------------------------------------------------------------------
(* #match? and #not-match? *)

Regex(t) == Args(t)[2].value

\* Faulty: the cache is looked at before its mutex is taken.
FindUnlocked(t) ==
    /\ Named(t, {"match?", "not-match?"}) /\ CaptureThenString(t)
    /\ mutex' = mutex \cup {t}
    /\ Goto(t, "find")
    /\ UNCHANGED <<pattern, call, next, result, regex_cache, compiled>>

LockRegex(t) ==
    /\ Named(t, {"match?", "not-match?"}) /\ CaptureThenString(t)
    /\ mutex = {}
    /\ mutex' = {t}
    /\ Goto(t, "find")
    /\ UNCHANGED <<pattern, call, next, result, regex_cache, compiled>>

FindRegex(t) ==
    /\ At(t, "find")
    /\ Goto(t, IF Regex(t) \in regex_cache THEN "search" ELSE "compile")
    /\ UNCHANGED <<pattern, call, next, result, regex>>

Compile(t) ==
    /\ At(t, "compile")
    /\ Regex(t) \notin Invalid
    /\ regex_cache' = regex_cache \cup {Regex(t)}
    /\ compiled' = [compiled EXCEPT ![Regex(t)] = @ + 1]
    /\ Goto(t, "search")
    /\ UNCHANGED <<pattern, call, next, result, mutex>>

Matched(t, matched) ==
    /\ mutex' = mutex \ {t}
    /\ Decide(t, matched = (steps[next[t]].value = "match?"))

\* std::regex throws: the mutex is released, and the pattern found nowhere.
InvalidRegex(t) ==
    /\ At(t, "compile")
    /\ Regex(t) \in Invalid
    /\ Matched(t, FALSE)
    /\ UNCHANGED <<pattern, call, directives, regex_cache, compiled>>

Search(t) ==
    /\ At(t, "search")
    /\ Matched(t, <<Regex(t), ValueOf(t, Args(t)[1])>> \in Found)
    /\ UNCHANGED <<pattern, call, directives, regex_cache, compiled>>

-----------------------------------------------------------------------------
(* collectDirectives() *)

\* What the predicate at one place of the array adds: #set! with a property and
\* a string, or with a property alone or followed by a capture.
DirectiveAt(i) ==
    LET args == SubSeq(steps, i + 1, DoneAfter(i) - 1)
        string(k) == k \in DOMAIN args /\ args[k].kind = "string"
    IN  IF steps[i].value # "set!" \/ ~string(1) THEN <<>>
        ELSE [property \in {args[1].value} |-> IF string(2) THEN args[2].value ELSE True]

\* f @@ g, written out for the provers.
Over(f, g) == [x \in DOMAIN f \cup DOMAIN g |-> IF x \in DOMAIN f THEN f[x] ELSE g[x]]

\* Faulty: the first value of a property stays.
CollectFirst(t) ==
    LET collected[i \in 1 .. Len(steps) + 1] ==
            IF i > Len(steps) THEN <<>>
            ELSE Over(DirectiveAt(i), collected[DoneAfter(i) + 1])
    IN  directives' = [directives EXCEPT ![t] = collected[1]]

\* A later value replaces an earlier one.
collectDirectives(t) ==
    LET collected[i \in 1 .. Len(steps) + 1] ==
            IF i > Len(steps) THEN <<>>
            ELSE Over(collected[DoneAfter(i) + 1], DirectiveAt(i))
    IN  directives' = [directives EXCEPT ![t] = collected[1]]

Collect(t) ==
    /\ At(t, "collect")
    /\ collectDirectives(t)
    /\ Goto(t, "idle")
    /\ UNCHANGED <<pattern, call, next, verdict, regex>>

-----------------------------------------------------------------------------
Evaluate(t) ==
    \/ Pass(t) \/ Ignore(t) \/ Eq(t) \/ AnyOf(t) \/ Is(t)
    \/ LockRegex(t) \/ FindRegex(t) \/ Compile(t) \/ InvalidRegex(t) \/ Search(t)
    \/ Collect(t)

Next ==
    \E t \in Thread :
        \/ Evaluate(t)
        \/ \E m \in Matches, md \in Metadata : Call(t, m, md)

\* A thread keeps running, and gets a mutex that is released again and again.
Fairness == \A t \in Thread : WF_vars(Evaluate(t)) /\ SF_vars(LockRegex(t))

Spec == Init /\ [][Next]_vars /\ Fairness

-----------------------------------------------------------------------------
(* What must hold *)

\* The meaning of one predicate, as the class documentation gives it.
NodesNamed(m, c) == {m[k].node : k \in {l \in DOMAIN m : m[l].name = c /\
                                          \A e \in 1 .. l - 1 : m[e].name # c}}
Denotes(m, arg) ==
    IF arg.kind = "string" THEN {arg.value}
    ELSE IF NodesNamed(m, arg.value) = {} THEN {Empty}
    ELSE {TextOf[n] : n \in NodesNamed(m, arg.value)}
Shape(p) == [k \in DOMAIN p.args |-> p.args[k].kind]

\* The lists of arguments that say something; others say nothing.
Usable(p) ==
    CASE p.name \in {"is?", "is-not?"} ->
            \E k \in {1, 2} \cap DOMAIN p.args : Shape(p)[k] = "string"
      [] p.name \in {"match?", "not-match?"} ->
            Len(p.args) >= 2 /\ SubSeq(Shape(p), 1, 2) = <<"capture", "string">>
      [] p.name \in {"any-of?", "not-any-of?"} ->
            Len(p.args) >= 2 /\ Shape(p)[1] = "capture"
      [] OTHER -> Len(p.args) >= 2

Means(p, m, md) ==
    LET args == p.args
        n == Len(args)
        same(v, w) == Denotes(m, v) = Denotes(m, w)
        amongRest == \E k \in 2 .. n : same(args[1], args[k])
        regexFound == \E x \in Denotes(m, args[1]) : <<args[2].value, x>> \in Found
        marked(property, c) == \E x \in NodesNamed(m, c) : RangeOf[x] \in md[property]
        is == IF Shape(p)[1] = "capture" THEN marked(args[2].value, args[1].value)
              ELSE n >= 2 /\ Shape(p)[2] = "capture" /\ marked(args[1].value, args[2].value)
    IN  Usable(p) =>
          CASE p.name = "eq?"         -> same(args[1], args[2])
            [] p.name = "not-eq?"     -> ~same(args[1], args[2])
            [] p.name = "any-of?"     -> amongRest
            [] p.name = "not-any-of?" -> ~amongRest
            [] p.name = "match?"      -> regexFound
            [] p.name = "not-match?"  -> ~regexFound
            [] p.name = "is?"         -> is
            [] p.name = "is-not?"     -> ~is
            [] OTHER                  -> TRUE

\* The walk through the array, which skips what it does not understand and
\* shares its regular expressions with the walks of other threads, finds that
\* a match passes exactly when every predicate, as written, holds of it.
VerdictIsConjunction ==
    \A t \in Thread : At(t, "idle") /\ verdict[t] # "none" =>
        (verdict[t] = "pass" <=>
            \A k \in DOMAIN predicates : Means(predicates[k], match[t], metadata[t]))

\* A match that passes comes with the directives as written: every property set
\* has its last value, whatever other predicates stand between them.
DirectivesAsWritten ==
    \A t \in Thread : At(t, "idle") /\ verdict[t] = "pass" =>
        LET set == {k \in DOMAIN predicates : /\ predicates[k].name = "set!"
                                              /\ Len(predicates[k].args) >= 1
                                              /\ Shape(predicates[k])[1] = "string"}
            property(k) == predicates[k].args[1].value
            valued(k) == Len(predicates[k].args) >= 2 /\ Shape(predicates[k])[2] = "string"
        IN  /\ DOMAIN directives[t] = {property(k) : k \in set}
            /\ \A k \in set : (\A l \in set : property(l) = property(k) => l <= k) =>
                  directives[t][property(k)] = IF valued(k) THEN predicates[k].args[2].value
                                               ELSE True

\* A pattern is compiled once for all matches and all threads.
CompiledOnce == \A p \in Pattern : compiled[p] <= 1

\* Every evaluation ends, also when a pattern does not compile while another
\* thread waits for the cache.
EvaluationsEnd == \A t \in Thread : ~At(t, "idle") ~> At(t, "idle")

\* QC_TreeSitterQuery.qpp: "When a query pattern contains #is? or #is-not?, the
\* captured node's byte range is looked up in the metadata to determine if the
\* predicate passes".  No match passes #is-not? when all it captured is marked.
IsNotLooksAtCaptures ==
    \A t \in Thread : At(t, "idle") /\ verdict[t] = "pass" =>
        \A k \in DOMAIN predicates :
            predicates[k].name = "is-not?" /\ predicates[k].args # <<>> =>
                \E c \in DOMAIN match[t] :
                    RangeOf[match[t][c].node] \notin metadata[t][predicates[k].args[1].value]
=============================================================================
