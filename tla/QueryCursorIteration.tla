------------------------ MODULE QueryCursorIteration ------------------------
(***************************************************************************)
(* One TreeSitterQueryCursor iterated by several threads.  exec() starts   *)
(* the native cursor and then stores the owner of the node; nextMatch()    *)
(* and nextCapture() take results from the native cursor, look for a       *)
(* cancellation every Interval results, skip the results whose predicates  *)
(* do not hold and return the first one left.  The three limits (byte      *)
(* range, point range, start depth) are set one by one and count together, *)
(* stay through exec() and count for what has not been handed out.  Each   *)
(* call runs under the mutex.                                              *)
(*                                                                         *)
(* The native cursor is not part of the repository.  It is taken to hand   *)
(* out the captures of a node in source order, each naming its match,      *)
(* captures one by one within all its limits, a match whole if any of its  *)
(* captures is within them; what it passes over it does not come back to.  *)
(* And a script is taken to use one of the two ways after each exec().     *)
(***************************************************************************)
EXTENDS Naturals, Sequences, FiniteSets, FiniteSetsExt

CONSTANTS
    Thread,
    Node,      \* nodes the query is executed on, each of its own tree
    Match,     \* ids of matches
    Stream,    \* Node -> the captures of the query in source order, as matches
    Passes,    \* the matches whose predicates hold in the source of their tree
    Limits,    \* what scripts limit results to: one of the three limits, and
               \* the captures it leaves: Node -> positions
    Everywhere, \* no limit: in a new cursor and after it was cleared
    Interval,  \* results between two looks for a cancellation (100)
    Null

RangeKind == {"byte", "point"}
Kind == RangeKind \cup {"depth"}
Within == [Node -> SUBSET Nat]

ASSUME Streams == Stream \in [Node -> Seq(Match)] /\ Passes \subseteq Match
ASSUME PositiveInterval == Interval \in Nat \ {0}
ASSUME LimitsOfNodes ==
    /\ Limits \subseteq [kind : Kind, within : Within]
    /\ Everywhere = [n \in Node |-> DOMAIN Stream[n]]
ASSUME NullIsNothing == Null \notin Thread \cup Node

VARIABLES
    running,    \* the node the native cursor runs on
    left,       \* the captures it has not handed out, by position
    limits,     \* of the native cursor, by kind
    way,        \* "match" or "capture": which of the two is called
    tree,       \* the member tree: the owner stored by exec()
    mutex,      \* the thread inside the lock_guard
    pc,         \* Thread -> where its call is
    node,       \* Thread -> the argument of its exec()
    hand,       \* Thread -> the captures it took and has not decided about
    checked,    \* Thread -> results taken by this call
    cancelled,  \* the threads whose cancellation was requested and not seen
    late,       \* Thread -> results taken since then
    given,      \* captures returned since exec(), by position: how often
    asked,      \* the limits that scripts asked for last
    inForce,    \* all they asked for that counted since exec()
    lost        \* captures a failed call took with it, or removeMatch() dropped

native == <<running, left, limits, way>>
wanted == <<asked, inForce>>
history == <<given, lost, wanted>>
vars == <<native, tree, mutex, pc, node, hand, checked, cancelled, late, history>>

Steps == {"idle", "exec", "native", "owner", "next", "take", "check", "evaluate", "build"}

Positions == IF running = Null THEN {} ELSE DOMAIN Stream[running]
MatchAt(k) == Stream[running][k]
OfMatch(m) == {k \in Positions : MatchAt(k) = m}

TypeOK ==
    /\ running \in Node \cup {Null} /\ tree \in Node \cup {Null}
    /\ limits \in [Kind -> Within] /\ asked \in [Kind -> Within]
    /\ inForce \subseteq [Kind -> Within]
    /\ way \in {"match", "capture"}
    /\ left \in SUBSET Positions
    /\ mutex \in Thread \cup {Null}
    /\ pc \in [Thread -> Steps]
    /\ node \in [Thread -> Node \cup {Null}]
    /\ hand \in [Thread -> SUBSET Positions]
    /\ checked \in [Thread -> Nat]
    /\ cancelled \in SUBSET Thread
    /\ late \in [Thread -> Nat]
    /\ given \in [Positions -> Nat]
    /\ lost \in SUBSET Positions

NoLimits == [k \in Kind |-> Everywhere]

Init ==
    /\ running = Null /\ left = {} /\ way = "match" /\ limits = NoLimits
    /\ tree = Null
    /\ mutex = Null
    /\ pc = [t \in Thread |-> "idle"]
    /\ node = [t \in Thread |-> Null]
    /\ hand = [t \in Thread |-> {}]
    /\ checked = [t \in Thread |-> 0]
    /\ cancelled = {}
    /\ late = [t \in Thread |-> 0]
    /\ given = [k \in {} |-> 0] /\ lost = {}
    /\ asked = NoLimits /\ inForce = {NoLimits}

At(t, step) == pc[t] = step
Goto(t, step) == pc' = [pc EXCEPT ![t] = step]

Acquire(t) == mutex = Null /\ mutex' = t

\* The lock_guard is destroyed; the results in hand were returned or dropped.
Return(t) ==
    /\ Goto(t, "idle")
    /\ mutex' = Null
    /\ hand' = [hand EXCEPT ![t] = {}]
    /\ checked' = [checked EXCEPT ![t] = 0]

-----------------------------------------------------------------------------
(* exec() *)

CallExec(t, n) ==
    /\ At(t, "idle")
    /\ Goto(t, "exec")
    /\ node' = [node EXCEPT ![t] = n]
    /\ UNCHANGED <<native, tree, mutex, hand, checked, cancelled, late, history>>

\* Faulty: exec() without the mutex.
ExecUnlocked(t) ==
    /\ At(t, "exec")
    /\ Goto(t, "native")
    /\ UNCHANGED <<native, tree, mutex, node, hand, checked, cancelled, late, history>>

LockExec(t) ==
    /\ At(t, "exec")
    /\ Acquire(t)
    /\ Goto(t, "native")
    /\ UNCHANGED <<native, tree, node, hand, checked, cancelled, late, history>>

\* Faulty: the native cursor goes on where it was, on another node.
RestartNative(t) ==
    /\ At(t, "native")
    /\ running' = node[t]
    /\ left' = IF running = Null THEN DOMAIN Stream[node[t]] ELSE left
    /\ way' \in {"match", "capture"}
    /\ given' = [k \in DOMAIN Stream[node[t]] |-> 0] /\ lost' = {}
    /\ inForce' = {asked}
    /\ Goto(t, "owner")
    /\ UNCHANGED <<limits, asked, tree, mutex, node, hand, checked, cancelled, late>>

StartNative(t) ==
    /\ At(t, "native")
    /\ running' = node[t]
    /\ left' = DOMAIN Stream[node[t]]
    /\ way' \in {"match", "capture"}
    /\ given' = [k \in DOMAIN Stream[node[t]] |-> 0] /\ lost' = {}
    /\ inForce' = {asked}
    /\ Goto(t, "owner")
    /\ UNCHANGED <<limits, asked, tree, mutex, node, hand, checked, cancelled, late>>

StoreOwner(t) ==
    /\ At(t, "owner")
    /\ tree' = node[t]
    /\ node' = [node EXCEPT ![t] = Null]
    /\ Return(t)
    /\ UNCHANGED <<native, cancelled, late, history>>

-----------------------------------------------------------------------------
(* nextMatch() and nextCapture() *)

CallNext(t) ==
    /\ At(t, "idle")
    /\ Goto(t, "next")
    /\ UNCHANGED <<native, tree, mutex, node, hand, checked, cancelled, late, history>>

LockNext(t) ==
    /\ At(t, "next")
    /\ Acquire(t)
    /\ Goto(t, "take")
    /\ UNCHANGED <<native, tree, node, hand, checked, cancelled, late, history>>

\* What the native cursor still hands out under its limits.
Allowed(l) == {k \in Positions : \A kind \in Kind : k \in l[kind][running]}
LetsThrough(l, k) ==
    IF way = "match" THEN OfMatch(MatchAt(k)) \cap Allowed(l) # {} ELSE k \in Allowed(l)
ToCome == {k \in left : LetsThrough(limits, k)}

\* Faulty: only the first result of a call looks for a cancellation.
TakeCheckedOnce(t) ==
    /\ At(t, "take")
    /\ ToCome # {}
    /\ LET k == Min(ToCome)
           taken == IF way = "match" THEN OfMatch(MatchAt(k)) ELSE {k}
       IN  /\ hand' = [hand EXCEPT ![t] = taken]
           /\ left' = {l \in left : l > k} \ taken
    /\ Goto(t, IF checked[t] = 0 THEN "check" ELSE "evaluate")
    /\ checked' = [checked EXCEPT ![t] = @ + 1]
    /\ late' = [late EXCEPT ![t] = IF t \in cancelled THEN @ + 1 ELSE @]
    /\ UNCHANGED <<running, limits, way, tree, mutex, node, cancelled, history>>

\* The native cursor has moved on before anything is known about the result.
Take(t) ==
    /\ At(t, "take")
    /\ ToCome # {}
    /\ LET k == Min(ToCome)
           taken == IF way = "match" THEN OfMatch(MatchAt(k)) ELSE {k}
       IN  /\ hand' = [hand EXCEPT ![t] = taken]
           /\ left' = {l \in left : l > k} \ taken
    /\ Goto(t, IF checked[t] % Interval = 0 THEN "check" ELSE "evaluate")
    /\ checked' = [checked EXCEPT ![t] = @ + 1]
    /\ late' = [late EXCEPT ![t] = IF t \in cancelled THEN @ + 1 ELSE @]
    /\ UNCHANGED <<running, limits, way, tree, mutex, node, cancelled, history>>

Exhausted(t) ==
    /\ At(t, "take")
    /\ ToCome = {}
    /\ left' = {}
    /\ Return(t)
    /\ UNCHANGED <<running, limits, way, tree, node, cancelled, late, history>>

NotCancelled(t) ==
    /\ At(t, "check")
    /\ t \notin cancelled
    /\ Goto(t, "evaluate")
    /\ UNCHANGED <<native, tree, mutex, node, hand, checked, cancelled, late, history>>

\* The call raises an exception; the result it took is gone.
Cancelled(t) ==
    /\ At(t, "check")
    /\ t \in cancelled
    /\ cancelled' = cancelled \ {t}
    /\ late' = [late EXCEPT ![t] = 0]
    /\ lost' = lost \cup hand[t]
    /\ Return(t)
    /\ UNCHANGED <<native, tree, node, given, wanted>>

InHand(t) == MatchAt(CHOOSE k \in hand[t] : TRUE)

\* evaluatePredicates() against the source of the stored owner.
Accept(t) ==
    /\ At(t, "evaluate")
    /\ InHand(t) \in Passes
    /\ Goto(t, "build")
    /\ UNCHANGED <<native, tree, mutex, node, hand, checked, cancelled, late, history>>

\* Faulty: nextCapture() removes the match that comes next.
SkipNext(t) ==
    /\ At(t, "evaluate")
    /\ InHand(t) \notin Passes
    /\ left' = IF way = "capture" THEN {k \in left : \E l \in left : l < k} ELSE left
    /\ hand' = [hand EXCEPT ![t] = {}]
    /\ Goto(t, "take")
    /\ UNCHANGED <<running, limits, way, tree, mutex, node, checked, cancelled, late, history>>

\* Faulty: the same result is looked at again.
SkipAgain(t) ==
    /\ At(t, "evaluate")
    /\ InHand(t) \notin Passes
    /\ UNCHANGED vars

\* nextCapture() also removes the other captures of the match.
Skip(t) ==
    /\ At(t, "evaluate")
    /\ InHand(t) \notin Passes
    /\ left' = IF way = "capture" THEN left \ OfMatch(InHand(t)) ELSE left
    /\ hand' = [hand EXCEPT ![t] = {}]
    /\ Goto(t, "take")
    /\ UNCHANGED <<running, limits, way, tree, mutex, node, checked, cancelled, late, history>>

Give(t) ==
    /\ At(t, "build")
    /\ given' = [k \in DOMAIN given |-> IF k \in hand[t] THEN given[k] + 1 ELSE given[k]]
    /\ Return(t)
    /\ UNCHANGED <<native, tree, node, cancelled, late, lost, wanted>>

\* A cancellation or an exception while the hash is built.
Abandon(t) ==
    /\ At(t, "build")
    /\ lost' = lost \cup hand[t]
    /\ Return(t)
    /\ UNCHANGED <<native, tree, node, cancelled, late, given, wanted>>

-----------------------------------------------------------------------------
\* removeMatch() is one native call under the mutex.
RemoveMatch(t, m) ==
    /\ At(t, "idle")
    /\ mutex = Null
    /\ lost' = lost \cup (left \cap OfMatch(m))
    /\ left' = left \ OfMatch(m)
    /\ UNCHANGED <<running, limits, way, tree, mutex, pc, node, hand, checked, cancelled, late, given, wanted>>

SetNative(l) ==
    /\ mutex = Null
    /\ limits' = l
    /\ UNCHANGED <<running, left, way, tree, mutex, pc, node, hand, checked, cancelled,
                  late, given, lost>>

Ask(l) == asked' = l /\ inForce' = inForce \cup {l}

\* setByteRange(), setPointRange(), setMaxStartDepth()
SetLimit(t, kind, within) ==
    /\ At(t, "idle")
    /\ SetNative([limits EXCEPT ![kind] = within])
    /\ Ask([asked EXCEPT ![kind] = within])

\* Faulty: clearing a range clears the start depth as well.
ClearAll(t, kind) ==
    /\ At(t, "idle")
    /\ SetNative(NoLimits)
    /\ Ask([asked EXCEPT ![kind] = Everywhere])

\* clearByteRange(), clearPointRange()
ClearLimit(t, kind) ==
    /\ At(t, "idle")
    /\ SetNative([limits EXCEPT ![kind] = Everywhere])
    /\ Ask([asked EXCEPT ![kind] = Everywhere])

\* Somebody asks for the thread to be cancelled.
Cancel(t) ==
    /\ pc[t] # "idle"
    /\ t \notin cancelled
    /\ cancelled' = cancelled \cup {t}
    /\ UNCHANGED <<native, tree, mutex, pc, node, hand, checked, late, history>>

Lock(t) == LockExec(t) \/ LockNext(t)

Inside(t) ==
    \/ StartNative(t) \/ StoreOwner(t)
    \/ Take(t) \/ Exhausted(t) \/ NotCancelled(t) \/ Cancelled(t)
    \/ Accept(t) \/ Skip(t) \/ Give(t) \/ Abandon(t)

Next ==
    \E t \in Thread :
        \/ Lock(t) \/ Inside(t) \/ CallNext(t) \/ Cancel(t)
        \/ \E kind \in RangeKind : ClearLimit(t, kind)
        \/ \E l \in Limits : SetLimit(t, l.kind, l.within)
        \/ \E n \in Node : CallExec(t, n)
        \/ \E m \in Match : RemoveMatch(t, m)

\* A thread inside a call keeps running, and it gets a mutex that is released
\* again and again.
Fairness == \A t \in Thread : WF_vars(Inside(t)) /\ SF_vars(Lock(t))

Spec == Init /\ [][Next]_vars /\ Fairness

-----------------------------------------------------------------------------
(* What must hold *)

\* However many threads share the cursor, each capture of a match that passes
\* is returned once: unless it is still to come, in the hands of a call, or
\* was lost to a call that failed.  No capture of another match is returned.
\* A capture is only passed over if limits that somebody asked for, and that
\* counted after exec(), left it out; one that all left out is not returned.
\* Captures are returned in source order, whoever asks for them.
ReturnedOnce ==
    \A k \in Positions :
        LET open == k \in left \cup lost \cup UNION {hand[t] : t \in Thread}
        IN  /\ given[k] \in {0, 1}
            /\ given[k] = 1 =>
                  MatchAt(k) \in Passes /\ ~open /\ \E l \in inForce : LetsThrough(l, k)
            /\ given[k] = 0 =>
                  MatchAt(k) \notin Passes \/ open \/ \E l \in inForce : ~LetsThrough(l, k)
            /\ given[k] = 1 /\ way = "capture" =>
                  \A j \in left \cup UNION {hand[t] : t \in Thread} : k < j

\* Predicates read the source of the tree the captures come from: exec() on
\* another node never comes between taking a result and evaluating it.
EvaluatedInOwnSource ==
    \A t \in Thread : pc[t] \in {"take", "check", "evaluate", "build"} => tree = running

\* A cancelled call takes at most Interval more results.
CancellationSeen == \A t \in Thread : late[t] <= Interval

\* Every call returns: the loop of nextMatch() ends for every stream.
IterationsEnd == \A t \in Thread : pc[t] # "idle" ~> pc[t] = "idle"
=============================================================================
