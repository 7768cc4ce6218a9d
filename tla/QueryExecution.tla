--------------------------- MODULE QueryExecution ---------------------------
(***************************************************************************)
(* One TreeSitterQuery that several threads configure and run: setByteRange*)
(* and clearByteRange() write members, execute() and captures() copy them  *)
(* into a native cursor of their own, member by member, then collect every *)
(* result whose predicates hold.  setMaxStartDepth() writes two members in  *)
(* the same way.  disablePattern() changes the native query under all runs. *)
(* No mutex orders any of them.                                            *)
(*                                                                         *)
(* The point range is the same pair of operations on members of its own;   *)
(* the byte range stands for both.  Positions of captures in the source    *)
(* stand for their bytes.  The native cursor is not part of the repository:*)
(* it is taken to hand out what intersects its range in source order, to   *)
(* take an end of 0 for no end, and to refuse a range that ends before it  *)
(* starts.  A run that is under way when a pattern is disabled may or may  *)
(* not still begin matches of it.                                          *)
(***************************************************************************)
EXTENDS Naturals, Sequences, FiniteSets, SequencesExt

CONSTANTS
    Thread,
    Node,      \* nodes the query is run on
    Match,     \* ids of matches
    Stream,    \* Node -> the captures of the query in source order, as matches
    Passes,    \* the matches whose predicates hold
    DepthOf,   \* Match -> how deep below the node it starts
    Depths,    \* the arguments of setMaxStartDepth()
    Deepest,   \* UINT32_MAX
    Unwanted,  \* the patterns that scripts may disable
    Requests,  \* the ranges scripts ask for with setByteRange()
    Interval,  \* results between two looks for a cancellation (100)
    Null

ASSUME Streams == Stream \in [Node -> Seq(Match)] /\ Passes \cup Unwanted \subseteq Match
ASSUME Numbers == Requests \subseteq [start : Nat, end : Nat] /\ Interval \in Nat \ {0}
ASSUME DepthsOfMatches ==
    /\ Deepest \in Nat /\ Depths \subseteq 0 .. Deepest
    /\ DepthOf \in [Match -> 0 .. Deepest]
ASSUME NullIsNothing == Null \notin Node

NoRange == [start |-> 0, end |-> 0]      \* the default member values
Offset == UNION {{r.start, r.end} : r \in Requests \cup {NoRange}}
ByteRange == [start : Offset, end : Offset]
Way == {"execute", "captures"}

\* Faulty: the member starts as zero.
ZeroDepth == 0

\* The default of max_start_depth.
NoDepth == Deepest

VARIABLES
    has_byte_range, byte_range_start, byte_range_end,
    has_max_start_depth, max_start_depth,
    disabled,   \* the patterns that are disabled, as the matches of them
    pc,         \* Thread -> where its call is
    range,      \* Thread -> the argument of setByteRange(), or the settings
                \* applied so far to the native cursor
    limited,    \* Thread -> whether its native cursor has a range
    depth,      \* Thread -> the argument of setMaxStartDepth(), or the depth
                \* its native cursor is limited to
    off,        \* Thread -> the patterns disabled when its run began
    node,       \* Thread -> the node it runs on
    way,        \* Thread -> which of the two calls it makes
    left,       \* Thread -> the captures its cursor has not handed out
    hand,       \* Thread -> the captures of the result it looks at
    results,    \* Thread -> the results collected for the caller
    unchecked,  \* Thread -> results taken without a look for a cancellation
    stable      \* Thread -> no range was being set since it began to apply

byteRange == <<has_byte_range, byte_range_start, byte_range_end>>
maxDepth  == <<has_max_start_depth, max_start_depth>>
setting   == <<byteRange, maxDepth, disabled>>
cursor    == <<depth, off, node, way, left, hand, results, unchecked>>
vars      == <<setting, pc, range, limited, cursor, stable>>

SettingRange == {"set", "start", "end", "clear"}
Setting == SettingRange \cup {"hasDepth", "depth"}
Applying == {"apply", "applyStart", "applyEnd", "applyDepth", "readDepth"}
Running == {"take", "evaluate", "append"}

TypeOK ==
    /\ has_byte_range \in BOOLEAN
    /\ byte_range_start \in Offset /\ byte_range_end \in Offset
    /\ has_max_start_depth \in BOOLEAN
    /\ max_start_depth \in 0 .. Deepest
    /\ disabled \subseteq Unwanted
    /\ pc \in [Thread -> {"idle"} \cup Setting \cup Applying \cup Running]
    /\ range \in [Thread -> ByteRange]
    /\ limited \in [Thread -> BOOLEAN]
    /\ depth \in [Thread -> 0 .. Deepest]
    /\ off \in [Thread -> SUBSET Unwanted]
    /\ node \in [Thread -> Node \cup {Null}] /\ way \in [Thread -> Way]
    /\ \A t \in Thread :
          LET here == IF node[t] = Null THEN {} ELSE DOMAIN Stream[node[t]]
          IN  /\ left[t] \subseteq here /\ hand[t] \subseteq here
              /\ results[t] \in Seq((SUBSET here) \ {{}})
    /\ unchecked \in [Thread -> Nat]
    /\ stable \in [Thread -> BOOLEAN]

Init ==
    /\ has_byte_range = FALSE /\ byte_range_start = 0 /\ byte_range_end = 0
    /\ has_max_start_depth = FALSE /\ max_start_depth = NoDepth
    /\ disabled = {}
    /\ pc = [t \in Thread |-> "idle"]
    /\ range = [t \in Thread |-> NoRange]
    /\ limited = [t \in Thread |-> FALSE]
    /\ depth = [t \in Thread |-> Deepest] /\ off = [t \in Thread |-> {}]
    /\ node = [t \in Thread |-> Null] /\ way = [t \in Thread |-> "execute"]
    /\ left = [t \in Thread |-> {}] /\ hand = [t \in Thread |-> {}]
    /\ results = [t \in Thread |-> <<>>]
    /\ unchecked = [t \in Thread |-> 0]
    /\ stable = [t \in Thread |-> TRUE]

At(t, steps) == pc[t] \in steps
Goto(t, step) == pc' = [pc EXCEPT ![t] = step]

SomeoneSets == \E t \in Thread : At(t, SettingRange)

\* Whoever is applying the settings no longer sees the range at rest.
Disturb == stable' = [t \in Thread |-> stable[t] /\ ~At(t, Applying)]

\* What a cursor hands out: captures() the captures in the range, execute()
\* the matches with a capture in it, whole.
Within(k, r) == r.start <= k /\ (r.end = 0 \/ k < r.end)
NoLimit(r) == r = NoRange \/ (r.end # 0 /\ r.start > r.end)
OfMatch(n, m) == {k \in DOMAIN Stream[n] : Stream[n][k] = m}
Unlimited(n) == DOMAIN Stream[n]
InRange(n, w, r) ==
    LET inside == {k \in DOMAIN Stream[n] : Within(k, r)}
    IN  IF w = "captures" THEN inside
        ELSE UNION {OfMatch(n, Stream[n][k]) : k \in inside}

-----------------------------------------------------------------------------
(* setByteRange() and clearByteRange() *)

CallSet(t, r) ==
    /\ At(t, {"idle"})
    /\ Goto(t, "set")
    /\ range' = [range EXCEPT ![t] = r]
    /\ Disturb
    /\ UNCHANGED <<setting, limited, cursor>>

SetHas(t) ==
    /\ At(t, {"set"})
    /\ has_byte_range' = TRUE
    /\ Goto(t, "start")
    /\ UNCHANGED <<byte_range_start, byte_range_end, maxDepth, disabled, range, limited, cursor, stable>>

SetStart(t) ==
    /\ At(t, {"start"})
    /\ byte_range_start' = range[t].start
    /\ Goto(t, "end")
    /\ UNCHANGED <<has_byte_range, byte_range_end, maxDepth, disabled, range, limited, cursor, stable>>

SetEnd(t) ==
    /\ At(t, {"end"})
    /\ byte_range_end' = range[t].end
    /\ range' = [range EXCEPT ![t] = NoRange]
    /\ Goto(t, "idle")
    /\ UNCHANGED <<has_byte_range, byte_range_start, maxDepth, disabled, limited, cursor, stable>>

CallClear(t) ==
    /\ At(t, {"idle"})
    /\ Goto(t, "clear")
    /\ Disturb
    /\ UNCHANGED <<setting, range, limited, cursor>>

\* The numbers of the old range stay behind.
Clear(t) ==
    /\ At(t, {"clear"})
    /\ has_byte_range' = FALSE
    /\ Goto(t, "idle")
    /\ UNCHANGED <<byte_range_start, byte_range_end, maxDepth, disabled, range, limited, cursor, stable>>

-----------------------------------------------------------------------------
(* setMaxStartDepth() and disablePattern() *)

CallSetDepth(t, d) ==
    /\ At(t, {"idle"})
    /\ Goto(t, "hasDepth")
    /\ depth' = [depth EXCEPT ![t] = d]
    /\ UNCHANGED <<setting, range, limited, off, node, way, left, hand, results, unchecked, stable>>

SetHasDepth(t) ==
    /\ At(t, {"hasDepth"})
    /\ has_max_start_depth' = TRUE
    /\ Goto(t, "depth")
    /\ UNCHANGED <<byteRange, max_start_depth, disabled, range, limited, cursor, stable>>

SetDepth(t) ==
    /\ At(t, {"depth"})
    /\ max_start_depth' = depth[t]
    /\ depth' = [depth EXCEPT ![t] = Deepest]
    /\ Goto(t, "idle")
    /\ UNCHANGED <<byteRange, has_max_start_depth, disabled, range, limited, off, node, way,
                  left, hand, results, unchecked, stable>>

Begun(t, m) == \E k \in hand[t] \cup UNION ToSet(results[t]) : Stream[node[t]][k] = m

\* Runs that have not come to a match of the pattern may leave it out or not.
DisablePattern(t, m) ==
    /\ At(t, {"idle"})
    /\ disabled' = disabled \cup {m}
    /\ \E reached \in SUBSET {u \in Thread : left[u] # {} /\ ~Begun(u, m)} :
          left' = [u \in Thread |->
                     IF u \in reached THEN left[u] \ OfMatch(node[u], m) ELSE left[u]]
    /\ UNCHANGED <<byteRange, maxDepth, pc, range, limited, depth, off, node, way, hand,
                  results, unchecked, stable>>

-----------------------------------------------------------------------------
(* The start of execute() and captures(): a new native cursor is executed, *)
(* then applyCursorSettings() gives it the settings of the query.          *)

CallRun(t, n, w) ==
    /\ At(t, {"idle"})
    /\ Goto(t, "apply")
    /\ node' = [node EXCEPT ![t] = n]
    /\ way' = [way EXCEPT ![t] = w]
    /\ off' = [off EXCEPT ![t] = disabled]
    /\ stable' = [stable EXCEPT ![t] = ~SomeoneSets]
    /\ UNCHANGED <<setting, range, limited, depth, left, hand, results, unchecked>>

ApplyNothing(t) ==
    /\ At(t, {"apply"})
    /\ ~has_byte_range
    /\ Goto(t, "applyDepth")
    /\ UNCHANGED <<setting, range, limited, cursor, stable>>

\* Faulty: the numbers of a cleared range are applied.
ApplyStale(t) ==
    /\ At(t, {"apply"})
    /\ limited' = [limited EXCEPT ![t] = TRUE]
    /\ Goto(t, "applyStart")
    /\ UNCHANGED <<setting, range, cursor, stable>>

ApplyHas(t) ==
    /\ At(t, {"apply"})
    /\ has_byte_range
    /\ limited' = [limited EXCEPT ![t] = TRUE]
    /\ Goto(t, "applyStart")
    /\ UNCHANGED <<setting, range, cursor, stable>>

ApplyStart(t) ==
    /\ At(t, {"applyStart"})
    /\ range' = [range EXCEPT ![t].start = byte_range_start]
    /\ Goto(t, "applyEnd")
    /\ UNCHANGED <<setting, limited, cursor, stable>>

ApplyEnd(t) ==
    /\ At(t, {"applyEnd"})
    /\ range' = [range EXCEPT ![t].end = byte_range_end]
    /\ Goto(t, "applyDepth")
    /\ UNCHANGED <<setting, limited, cursor, stable>>

\* What the cursor of a run finds under its limits, without some patterns.
Visible(t, d, without) ==
    LET n == node[t]
        found == IF limited[t] /\ ~NoLimit(range[t]) THEN InRange(n, way[t], range[t])
                 ELSE Unlimited(n)
    IN  {k \in found : DepthOf[Stream[n][k]] <= d /\ Stream[n][k] \notin without}

Start(t, d) ==
    /\ depth' = [depth EXCEPT ![t] = d]
    /\ left' = [left EXCEPT ![t] = Visible(t, d, disabled)]
    /\ Goto(t, "take")
    /\ UNCHANGED <<setting, range, limited, off, node, way, hand, results, unchecked, stable>>

ApplyNoDepth(t) ==
    /\ At(t, {"applyDepth"})
    /\ ~has_max_start_depth
    /\ Start(t, Deepest)

ApplyHasDepth(t) ==
    /\ At(t, {"applyDepth"})
    /\ has_max_start_depth
    /\ Goto(t, "readDepth")
    /\ UNCHANGED <<setting, range, limited, cursor, stable>>

ApplyDepth(t) ==
    /\ At(t, {"readDepth"})
    /\ Start(t, max_start_depth)

-----------------------------------------------------------------------------
(* The loops of execute() and captures() *)

First(S) == CHOOSE k \in S : \A l \in S : k <= l
MatchAt(t, k) == Stream[node[t]][k]

Take(t) ==
    /\ At(t, {"take"})
    /\ left[t] # {}
    /\ LET k == First(left[t])
           taken == IF way[t] = "execute" THEN OfMatch(node[t], MatchAt(t, k)) ELSE {k}
       IN  /\ hand' = [hand EXCEPT ![t] = taken]
           /\ left' = [left EXCEPT ![t] = @ \ taken]
    /\ unchecked' = [unchecked EXCEPT ![t] = @ + 1]
    /\ Goto(t, "evaluate")
    /\ UNCHANGED <<setting, range, limited, depth, off, node, way, results, stable>>

InHand(t) == MatchAt(t, First(hand[t]))

Accept(t) ==
    /\ At(t, {"evaluate"})
    /\ InHand(t) \in Passes
    /\ Goto(t, "append")
    /\ UNCHANGED <<setting, range, limited, cursor, stable>>

\* Faulty: a match that fails ends the loop.
SkipRest(t) ==
    /\ At(t, {"evaluate"})
    /\ InHand(t) \notin Passes
    /\ left' = [left EXCEPT ![t] = {}]
    /\ hand' = [hand EXCEPT ![t] = {}]
    /\ Goto(t, "take")
    /\ UNCHANGED <<setting, range, limited, depth, off, node, way, results, unchecked, stable>>

\* captures() removes what is left of the match from its native cursor.
Skip(t) ==
    /\ At(t, {"evaluate"})
    /\ InHand(t) \notin Passes
    /\ left' = [left EXCEPT ![t] =
                  IF way[t] = "captures" THEN @ \ OfMatch(node[t], InHand(t)) ELSE @]
    /\ hand' = [hand EXCEPT ![t] = {}]
    /\ Goto(t, "take")
    /\ UNCHANGED <<setting, range, limited, depth, off, node, way, results, unchecked, stable>>

AppendResult(t) ==
    /\ At(t, {"append"})
    /\ results' = [results EXCEPT ![t] = Append(@, hand[t])]
    /\ hand' = [hand EXCEPT ![t] = {}]
    /\ Goto(t, "take")
    /\ UNCHANGED <<setting, range, limited, depth, off, node, way, left, unchecked, stable>>

\* Faulty: results stay in the list for the next call.
ReturnKeeping(t) ==
    /\ At(t, {"take"})
    /\ left[t] = {}
    /\ Goto(t, "idle")
    /\ range' = [range EXCEPT ![t] = NoRange]
    /\ limited' = [limited EXCEPT ![t] = FALSE]
    /\ depth' = [depth EXCEPT ![t] = Deepest] /\ off' = [off EXCEPT ![t] = {}]
    /\ node' = [node EXCEPT ![t] = Null] /\ way' = [way EXCEPT ![t] = "execute"]
    /\ unchecked' = [unchecked EXCEPT ![t] = 0]
    /\ stable' = [stable EXCEPT ![t] = TRUE]
    /\ UNCHANGED <<setting, left, hand, results>>

\* The native cursor is deleted, the list of results given to the caller.
Return(t) ==
    /\ At(t, {"take"})
    /\ left[t] = {}
    /\ Goto(t, "idle")
    /\ range' = [range EXCEPT ![t] = NoRange]
    /\ limited' = [limited EXCEPT ![t] = FALSE]
    /\ depth' = [depth EXCEPT ![t] = Deepest] /\ off' = [off EXCEPT ![t] = {}]
    /\ node' = [node EXCEPT ![t] = Null] /\ way' = [way EXCEPT ![t] = "execute"]
    /\ results' = [results EXCEPT ![t] = <<>>]
    /\ unchecked' = [unchecked EXCEPT ![t] = 0]
    /\ stable' = [stable EXCEPT ![t] = TRUE]
    /\ UNCHANGED <<setting, left, hand>>

-----------------------------------------------------------------------------
Inside(t) ==
    \/ SetHas(t) \/ SetStart(t) \/ SetEnd(t) \/ Clear(t)
    \/ SetHasDepth(t) \/ SetDepth(t)
    \/ ApplyNoDepth(t) \/ ApplyHasDepth(t) \/ ApplyDepth(t)
    \/ ApplyNothing(t) \/ ApplyHas(t) \/ ApplyStart(t) \/ ApplyEnd(t)
    \/ Take(t) \/ Accept(t) \/ Skip(t) \/ AppendResult(t) \/ Return(t)

Next ==
    \E t \in Thread :
        \/ Inside(t) \/ CallClear(t)
        \/ \E r \in Requests : CallSet(t, r)
        \/ \E d \in Depths : CallSetDepth(t, d)
        \/ \E m \in Unwanted : DisablePattern(t, m)
        \/ \E n \in Node, w \in Way : CallRun(t, n, w)

Spec == Init /\ [][Next]_vars

-----------------------------------------------------------------------------
(* What must hold *)

\* The results a query has on a node: each match whose predicates hold, or
\* each of its captures, that the limits let through; they come in source order.
Items(n, w, visible) ==
    LET passing == {k \in visible : Stream[n][k] \in Passes}
    IN  IF w = "execute" THEN {OfMatch(n, Stream[n][k]) : k \in passing}
        ELSE {{k} : k \in passing}
InSourceOrder(list) ==
    \A i, j \in DOMAIN list : i < j => First(list[i]) < First(list[j])

\* Runs of one query share its settings and nothing else: whatever other
\* threads set or run meanwhile, the list a call gives back is exactly what
\* the limits applied to its own cursor let through.  Patterns that were
\* disabled before it began are left out, those disabled since then may be,
\* each as a whole.
CompleteResults ==
    \A t \in Thread : At(t, {"take"}) /\ left[t] = {} =>
        /\ InSourceOrder(results[t])
        /\ \E since \in SUBSET (disabled \ off[t]) :
              ToSet(results[t]) =
                  Items(node[t], way[t], Visible(t, depth[t], off[t] \cup since))

\* However runs and setters overlap, a run is limited by the depth stored last,
\* and by the range set last if no range was being set while it took that over;
\* once the range was cleared, by none.  Setting one of the two never disturbs
\* the other.
LastSettingApplies ==
    [][\A t \in Thread :
          At(t, Applying) /\ pc'[t] = "take"
          => /\ depth'[t] = max_start_depth
             /\ stable[t] =>
                   /\ limited'[t] = has_byte_range
                   /\ has_byte_range =>
                         range'[t] = [start |-> byte_range_start, end |-> byte_range_end]]_vars

\* Also a run that takes the depth over while it is being set is limited by
\* no depth or by one that somebody asked for.
DepthWasRequested ==
    \A t \in Thread : At(t, Running) => depth[t] \in Depths \cup {Deepest}

\* README.md: "All classes are thread-safe".  A run is limited by nothing or by
\* a range that somebody asked for.
RangeWasRequested ==
    \A t \in Thread : At(t, Running) /\ limited[t] =>
        NoLimit(range[t]) \/ range[t] \in Requests

\* node-lifetime.rst, check 21: "query/capture loops check cancellation every
\* 100 iterations".
CancellationChecked == \A t \in Thread : unchecked[t] <= Interval
=============================================================================
