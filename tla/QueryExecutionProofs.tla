------------------------ MODULE QueryExecutionProofs ------------------------
(***************************************************************************)
(* Proofs about QueryExecution, for all nodes, streams and ranges and any  *)
(* number of threads.  The invariant says what a call has collected when   *)
(* (Collected), where the depths come from (Asked), who may see settings   *)
(* at rest (AtRest), what such a call has taken over (TakenOver), and that  *)
(* no capture it should return is lost on the way (Complete).               *)
(***************************************************************************)
EXTENDS QueryExecution, WellFoundedInduction, TLAPS

Outside == {"idle"} \cup Setting

Collected ==
    \A t \in Thread :
        /\ At(t, Outside) <=> node[t] = Null
        /\ ~At(t, Running) => left[t] = {} /\ results[t] = <<>>
        /\ At(t, {"evaluate", "append"}) <=> hand[t] # {}

\* Every depth is the one that means no limit, or an argument of a call.
Asked ==
    /\ max_start_depth \in Depths \cup {Deepest}
    /\ \A t \in Thread : depth[t] \in Depths \cup {Deepest}
    /\ ~has_max_start_depth =>
          max_start_depth = Deepest /\ \A t \in Thread : ~At(t, {"depth"})

\* Nobody sets a range while there is a call that may rely on it ...
AtRest == \A t \in Thread : stable[t] /\ At(t, Applying) => ~SomeoneSets

\* ... so what the call has copied so far is still what is set.
TakenOverBy(t) ==
    /\ pc[t] \in Outside \cup {"apply"} => ~limited[t]
    /\ stable[t] =>
          /\ pc[t] \in {"applyStart", "applyEnd"} => has_byte_range /\ limited[t]
          /\ pc[t] = "applyEnd" => range[t].start = byte_range_start
          /\ pc[t] \in {"applyDepth", "readDepth"} =>
                /\ limited[t] = has_byte_range
                /\ has_byte_range => /\ range[t].start = byte_range_start
                                     /\ range[t].end = byte_range_end
TakenOver == \A t \in Thread : TakenOverBy(t)

\* The captures that are handed out together with one of them.
Group(t, k) == IF way[t] = "execute" THEN OfMatch(node[t], MatchAt(t, k)) ELSE {k}

\* What a run can see, if these patterns were disabled before it came to them.
Seen(t, since) == Visible(t, depth[t], off[t] \cup since)

\* Every capture the run can see whose predicates hold is still to come, in
\* hand or in a result, and nothing else is; groups are never torn apart.
Progress(t, since) ==
    /\ \A k \in left[t] : k \in Seen(t, since) /\ Group(t, k) \subseteq left[t]
    /\ hand[t] # {} => \E k \in Seen(t, since) : hand[t] = Group(t, k)
    /\ \A i \in DOMAIN results[t] :
          results[t][i] \in Items(node[t], way[t], Seen(t, since))
    /\ \A k \in Seen(t, since) : MatchAt(t, k) \in Passes =>
          \/ k \in left[t] \cup hand[t]
          \/ \E i \in DOMAIN results[t] : k \in results[t][i]

\* Results lie before what is in hand, and that before what is to come.
Sorted(t) ==
    /\ InSourceOrder(results[t])
    /\ \A i \in DOMAIN results[t] :
          /\ hand[t] # {} => First(results[t][i]) < First(hand[t])
          /\ \A k \in left[t] : First(results[t][i]) < k
    /\ hand[t] # {} => \A k \in left[t] : First(hand[t]) < k

CompleteBy(t) ==
    /\ off[t] \subseteq disabled
    /\ At(t, {"append"}) => InHand(t) \in Passes
    /\ At(t, Running) =>
          Sorted(t) /\ \E since \in SUBSET (disabled \ off[t]) : Progress(t, since)
Complete == \A t \in Thread : CompleteBy(t)

Functions == DOMAIN left = Thread /\ DOMAIN hand = Thread /\ DOMAIN results = Thread

Inv == TypeOK /\ Functions /\ Collected /\ Asked /\ AtRest /\ TakenOver /\ Complete

-----------------------------------------------------------------------------
(* What a call has collected *)

Here(t) == IF node[t] = Null THEN {} ELSE DOMAIN Stream[node[t]]

\* The conjunct of TypeOK about captures.
Result(t) == (SUBSET Here(t)) \ {{}}
ResultsOK(t) == results[t] \in Seq(Result(t))
HeldOK ==
    \A t \in Thread :
        left[t] \subseteq Here(t) /\ hand[t] \subseteq Here(t) /\ ResultsOK(t)

LEMMA HeldIsType == TypeOK => HeldOK
BY DEF TypeOK, HeldOK, Here, Result, ResultsOK

LEMMA SameResults ==
  ASSUME NEW t \in Thread, node'[t] = node[t], results'[t] = results[t]
  PROVE  ResultsOK(t)' <=> ResultsOK(t)
BY DEF ResultsOK, Result, Here

LEMMA NoResults ==
  ASSUME NEW t \in Thread, results'[t] = <<>>
  PROVE  ResultsOK(t)'
<1> DEFINE R == Result(t)'
<1>1. <<>> \in Seq(R)
  <2> HIDE DEF R
  <2> QED OBVIOUS
<1> QED BY <1>1 DEF ResultsOK

LEMMA OneResultMore ==
  ASSUME NEW t \in Thread, ResultsOK(t), node'[t] = node[t],
         hand[t] \subseteq Here(t), hand[t] # {}, results'[t] = Append(results[t], hand[t])
  PROVE  ResultsOK(t)'
<1> DEFINE R == Result(t)
<1>1. Result(t)' = R /\ hand[t] \in R
  BY DEF Result, Here
<1>2. Append(results[t], hand[t]) \in Seq(R)
  <2>1. results[t] \in Seq(R)
    BY DEF ResultsOK
  <2> HIDE DEF R
  <2> QED BY <1>1, <2>1
<1> QED BY <1>1, <1>2 DEF ResultsOK

\* The steps that leave captures alone.
Settings(t) ==
    \/ CallClear(t) \/ \E r \in Requests : CallSet(t, r)
    \/ \E d \in Depths : CallSetDepth(t, d)
    \/ SetHas(t) \/ SetStart(t) \/ SetEnd(t) \/ Clear(t) \/ SetHasDepth(t) \/ SetDepth(t)
Taking(t) ==
    \/ ApplyNothing(t) \/ ApplyHas(t) \/ ApplyStart(t) \/ ApplyEnd(t) \/ ApplyHasDepth(t)
Runs(t) == Take(t) \/ Accept(t) \/ Skip(t) \/ AppendResult(t) \/ Return(t)

LEMMA NextCases ==
  ASSUME Next
  PROVE  \E t \in Thread :
            \/ Settings(t) \/ Taking(t) \/ Runs(t)
            \/ ApplyNoDepth(t) \/ ApplyDepth(t)
            \/ \E m \in Unwanted : DisablePattern(t, m)
            \/ \E n \in Node, w \in Way : CallRun(t, n, w)
BY DEF Next, Inside, Settings, Taking, Runs

\* Where these steps lead.
LEMMA SettingsGoto ==
  ASSUME NEW t \in Thread, Settings(t)
  PROVE  /\ \E s \in Outside : pc' = [pc EXCEPT ![t] = s]
         /\ At(t, Outside)
         /\ UNCHANGED <<disabled, limited, off, node, way, left, hand, results, unchecked>>
BY DEF Settings, CallClear, CallSet, CallSetDepth, SetHas, SetStart, SetEnd, Clear,
       SetHasDepth, SetDepth, At, Goto, Outside, Setting, SettingRange, setting, byteRange, maxDepth, cursor

LEMMA TakingGoto ==
  ASSUME NEW t \in Thread, Taking(t)
  PROVE  /\ \E s \in Applying : pc' = [pc EXCEPT ![t] = s]
         /\ At(t, Applying)
         /\ UNCHANGED <<setting, depth, off, node, way, left, hand, results, unchecked, stable>>
BY DEF Taking, ApplyNothing, ApplyHas, ApplyStart, ApplyEnd, ApplyHasDepth,
       At, Goto, Applying, cursor

\* A set of numbers has a least one.
LEMMA FirstOf ==
  ASSUME NEW S \in SUBSET Nat, S # {}
  PROVE  First(S) \in S /\ \A l \in S : First(S) <= l
<1>1. PICK k \in S : \A l \in S : ~(<<l, k>> \in OpToRel(<, Nat))
  BY NatLessThanWellFounded, WFMin
<1>2. ASSUME NEW l \in S, l < k
      PROVE  FALSE
  <2>1. <<l, k>> \in Nat \X Nat /\ <<l, k>>[1] < <<l, k>>[2]
    BY <1>2
  <2>2. <<l, k>> \in OpToRel(<, Nat)
    BY <2>1, Zenon DEF OpToRel
  <2> QED BY <1>1, <2>2
<1>3. \A l \in S : k <= l
  BY <1>2
<1> QED BY <1>3 DEF First

\* What a cursor finds are captures of its node.
LEMMA VisibleHere ==
  ASSUME NEW t \in Thread, NEW d, NEW without, node[t] # Null
  PROVE  Visible(t, d, without) \subseteq Here(t)
<1>1. InRange(node[t], way[t], range[t]) \subseteq DOMAIN Stream[node[t]]
  BY DEF InRange, OfMatch
<1>2. Unlimited(node[t]) = DOMAIN Stream[node[t]]
  BY DEF Unlimited
<1> QED BY <1>1, <1>2 DEF Visible, Here

\* What is taken from a cursor: some captures of the node that were left.
LEMMA TakenHere ==
  ASSUME TypeOK, Functions, Collected, NEW t \in Thread, Take(t)
  PROVE  /\ hand' = [hand EXCEPT ![t] = hand'[t]] /\ hand'[t] \subseteq Here(t) /\ hand'[t] # {}
         /\ left' = [left EXCEPT ![t] = left'[t]] /\ left'[t] \subseteq left[t]
<1>1. node[t] \in Node /\ left[t] # {} /\ left[t] \subseteq Here(t)
  BY HeldIsType DEF Take, Collected, At, TypeOK, HeldOK, Outside, Setting, SettingRange
<1>2. Here(t) = DOMAIN Stream[node[t]] /\ Here(t) \subseteq Nat
  BY <1>1, Streams, NullIsNothing DEF Here
<1>3. First(left[t]) \in Here(t)
  BY <1>1, <1>2, FirstOf
<1> DEFINE k == First(left[t])
           taken == IF way[t] = "execute" THEN OfMatch(node[t], MatchAt(t, k)) ELSE {k}
<1>4. taken \subseteq Here(t) /\ k \in taken
  BY <1>2, <1>3 DEF OfMatch, MatchAt
<1>5. hand' = [hand EXCEPT ![t] = taken] /\ left' = [left EXCEPT ![t] = left[t] \ taken]
  BY DEF Take
<1> QED BY <1>4, <1>5 DEF Functions

\* Collected, the functions, and the type of what was collected, together.
Kept == Functions /\ Collected /\ HeldOK

LEMMA KeptStep ==
  ASSUME Inv, [Next]_vars
  PROVE  Kept'
<1> USE DEF Functions, Collected, HeldOK, Here, At, Goto
<1>1. /\ pc \in [Thread -> {"idle"} \cup Setting \cup Applying \cup Running]
      /\ node \in [Thread -> Node \cup {Null}] /\ Null \notin Node /\ Kept
  BY HeldIsType, NullIsNothing DEF Inv, TypeOK, Kept
<1>2. ASSUME NEW t \in Thread, Settings(t)
      PROVE  Kept'
  BY <1>1, <1>2, SettingsGoto, SameResults, NoResults DEF Kept, Outside, Setting, SettingRange, Running
<1>3. ASSUME NEW t \in Thread, Taking(t)
      PROVE  Kept'
  BY <1>1, <1>3, TakingGoto, SameResults, NoResults DEF Kept, Outside, Setting, SettingRange, Applying, Running
<1>4. ASSUME NEW t \in Thread, ApplyNoDepth(t) \/ ApplyDepth(t)
      PROVE  Kept'
  <2>1. /\ \E d : left' = [left EXCEPT ![t] = Visible(t, d, disabled)]
        /\ pc' = [pc EXCEPT ![t] = "take"] /\ UNCHANGED <<node, hand, results>>
        /\ At(t, Applying)
    BY <1>4 DEF ApplyNoDepth, ApplyDepth, Start, Applying
  <2>2. node[t] # Null
    BY <1>1, <2>1 DEF Kept, Outside, Setting, SettingRange, Applying
  <2>3. left'[t] \subseteq Here(t)
    BY <1>1, <2>1, <2>2, VisibleHere DEF Kept
  <2> QED BY <1>1, <2>1, <2>2, <2>3, SameResults, NoResults DEF Kept, Outside, Setting, SettingRange, Applying, Running
<1>5. ASSUME NEW t \in Thread, NEW n \in Node, NEW w \in Way, CallRun(t, n, w)
      PROVE  Kept'
  <2>1. /\ pc' = [pc EXCEPT ![t] = "apply"] /\ node' = [node EXCEPT ![t] = n]
        /\ pc[t] = "idle" /\ UNCHANGED <<left, hand, results>>
    BY <1>5 DEF CallRun
  <2>2. left[t] = {} /\ hand[t] = {} /\ results[t] = <<>>
    BY <1>1, <2>1 DEF Kept, Running
  <2> QED BY <1>1, <2>1, <2>2, SameResults, NoResults DEF Kept, Outside, Setting, SettingRange, Running
<1>6. ASSUME NEW t \in Thread, NEW m \in Unwanted, DisablePattern(t, m)
      PROVE  Kept'
  <2>1. /\ UNCHANGED <<pc, node, hand, results>> /\ DOMAIN left' = Thread
        /\ \A u \in Thread : left'[u] \subseteq left[u]
    BY <1>6 DEF DisablePattern
  <2> QED BY <1>1, <2>1, SameResults, NoResults DEF Kept
<1>7. ASSUME NEW t \in Thread, Runs(t)
      PROVE  Kept'
  <2>1. At(t, Running) /\ node[t] # Null
    BY <1>1, <1>7 DEF Runs, Take, Accept, Skip, AppendResult, Return, Kept, Running,
                      Outside, Setting, SettingRange
  <2>2. CASE Take(t)
    <3>1. pc' = [pc EXCEPT ![t] = "evaluate"] /\ UNCHANGED <<node, results>>
      BY <2>2 DEF Take
    <3> QED BY <1>1, <2>1, <2>2, <3>1, TakenHere, SameResults, NoResults DEF Kept, Inv, Outside, Setting, SettingRange, Running
  <2>3. CASE Accept(t)
    <3>1. pc' = [pc EXCEPT ![t] = "append"] /\ pc[t] = "evaluate"
          /\ UNCHANGED <<node, left, hand, results>>
      BY <2>3 DEF Accept, cursor
    <3> QED BY <1>1, <2>1, <3>1, SameResults, NoResults DEF Kept, Outside, Setting, SettingRange, Running
  <2>4. CASE Skip(t)
    <3>1. /\ pc' = [pc EXCEPT ![t] = "take"] /\ UNCHANGED <<node, results>>
          /\ hand' = [hand EXCEPT ![t] = {}]
          /\ \E S : left' = [left EXCEPT ![t] = left[t] \ S]
      <4>1. CASE way[t] = "captures"
        BY <2>4, <4>1 DEF Skip
      <4>2. CASE way[t] # "captures"
        <5>1. left' = [left EXCEPT ![t] = left[t] \ {}]
          BY <2>4, <4>2 DEF Skip
        <5> QED BY <2>4, <5>1 DEF Skip
      <4> QED BY <4>1, <4>2
    <3> QED BY <1>1, <2>1, <3>1, SameResults, NoResults DEF Kept, Outside, Setting, SettingRange, Running
  <2>5. CASE AppendResult(t)
    <3>1. /\ pc' = [pc EXCEPT ![t] = "take"] /\ UNCHANGED <<node, left>>
          /\ hand' = [hand EXCEPT ![t] = {}]
          /\ results' = [results EXCEPT ![t] = Append(results[t], hand[t])]
          /\ pc[t] = "append"
      BY <2>5 DEF AppendResult
    <3>2. hand[t] \subseteq Here(t) /\ hand[t] # {} /\ ResultsOK(t)
      BY <1>1, <3>1 DEF Kept
    <3>3. ResultsOK(t)' /\ results'[t] = Append(results[t], hand[t]) /\ node'[t] = node[t]
      <4>1. results'[t] = Append(results[t], hand[t]) /\ node'[t] = node[t]
        BY <1>1, <3>1 DEF Kept
      <4> QED BY <3>2, <4>1, OneResultMore
    <3>4. \A u \in Thread : u # t => ResultsOK(u)'
      BY <1>1, <3>1, SameResults DEF Kept
    <3> QED BY <1>1, <2>1, <3>1, <3>3, <3>4 DEF Kept, Outside, Setting, SettingRange, Running
  <2>6. CASE Return(t)
    <3>1. /\ pc' = [pc EXCEPT ![t] = "idle"] /\ node' = [node EXCEPT ![t] = Null]
          /\ results' = [results EXCEPT ![t] = <<>>] /\ UNCHANGED <<left, hand>>
          /\ left[t] = {} /\ pc[t] = "take"
      BY <2>6 DEF Return
    <3> QED BY <1>1, <2>1, <3>1, SameResults, NoResults DEF Kept, Outside, Setting, SettingRange, Running
  <2> QED BY <1>7, <2>2, <2>3, <2>4, <2>5, <2>6 DEF Runs
<1>8. CASE UNCHANGED vars
  BY <1>1, <1>8, SameResults, NoResults DEF vars, cursor, Kept
<1> QED BY <1>2, <1>3, <1>4, <1>5, <1>6, <1>7, <1>8, NextCases

-----------------------------------------------------------------------------
(* Types *)

\* The other conjuncts of TypeOK.
OthersOK ==
    /\ has_byte_range \in BOOLEAN
    /\ byte_range_start \in Offset /\ byte_range_end \in Offset
    /\ has_max_start_depth \in BOOLEAN
    /\ max_start_depth \in 0 .. Deepest
    /\ disabled \subseteq Unwanted
    /\ pc \in [Thread -> {"idle"} \cup Setting \cup Applying \cup Running]
    /\ range \in [Thread -> ByteRange]
    /\ limited \in [Thread -> BOOLEAN]
    /\ depth \in [Thread -> 0 .. Deepest]
    /\ off \in [Thread -> SUBSET Unwanted]
    /\ node \in [Thread -> Node \cup {Null}] /\ way \in [Thread -> Way]
    /\ unchecked \in [Thread -> Nat]
    /\ stable \in [Thread -> BOOLEAN]

LEMMA TypeIsBoth == TypeOK <=> OthersOK /\ HeldOK
BY DEF TypeOK, OthersOK, HeldOK, Here, Result, ResultsOK

LEMMA RangesAsked == NoRange \in ByteRange /\ Requests \subseteq ByteRange
<1>1. 0 \in Offset /\ \A r \in Requests : r.start \in Offset /\ r.end \in Offset
  <2> DEFINE R == Requests \cup {NoRange}
             ends(r) == {r.start, r.end}
  <2>1. \A r \in R : ends(r) \in {ends(q) : q \in R} /\ r.start \in ends(r) /\ r.end \in ends(r)
    OBVIOUS
  <2>2. Offset = UNION {ends(q) : q \in R}
    BY DEF Offset
  <2>3. \A r \in R : r.start \in Offset /\ r.end \in Offset
    <3> HIDE DEF R, ends
    <3> QED BY <2>1, <2>2
  <2>4. NoRange \in R /\ NoRange.start = 0
    BY DEF NoRange
  <2> QED BY <2>3, <2>4
<1> QED BY <1>1, Numbers DEF ByteRange, NoRange

LEMMA OthersStep ==
  ASSUME OthersOK, [Next]_vars
  PROVE  OthersOK'
<1> USE DepthsOfMatches, RangesAsked DEF OthersOK, At, Goto, Setting, SettingRange, Applying, Running
<1>1. ASSUME NEW t \in Thread, Settings(t)
      PROVE  OthersOK'
  <2> USE DEF byteRange, maxDepth, setting, cursor
  <2>1. CASE CallClear(t) \/ Clear(t)
    BY <2>1 DEF CallClear, Clear, Disturb
  <2>2. ASSUME NEW r \in Requests, CallSet(t, r)
        PROVE  OthersOK'
    BY <2>2 DEF CallSet, Disturb
  <2>3. ASSUME NEW d \in Depths, CallSetDepth(t, d)
        PROVE  OthersOK'
    BY <2>3 DEF CallSetDepth
  <2>4. CASE SetHas(t) \/ SetStart(t) \/ SetEnd(t)
    <3>1. range[t].start \in Offset /\ range[t].end \in Offset
      BY DEF ByteRange
    <3> QED BY <2>4, <3>1 DEF SetHas, SetStart, SetEnd
  <2>5. CASE SetHasDepth(t)
    BY <2>5 DEF SetHasDepth
  <2>6. CASE SetDepth(t)
    BY <2>6 DEF SetDepth
  <2> QED BY <1>1, <2>1, <2>2, <2>3, <2>4, <2>5, <2>6 DEF Settings
<1>2. ASSUME NEW t \in Thread, Taking(t)
      PROVE  OthersOK'
  <2> USE DEF byteRange, maxDepth, setting, cursor
  <2>1. CASE ApplyNothing(t) \/ ApplyHas(t) \/ ApplyHasDepth(t)
    BY <2>1 DEF ApplyNothing, ApplyHas, ApplyHasDepth
  <2>2. CASE ApplyStart(t) \/ ApplyEnd(t)
    <3>1. \E a, b \in Offset : range' = [range EXCEPT ![t] = [start |-> a, end |-> b]]
      <4>1. range[t] \in ByteRange
        OBVIOUS
      <4>2. CASE ApplyStart(t)
        <5>1. range' = [range EXCEPT ![t] = [start |-> byte_range_start, end |-> range[t].end]]
          <6>1. [range[t] EXCEPT !.start = byte_range_start] = [start |-> byte_range_start, end |-> range[t].end]
            BY <4>1 DEF ByteRange
          <6> QED BY <4>2, <6>1 DEF ApplyStart
        <5> QED BY <4>1, <5>1 DEF ByteRange
      <4>3. CASE ApplyEnd(t)
        <5>1. range' = [range EXCEPT ![t] = [start |-> range[t].start, end |-> byte_range_end]]
          <6>1. [range[t] EXCEPT !.end = byte_range_end] = [start |-> range[t].start, end |-> byte_range_end]
            BY <4>1 DEF ByteRange
          <6> QED BY <4>3, <6>1 DEF ApplyEnd
        <5> QED BY <4>1, <5>1 DEF ByteRange
      <4> QED BY <2>2, <4>2, <4>3
    <3>2. range' \in [Thread -> ByteRange]
      BY <3>1 DEF ByteRange
    <3> QED BY <2>2, <3>2 DEF ApplyStart, ApplyEnd
  <2> QED BY <1>2, <2>1, <2>2 DEF Taking
<1>3. ASSUME NEW t \in Thread, ApplyNoDepth(t) \/ ApplyDepth(t)
      PROVE  OthersOK'
  BY <1>3 DEF ApplyNoDepth, ApplyDepth, Start, setting, byteRange, maxDepth
<1>4. ASSUME NEW t \in Thread, Runs(t)
      PROVE  OthersOK'
  <2> USE DEF byteRange, maxDepth, setting, cursor
  <2>1. CASE Take(t)
    BY <2>1 DEF Take
  <2>2. CASE Accept(t)
    BY <2>2 DEF Accept
  <2>3. CASE Skip(t)
    BY <2>3 DEF Skip
  <2>4. CASE AppendResult(t)
    BY <2>4 DEF AppendResult
  <2>5. CASE Return(t)
    BY <2>5 DEF Return, Way
  <2> QED BY <1>4, <2>1, <2>2, <2>3, <2>4, <2>5 DEF Runs
<1>5. ASSUME NEW t \in Thread, NEW m \in Unwanted, DisablePattern(t, m)
      PROVE  OthersOK'
  BY <1>5 DEF DisablePattern, byteRange, maxDepth
<1>6. ASSUME NEW t \in Thread, NEW n \in Node, NEW w \in Way, CallRun(t, n, w)
      PROVE  OthersOK'
  <2>1. (~SomeoneSets) \in BOOLEAN
    BY DEF SomeoneSets
  <2> QED BY <1>6, <2>1 DEF CallRun, setting, byteRange, maxDepth
<1>7. CASE UNCHANGED vars
  BY <1>7 DEF vars, setting, byteRange, maxDepth, cursor
<1> QED BY <1>1, <1>2, <1>3, <1>4, <1>5, <1>6, <1>7, NextCases

-----------------------------------------------------------------------------
(* The settings *)

LEMMA AskedStep ==
  ASSUME OthersOK, Asked, [Next]_vars
  PROVE  Asked'
<1> USE DEF OthersOK, Asked, At, Goto, byteRange, maxDepth, setting, cursor
<1>1. ASSUME NEW t \in Thread, Settings(t)
      PROVE  Asked'
  <2>1. CASE CallClear(t) \/ Clear(t) \/ SetHas(t) \/ SetStart(t) \/ SetEnd(t)
             \/ \E r \in Requests : CallSet(t, r)
    BY <2>1 DEF CallClear, Clear, SetHas, SetStart, SetEnd, CallSet
  <2>2. CASE SetHasDepth(t)
    BY <2>2 DEF SetHasDepth
  <2>3. CASE SetDepth(t)
    BY <2>3 DEF SetDepth
  <2>4. CASE \E d \in Depths : CallSetDepth(t, d)
    BY <2>4 DEF CallSetDepth
  <2> QED BY <1>1, <2>1, <2>2, <2>3, <2>4 DEF Settings
<1>2. ASSUME NEW t \in Thread, Taking(t)
      PROVE  Asked'
  BY <1>2, TakingGoto DEF Applying
<1>3. ASSUME NEW t \in Thread, ApplyNoDepth(t) \/ ApplyDepth(t)
      PROVE  Asked'
  BY <1>3 DEF ApplyNoDepth, ApplyDepth, Start
<1>4. ASSUME NEW t \in Thread, Runs(t)
      PROVE  Asked'
  BY <1>4 DEF Runs, Take, Accept, Skip, AppendResult, Return
<1>5. ASSUME NEW t \in Thread,
             \/ \E m \in Unwanted : DisablePattern(t, m)
             \/ \E n \in Node, w \in Way : CallRun(t, n, w)
      PROVE  Asked'
  BY <1>5 DEF DisablePattern, CallRun
<1>6. CASE UNCHANGED vars
  BY <1>6 DEF vars
<1> QED BY <1>1, <1>2, <1>3, <1>4, <1>5, <1>6, NextCases

\* A step of one thread that starts to set no range leaves no such setter behind.
LEMMA NoSetter ==
  ASSUME OthersOK, NEW t \in Thread, NEW s, s \notin SettingRange, pc' = [pc EXCEPT ![t] = s],
         ~SomeoneSets
  PROVE  ~SomeoneSets'
BY DEF OthersOK, SomeoneSets, At

LEMMA AtRestStep ==
  ASSUME OthersOK, AtRest, [Next]_vars
  PROVE  AtRest'
<1>0. /\ pc \in [Thread -> {"idle"} \cup Setting \cup Applying \cup Running]
      /\ stable \in [Thread -> BOOLEAN]
      /\ \A u \in Thread : stable[u] /\ pc[u] \in Applying => ~SomeoneSets
  BY DEF OthersOK, AtRest, At
<1>1. ASSUME NEW t \in Thread, Settings(t)
      PROVE  AtRest'
  <2>1. \/ Disturb /\ \E s \in SettingRange : pc[t] = "idle" /\ pc' = [pc EXCEPT ![t] = s]
        \/ /\ stable' = stable /\ pc[t] \in SettingRange
           /\ \E s \in Outside : pc' = [pc EXCEPT ![t] = s]
        \/ /\ stable' = stable
           /\ \E s \in {"hasDepth", "depth", "idle"} : pc' = [pc EXCEPT ![t] = s]
    BY <1>1 DEF Settings, CallClear, CallSet, CallSetDepth, SetHas, SetStart, SetEnd, Clear,
                SetHasDepth, SetDepth, At, Goto, Outside, Setting, SettingRange
  <2>2. CASE Disturb /\ \E s \in SettingRange : pc[t] = "idle" /\ pc' = [pc EXCEPT ![t] = s]
    <3>1. \A u \in Thread : stable'[u] => pc[u] \notin Applying
      BY <2>2 DEF Disturb, At
    <3>2. \A u \in Thread : pc'[u] \in Applying => pc[u] \in Applying
      BY <1>0, <2>2 DEF SettingRange, Applying
    <3> QED BY <3>1, <3>2 DEF AtRest, At
  <2>3. CASE stable' = stable /\ pc[t] \in SettingRange
             /\ \E s \in Outside : pc' = [pc EXCEPT ![t] = s]
    <3>1. SomeoneSets
      BY <2>3 DEF SomeoneSets, At
    <3>2. \A u \in Thread : pc'[u] \in Applying => pc[u] \in Applying
      BY <1>0, <2>3 DEF Outside, Setting, SettingRange, Applying
    <3> QED BY <1>0, <2>3, <3>1, <3>2 DEF AtRest, At
  <2>4. ASSUME stable' = stable, NEW s \in {"hasDepth", "depth", "idle"},
               pc' = [pc EXCEPT ![t] = s]
        PROVE  AtRest'
    <3>1. s \notin SettingRange
      BY DEF SettingRange
    <3>2. \A u \in Thread : pc'[u] \in Applying => pc[u] \in Applying
      BY <1>0, <2>4 DEF Applying
    <3> QED BY <1>0, <2>4, <3>1, <3>2, NoSetter DEF AtRest, At
  <2> QED BY <2>1, <2>2, <2>3, <2>4
<1>2. ASSUME NEW t \in Thread, NEW s, s \in Applying \cup Running \cup {"idle"},
             pc' = [pc EXCEPT ![t] = s],
             \A u \in Thread : stable'[u] /\ pc'[u] \in Applying =>
                 ~SomeoneSets \/ (stable[u] /\ pc[u] \in Applying)
      PROVE  AtRest'
  <2>1. s \notin SettingRange
    BY <1>2 DEF Applying, Running, SettingRange
  <2> QED BY <1>0, <1>2, <2>1, NoSetter DEF AtRest, At
<1>3. ASSUME NEW t \in Thread, Taking(t)
      PROVE  AtRest'
  <2>1. /\ \E s \in Applying : pc' = [pc EXCEPT ![t] = s]
        /\ pc[t] \in Applying /\ stable' = stable
    BY <1>3, TakingGoto DEF At
  <2> QED BY <1>0, <1>2, <2>1
<1>4. ASSUME NEW t \in Thread, ApplyNoDepth(t) \/ ApplyDepth(t) \/ Runs(t)
      PROVE  AtRest'
  <2>1. /\ \E s \in Running \cup {"idle"} : pc' = [pc EXCEPT ![t] = s]
        /\ stable' = stable \/ (pc' = [pc EXCEPT ![t] = "idle"]
                                /\ stable' = [stable EXCEPT ![t] = TRUE])
    BY <1>4 DEF ApplyNoDepth, ApplyDepth, Start, Runs, Take, Accept, Skip, AppendResult,
                Return, Goto, Running
  <2>2. \A u \in Thread : stable'[u] /\ pc'[u] \in Applying => stable[u] /\ pc[u] \in Applying
    BY <1>0, <2>1 DEF Applying, Running
  <2> QED BY <1>2, <2>1, <2>2
<1>5. ASSUME NEW t \in Thread, NEW n \in Node, NEW w \in Way, CallRun(t, n, w)
      PROVE  AtRest'
  <2>1. pc' = [pc EXCEPT ![t] = "apply"] /\ stable' = [stable EXCEPT ![t] = ~SomeoneSets]
    BY <1>5 DEF CallRun, Goto
  <2>2. \A u \in Thread : stable'[u] /\ pc'[u] \in Applying =>
            ~SomeoneSets \/ (stable[u] /\ pc[u] \in Applying)
    BY <1>0, <2>1
  <2> QED BY <1>2, <2>1, <2>2 DEF Applying
<1>6. ASSUME NEW t \in Thread, NEW m \in Unwanted, DisablePattern(t, m)
      PROVE  AtRest'
  BY <1>0, <1>6 DEF DisablePattern, AtRest, At, SomeoneSets
<1>7. CASE UNCHANGED vars
  BY <1>0, <1>7 DEF vars, AtRest, At, SomeoneSets
<1> QED BY <1>1, <1>3, <1>4, <1>5, <1>6, <1>7, NextCases

\* A step that leaves the settings, and what one call did with them, alone.
LEMMA TakenOverElsewhere ==
  ASSUME TakenOver, NEW t \in Thread, UNCHANGED byteRange, stable'[t] => stable[t],
         pc'[t] = pc[t], limited'[t] = limited[t], range'[t] = range[t]
  PROVE  TakenOverBy(t)'
BY DEF TakenOver, TakenOverBy, byteRange

LEMMA TakenOverStep ==
  ASSUME OthersOK, AtRest, TakenOver, [Next]_vars
  PROVE  TakenOver'
<1>0. /\ pc \in [Thread -> {"idle"} \cup Setting \cup Applying \cup Running]
      /\ stable \in [Thread -> BOOLEAN] /\ limited \in [Thread -> BOOLEAN]
      /\ range \in [Thread -> ByteRange]
  BY DEF OthersOK
<1>1. ASSUME NEW t \in Thread, Settings(t)
      PROVE  TakenOver'
  <2> USE DEF Outside, Setting, SettingRange, At, Goto
  <2>1. \/ \E d \in Depths : CallSetDepth(t, d)
        \/ SetHasDepth(t) \/ SetDepth(t)
        \/ CallClear(t) \/ \E r \in Requests : CallSet(t, r)
        \/ SetHas(t) \/ SetStart(t) \/ SetEnd(t) \/ Clear(t)
    BY <1>1 DEF Settings
  <2>2. CASE (\E d \in Depths : CallSetDepth(t, d)) \/ SetHasDepth(t) \/ SetDepth(t)
    <3>1. /\ UNCHANGED <<byteRange, limited, range, stable>> /\ pc[t] \in Outside
          /\ \E s \in Outside : pc' = [pc EXCEPT ![t] = s]
      BY <2>2 DEF CallSetDepth, SetHasDepth, SetDepth, setting, byteRange
    <3>2. /\ pc'[t] \in Outside /\ ~limited'[t]
          /\ \A u \in Thread : u # t => pc'[u] = pc[u]
      BY <1>0, <3>1 DEF TakenOver, TakenOverBy
    <3>3. TakenOverBy(t)'
      BY <3>2 DEF TakenOverBy
    <3>4. \A u \in Thread : u # t => TakenOverBy(u)'
      BY <3>1, <3>2, TakenOverElsewhere
    <3> QED BY <3>3, <3>4 DEF TakenOver
  <2>3. CASE CallClear(t) \/ \E r \in Requests : CallSet(t, r)
    <3>1. /\ UNCHANGED byteRange /\ limited' = limited /\ Disturb /\ pc[t] = "idle"
          /\ \E s \in SettingRange : pc' = [pc EXCEPT ![t] = s]
          /\ \A u \in Thread : u # t => range'[u] = range[u]
      BY <1>0, <2>3 DEF CallClear, CallSet, setting, byteRange
    <3>2. \A u \in Thread : stable'[u] => stable[u]
      BY <3>1 DEF Disturb
    <3>3. pc'[t] \in SettingRange /\ \A u \in Thread : u # t => pc'[u] = pc[u]
      BY <1>0, <3>1
    <3>4. ~limited'[t]
      BY <3>1 DEF TakenOver, TakenOverBy
    <3>5. TakenOverBy(t)'
      BY <3>3, <3>4 DEF TakenOverBy
    <3>6. \A u \in Thread : u # t => TakenOverBy(u)'
      BY <3>1, <3>2, <3>3, TakenOverElsewhere
    <3> QED BY <3>5, <3>6 DEF TakenOver
  <2>4. CASE SetHas(t) \/ SetStart(t) \/ SetEnd(t) \/ Clear(t)
    <3>1. /\ UNCHANGED <<limited, stable>> /\ pc[t] \in SettingRange
          /\ \E s \in Outside : pc' = [pc EXCEPT ![t] = s]
      BY <2>4 DEF SetHas, SetStart, SetEnd, Clear
    <3>2. \A u \in Thread : ~(stable[u] /\ pc[u] \in Applying)
      BY <3>1 DEF AtRest, SomeoneSets
    <3>3. \A u \in Thread : pc'[u] \in Applying => pc[u] \in Applying
      BY <1>0, <3>1 DEF Applying
    <3>4. \A u \in Thread : pc'[u] \in Outside \cup {"apply"} => pc[u] \in Outside \cup {"apply"}
      BY <1>0, <3>1
    <3> QED BY <3>1, <3>2, <3>3, <3>4 DEF TakenOver, TakenOverBy, Applying
  <2> QED BY <2>1, <2>2, <2>3, <2>4
<1>2. ASSUME NEW t \in Thread, Taking(t) \/ ApplyNoDepth(t) \/ ApplyDepth(t) \/ Runs(t)
                 \/ (\E n \in Node, w \in Way : CallRun(t, n, w))
      PROVE  TakenOver'
  <2>1. /\ UNCHANGED byteRange
        /\ \E s : pc' = [pc EXCEPT ![t] = s]
        /\ stable' = stable \/ \E b : stable' = [stable EXCEPT ![t] = b]
        /\ limited' = limited \/ \E b : limited' = [limited EXCEPT ![t] = b]
        /\ range' = range \/ \E r : range' = [range EXCEPT ![t] = r]
    <3>1. CASE Taking(t)
      BY <3>1 DEF Taking, ApplyNothing, ApplyHas, ApplyStart, ApplyEnd, ApplyHasDepth, Goto,
                  setting
    <3>2. CASE ApplyNoDepth(t) \/ ApplyDepth(t)
      BY <3>2 DEF ApplyNoDepth, ApplyDepth, Start, Goto, setting
    <3>3. CASE Runs(t)
      BY <3>3 DEF Runs, Take, Accept, Skip, AppendResult, Return, Goto, setting
    <3>4. CASE \E n \in Node, w \in Way : CallRun(t, n, w)
      BY <3>4 DEF CallRun, Goto, setting
    <3> QED BY <1>2, <3>1, <3>2, <3>3, <3>4
  <2>2. \A u \in Thread : u # t =>
            /\ pc'[u] = pc[u] /\ stable'[u] = stable[u]
            /\ limited'[u] = limited[u] /\ range'[u] = range[u]
    BY <1>0, <2>1
  <2>3. ASSUME NEW u \in Thread, u # t
        PROVE  TakenOverBy(u)'
    BY <2>1, <2>2, <2>3, TakenOverElsewhere
  <2>4. TakenOverBy(t)'
    <3> USE DEF TakenOverBy, At, Goto, byteRange, Outside, Setting, SettingRange
    <3>1. CASE ApplyNothing(t) \/ ApplyHas(t)
      <4>1. ~limited[t] /\ UNCHANGED <<byteRange, stable>>
        BY <3>1 DEF ApplyNothing, ApplyHas, TakenOver, TakenOverBy, setting
      <4>2. CASE ApplyNothing(t)
        <5>1. pc'[t] = "applyDepth" /\ ~limited'[t] /\ ~has_byte_range'
          BY <1>0, <4>1, <4>2 DEF ApplyNothing
        <5>2. limited'[t] \in BOOLEAN /\ has_byte_range' \in BOOLEAN
          BY <4>1, <4>2 DEF ApplyNothing, OthersOK
        <5> QED BY <5>1, <5>2
      <4>3. CASE ApplyHas(t)
        <5>1. pc'[t] = "applyStart" /\ limited'[t] /\ has_byte_range'
          BY <1>0, <4>1, <4>3 DEF ApplyHas
        <5> QED BY <5>1
      <4> QED BY <3>1, <4>2, <4>3
    <3>2. CASE ApplyStart(t)
      <4>1. pc'[t] = "applyEnd" /\ pc[t] = "applyStart" /\ range'[t].start = byte_range_start
            /\ UNCHANGED <<byteRange, limited, stable>>
        BY <1>0, <3>2 DEF ApplyStart, ByteRange, setting
      <4>2. stable[t] => has_byte_range /\ limited[t]
        BY <4>1 DEF TakenOver, TakenOverBy
      <4> QED BY <4>1, <4>2
    <3>3. CASE ApplyEnd(t)
      <4>1. pc'[t] = "applyDepth" /\ pc[t] = "applyEnd" /\ range'[t].end = byte_range_end
            /\ range'[t].start = range[t].start /\ UNCHANGED <<byteRange, limited, stable>>
        BY <1>0, <3>3 DEF ApplyEnd, ByteRange, setting
      <4>2. /\ limited[t] \in BOOLEAN /\ has_byte_range \in BOOLEAN
            /\ stable[t] => /\ has_byte_range /\ limited[t]
                            /\ range[t].start = byte_range_start
        BY <1>0, <4>1 DEF TakenOver, TakenOverBy, OthersOK
      <4>3. stable[t] => limited[t] = has_byte_range
        BY <4>2
      <4> QED BY <4>1, <4>2, <4>3
    <3>4. CASE ApplyHasDepth(t)
      BY <1>0, <3>4 DEF ApplyHasDepth, TakenOver, TakenOverBy, setting
    <3>5. CASE ApplyNoDepth(t) \/ ApplyDepth(t) \/ Take(t) \/ Accept(t) \/ Skip(t)
               \/ AppendResult(t)
      <4>1. pc'[t] \in Running
        BY <1>0, <3>5 DEF ApplyNoDepth, ApplyDepth, Start, Take, Accept, Skip, AppendResult,
                          Running
      <4> QED BY <4>1 DEF Running
    <3>6. CASE Return(t)
      BY <1>0, <3>6 DEF Return
    <3>7. CASE \E n \in Node, w \in Way : CallRun(t, n, w)
      BY <1>0, <3>7 DEF CallRun, TakenOver, TakenOverBy
    <3> QED BY <1>2, <3>1, <3>2, <3>3, <3>4, <3>5, <3>6, <3>7 DEF Taking, Runs
  <2> QED BY <2>3, <2>4 DEF TakenOver, TakenOverBy
<1>3. ASSUME NEW t \in Thread, NEW m \in Unwanted, DisablePattern(t, m)
      PROVE  TakenOver'
  BY <1>3 DEF DisablePattern, TakenOver, TakenOverBy, byteRange
<1>4. CASE UNCHANGED vars
  BY <1>4 DEF vars, setting, byteRange, TakenOver, TakenOverBy
<1> QED BY <1>1, <1>2, <1>3, <1>4, NextCases

-----------------------------------------------------------------------------
(* Complete results *)

LEMMA FirstIs ==
  ASSUME NEW S \in SUBSET Nat, NEW k \in S, \A l \in S : k <= l
  PROVE  First(S) = k
<1>1. First(S) \in S /\ First(S) <= k
  BY DEF First
<1>2. First(S) \in Nat /\ k \in Nat /\ k <= First(S)
  BY <1>1
<1> QED BY <1>1, <1>2

LEMMA Appended ==
  ASSUME NEW S, NEW s \in Seq(S), NEW e \in S
  PROVE  /\ Len(s) \in Nat /\ DOMAIN s = 1 .. Len(s)
         /\ DOMAIN Append(s, e) = 1 .. Len(s) + 1
         /\ \A i \in 1 .. Len(s) : Append(s, e)[i] = s[i]
         /\ Append(s, e)[Len(s) + 1] = e
OBVIOUS

LEMMA InGroup ==
  ASSUME NEW t \in Thread, NEW k \in DOMAIN Stream[node[t]]
  PROVE  /\ k \in Group(t, k) /\ Group(t, k) \subseteq DOMAIN Stream[node[t]]
         /\ \A l \in Group(t, k) : MatchAt(t, l) = MatchAt(t, k) /\ Group(t, l) = Group(t, k)
BY DEF Group, OfMatch, MatchAt

LEMMA VisibleWhole ==
  ASSUME NEW t \in Thread, NEW d, NEW without, NEW k \in Visible(t, d, without)
  PROVE  Group(t, k) \subseteq Visible(t, d, without) /\ k \in DOMAIN Stream[node[t]]
<1> DEFINE n == node[t]
           inside == {i \in DOMAIN Stream[n] : Within(i, range[t])}
           bound == limited[t] /\ ~NoLimit(range[t])
           found == IF bound THEN InRange(n, way[t], range[t]) ELSE Unlimited(n)
<1>1. /\ k \in found /\ DepthOf[Stream[n][k]] <= d
      /\ Stream[n][k] \notin without
  BY DEF Visible
<1>2. found \subseteq DOMAIN Stream[n]
  BY DEF InRange, OfMatch, Unlimited
<1>3. CASE way[t] = "execute"
  <2> SUFFICES ASSUME NEW l \in OfMatch(n, Stream[n][k])
               PROVE  l \in Visible(t, d, without)
    BY <1>1, <1>2, <1>3 DEF Group, MatchAt
  <2>1. l \in DOMAIN Stream[n] /\ Stream[n][l] = Stream[n][k]
    BY DEF OfMatch
  <2>2. l \in found
    <3>1. CASE bound
      <4>1. found = UNION {OfMatch(n, Stream[n][i]) : i \in inside}
        BY <1>3, <3>1 DEF InRange
      <4>2. PICK i \in inside : k \in OfMatch(n, Stream[n][i])
        BY <1>1, <4>1
      <4>3. l \in OfMatch(n, Stream[n][i])
        BY <2>1, <4>2 DEF OfMatch
      <4> QED BY <4>1, <4>2, <4>3
    <3>2. CASE ~bound
      BY <2>1, <3>2 DEF Unlimited
    <3> QED BY <3>1, <3>2
  <2> QED BY <1>1, <2>1, <2>2 DEF Visible
<1>4. CASE way[t] # "execute"
  BY <1>2, <1>1, <1>4 DEF Group
<1> QED BY <1>3, <1>4

\* What one call holds, in one formula, to say that a step leaves it alone.
Same(t) ==
    /\ pc'[t] = pc[t] /\ limited'[t] = limited[t] /\ range'[t] = range[t]
    /\ depth'[t] = depth[t] /\ off'[t] = off[t] /\ node'[t] = node[t] /\ way'[t] = way[t]
    /\ left'[t] = left[t] /\ hand'[t] = hand[t] /\ results'[t] = results[t]

LEMMA SeenSame ==
  ASSUME NEW t \in Thread, node'[t] = node[t], way'[t] = way[t], limited'[t] = limited[t],
         range'[t] = range[t]
  PROVE  /\ \A d, without : Visible(t, d, without)' = Visible(t, d, without)
         /\ depth'[t] = depth[t] /\ off'[t] = off[t] =>
               \A since : Seen(t, since)' = Seen(t, since)
         /\ \A k : Group(t, k)' = Group(t, k) /\ MatchAt(t, k)' = MatchAt(t, k)
BY DEF Visible, Seen, Group, MatchAt

LEMMA CompleteElsewhere ==
  ASSUME NEW t \in Thread, CompleteBy(t), Same(t), disabled \subseteq disabled'
  PROVE  CompleteBy(t)'
<1>1. \A since : Progress(t, since)' <=> Progress(t, since)
  BY SeenSame DEF Same, Progress
<1>2. Sorted(t)' <=> Sorted(t)
  BY DEF Same, Sorted
<1>3. InHand(t)' = InHand(t)
  BY DEF Same, InHand, MatchAt
<1> QED BY <1>1, <1>2, <1>3 DEF Same, CompleteBy, At

\* A step of one call leaves the others alone.
LEMMA OnlyOwn ==
  ASSUME OthersOK, Functions, NEW t \in Thread,
         \/ Settings(t) \/ Taking(t) \/ Runs(t) \/ ApplyNoDepth(t) \/ ApplyDepth(t)
         \/ \E n \in Node, w \in Way : CallRun(t, n, w)
  PROVE  disabled' = disabled /\ \A u \in Thread : u # t => Same(u)
<1> USE DEF OthersOK, Functions, Same, Goto
<1>1. CASE Settings(t)
  <2> USE DEF byteRange, maxDepth, setting, cursor
  <2>1. CASE CallClear(t) \/ Clear(t)
    BY <2>1 DEF CallClear, Clear
  <2>2. ASSUME NEW r \in Requests, CallSet(t, r)
        PROVE  disabled' = disabled /\ \A u \in Thread : u # t => Same(u)
    BY <2>2 DEF CallSet
  <2>3. ASSUME NEW d \in Depths, CallSetDepth(t, d)
        PROVE  disabled' = disabled /\ \A u \in Thread : u # t => Same(u)
    BY <2>3 DEF CallSetDepth
  <2>4. CASE SetHas(t) \/ SetStart(t) \/ SetEnd(t)
    BY <2>4 DEF SetHas, SetStart, SetEnd
  <2>5. CASE SetHasDepth(t) \/ SetDepth(t)
    BY <2>5 DEF SetHasDepth, SetDepth
  <2> QED BY <1>1, <2>1, <2>2, <2>3, <2>4, <2>5 DEF Settings
<1>2. CASE Taking(t)
  <2> USE DEF setting, cursor
  <2>1. CASE ApplyNothing(t) \/ ApplyHas(t) \/ ApplyHasDepth(t)
    BY <2>1 DEF ApplyNothing, ApplyHas, ApplyHasDepth
  <2>2. CASE ApplyStart(t) \/ ApplyEnd(t)
    BY <2>2 DEF ApplyStart, ApplyEnd
  <2> QED BY <1>2, <2>1, <2>2 DEF Taking
<1>3. CASE Runs(t)
  <2> USE DEF setting, cursor
  <2>1. CASE Take(t)
    BY <2>1 DEF Take
  <2>2. CASE Accept(t) \/ AppendResult(t)
    BY <2>2 DEF Accept, AppendResult
  <2>3. CASE Skip(t)
    BY <2>3 DEF Skip
  <2>4. CASE Return(t)
    BY <2>4 DEF Return
  <2> QED BY <1>3, <2>1, <2>2, <2>3, <2>4 DEF Runs
<1>4. CASE ApplyNoDepth(t) \/ ApplyDepth(t)
  BY <1>4 DEF ApplyNoDepth, ApplyDepth, Start, setting
<1>5. ASSUME NEW n \in Node, NEW w \in Way, CallRun(t, n, w)
      PROVE  disabled' = disabled /\ \A u \in Thread : u # t => Same(u)
  BY <1>5 DEF CallRun, setting
<1> QED BY <1>1, <1>2, <1>3, <1>4, <1>5

\* The steps of a run, each with what it does to what the run holds.
LEMMA StartComplete ==
  ASSUME OthersOK, Functions, Collected, Complete, NEW t \in Thread,
         ApplyNoDepth(t) \/ ApplyDepth(t)
  PROVE  CompleteBy(t)'
<1>1. PICK d \in 0 .. Deepest : Start(t, d)
  BY DepthsOfMatches DEF ApplyNoDepth, ApplyDepth, OthersOK
<1>2. At(t, Applying)
  BY DEF ApplyNoDepth, ApplyDepth, At, Applying
<1>3. hand[t] = {} /\ results[t] = <<>> /\ off[t] \subseteq disabled
  BY <1>2 DEF Collected, Complete, CompleteBy, At, Applying, Running
<1>4. /\ pc'[t] = "take" /\ depth'[t] = d /\ left'[t] = Visible(t, d, disabled)
      /\ hand'[t] = {} /\ results'[t] = <<>> /\ off'[t] = off[t] /\ disabled' = disabled
      /\ node'[t] = node[t] /\ way'[t] = way[t] /\ limited'[t] = limited[t] /\ range'[t] = range[t]
  BY <1>1, <1>3 DEF Start, Goto, OthersOK, Functions, setting
<1> PICK since : since = disabled \ off[t]
  OBVIOUS
<1>5. Seen(t, since)' = left'[t]
  <2>1. off'[t] \cup since = disabled
    BY <1>3, <1>4
  <2> QED BY <1>4, <2>1 DEF Seen, Visible
<1>6. ASSUME NEW k \in left'[t]
      PROVE  Group(t, k)' \subseteq left'[t]
  <2>1. left'[t] = Visible(t, d, disabled) /\ Group(t, k)' = Group(t, k)
    BY <1>4, SeenSame
  <2> QED BY <1>6, <2>1, VisibleWhole
<1>7. Progress(t, since)'
  <2>1. DOMAIN results'[t] = {}
    BY <1>4
  <2>2. \A k \in left'[t] : k \in Seen(t, since)' /\ Group(t, k)' \subseteq left'[t]
    BY <1>5, <1>6
  <2>3. \A k \in Seen(t, since)' : k \in left'[t] \cup hand'[t]
    BY <1>5
  <2> QED BY <1>4, <2>1, <2>2, <2>3 DEF Progress
<1>8. Sorted(t)'
  BY <1>4 DEF Sorted, InSourceOrder
<1>9. since \in SUBSET (disabled' \ off'[t])
  BY <1>4
<1> QED BY <1>3, <1>4, <1>7, <1>8, <1>9 DEF CompleteBy, At

\* What a call holds between two of its results.
LEMMA RunHolds ==
  ASSUME OthersOK, HeldOK, Functions, Collected, Complete, NEW t \in Thread, At(t, Running)
  PROVE  /\ node[t] \in Node /\ way[t] \in Way /\ off[t] \subseteq disabled
         /\ DOMAIN Stream[node[t]] \subseteq Nat
         /\ left[t] \subseteq DOMAIN Stream[node[t]] /\ hand[t] \subseteq DOMAIN Stream[node[t]]
         /\ results[t] \in Seq(SUBSET DOMAIN Stream[node[t]])
         /\ Sorted(t) /\ \E since \in SUBSET (disabled \ off[t]) : Progress(t, since)
<1>1. node[t] \in Node /\ way[t] \in Way
  BY DEF OthersOK, Collected, At, Running, Outside, Setting, SettingRange
<1>2. Here(t) = DOMAIN Stream[node[t]]
  BY <1>1, NullIsNothing DEF Here
<1>3. DOMAIN Stream[node[t]] \subseteq Nat
  BY <1>1, Streams
<1>4. results[t] \in Seq(SUBSET Here(t))
  <2> DEFINE A == Result(t)
             B == SUBSET Here(t)
  <2>1. results[t] \in Seq(A) /\ A \subseteq B
    BY DEF HeldOK, ResultsOK, Result
  <2>2. Seq(A) \subseteq Seq(B)
    <3> HIDE DEF A, B
    <3> QED BY <2>1
  <2> QED BY <2>1, <2>2
<1> QED BY <1>1, <1>2, <1>3, <1>4 DEF HeldOK, Complete, CompleteBy

LEMMA HandIsGroup ==
  ASSUME OthersOK, HeldOK, Functions, Collected, Complete, NEW t \in Thread, At(t, Running),
         hand[t] # {}
  PROVE  /\ First(hand[t]) \in hand[t] /\ hand[t] = Group(t, First(hand[t]))
         /\ \A k \in hand[t] : MatchAt(t, k) = InHand(t)
<1>1. PICK since : Progress(t, since)
  BY RunHolds
<1>2. PICK k \in Seen(t, since) : hand[t] = Group(t, k)
  BY <1>1 DEF Progress
<1>3. k \in DOMAIN Stream[node[t]]
  BY <1>2, VisibleWhole DEF Seen
<1>4. First(hand[t]) \in hand[t]
  BY RunHolds, FirstOf
<1> QED BY <1>2, <1>3, <1>4, InGroup DEF InHand

LEMMA TakeComplete ==
  ASSUME OthersOK, HeldOK, Functions, Collected, Complete, NEW t \in Thread, Take(t)
  PROVE  CompleteBy(t)'
<1> DEFINE k == First(left[t])
           g == Group(t, k)
<1>1. At(t, Running) /\ hand[t] = {} /\ left[t] # {}
  BY DEF Take, At, Running, Collected
<1>2. PICK since \in SUBSET (disabled \ off[t]) : Progress(t, since)
  BY <1>1, RunHolds
<1>3. k \in left[t] /\ \A l \in left[t] : k \in Nat /\ l \in Nat /\ k <= l
  <2>1. left[t] \in SUBSET Nat
    BY <1>1, RunHolds
  <2> QED BY <1>1, <2>1, FirstOf
<1>4. /\ pc'[t] = "evaluate" /\ left'[t] = left[t] \ g /\ hand'[t] = g
      /\ results'[t] = results[t] /\ off'[t] = off[t] /\ disabled' = disabled /\ depth'[t] = depth[t]
      /\ node'[t] = node[t] /\ way'[t] = way[t] /\ limited'[t] = limited[t] /\ range'[t] = range[t]
  BY DEF Take, Goto, OthersOK, Functions, setting, Group
<1>5. /\ \A l : Group(t, l)' = Group(t, l) /\ MatchAt(t, l)' = MatchAt(t, l)
      /\ Seen(t, since)' = Seen(t, since)
  BY <1>4, SeenSame
<1>6. k \in g /\ g \subseteq left[t] /\ g # {} /\ k \in Seen(t, since)
  <2>1. k \in DOMAIN Stream[node[t]]
    BY <1>1, <1>3, RunHolds
  <2> QED BY <1>2, <1>3, <2>1, InGroup DEF Progress
<1>7. Progress(t, since)'
  <2>1. ASSUME NEW l \in left'[t]
        PROVE  l \in Seen(t, since) /\ Group(t, l) \subseteq left'[t]
    <3>1. l \in left[t] /\ l \notin g /\ l \in DOMAIN Stream[node[t]] /\ k \in DOMAIN Stream[node[t]]
      BY <1>1, <1>3, <1>4, <2>1, RunHolds
    <3>2. ASSUME NEW x \in Group(t, l), x \in g
          PROVE  FALSE
      BY <3>1, <3>2, InGroup
    <3> QED BY <1>2, <1>4, <3>1, <3>2 DEF Progress
  <2>2. \A l \in left'[t] : l \in Seen(t, since)' /\ Group(t, l)' \subseteq left'[t]
    BY <1>5, <2>1
  <2>3. \E l \in Seen(t, since)' : hand'[t] = Group(t, l)'
    BY <1>4, <1>5, <1>6
  <2>4. \A i \in DOMAIN results'[t] :
            results'[t][i] \in Items(node'[t], way'[t], Seen(t, since)')
    BY <1>2, <1>4, <1>5 DEF Progress
  <2>5. \A l \in Seen(t, since)' : MatchAt(t, l)' \in Passes =>
            \/ l \in left'[t] \cup hand'[t]
            \/ \E i \in DOMAIN results'[t] : l \in results'[t][i]
    BY <1>1, <1>2, <1>4, <1>5 DEF Progress
  <2> QED BY <2>2, <2>3, <2>4, <2>5 DEF Progress
<1>8. Sorted(t)'
  <2>1. First(hand'[t]) = k
    <3>1. g \in SUBSET Nat /\ \A l \in g : k <= l
      BY <1>3, <1>6
    <3> QED BY <1>4, <1>6, <3>1, FirstIs
  <2>2. \A l \in left'[t] : k < l
    BY <1>3, <1>4, <1>6
  <2>3. Sorted(t)
    BY <1>1, RunHolds
  <2> QED BY <1>3, <1>4, <2>1, <2>2, <2>3 DEF Sorted
<1> QED BY <1>2, <1>1, <1>4, <1>7, <1>8, RunHolds DEF CompleteBy, At

LEMMA AcceptComplete ==
  ASSUME OthersOK, HeldOK, Functions, Collected, Complete, NEW t \in Thread, Accept(t)
  PROVE  CompleteBy(t)'
<1>1. At(t, Running)
  BY DEF Accept, At, Running
<1>2. /\ pc'[t] = "append" /\ InHand(t) \in Passes
      /\ UNCHANGED <<disabled, left, hand, results, off, depth, node, way, limited, range>>
  BY DEF Accept, Goto, OthersOK, setting, cursor
<1>3. \A since : Progress(t, since)' <=> Progress(t, since)
  BY <1>2, SeenSame DEF Progress
<1>4. (Sorted(t)' <=> Sorted(t)) /\ InHand(t)' = InHand(t)
  BY <1>2 DEF Sorted, InHand, MatchAt
<1> QED BY <1>1, <1>2, <1>3, <1>4, RunHolds DEF CompleteBy, At

LEMMA SkipComplete ==
  ASSUME OthersOK, HeldOK, Functions, Collected, Complete, NEW t \in Thread, Skip(t)
  PROVE  CompleteBy(t)'
<1>1. At(t, Running) /\ hand[t] # {}
  BY DEF Skip, At, Running, Collected
<1>2. PICK since \in SUBSET (disabled \ off[t]) : Progress(t, since)
  BY <1>1, RunHolds
<1>3. /\ pc'[t] = "take" /\ hand'[t] = {} /\ InHand(t) \notin Passes
      /\ left'[t] = IF way[t] = "captures" THEN left[t] \ OfMatch(node[t], InHand(t)) ELSE left[t]
      /\ results'[t] = results[t] /\ off'[t] = off[t] /\ disabled' = disabled /\ depth'[t] = depth[t]
      /\ node'[t] = node[t] /\ way'[t] = way[t] /\ limited'[t] = limited[t] /\ range'[t] = range[t]
  BY DEF Skip, Goto, OthersOK, Functions, setting
<1>4. /\ \A l : Group(t, l)' = Group(t, l) /\ MatchAt(t, l)' = MatchAt(t, l)
      /\ Seen(t, since)' = Seen(t, since)
  BY <1>3, SeenSame
<1>5. left'[t] \subseteq left[t]
  BY <1>3
<1>6. \A k \in left'[t] : Group(t, k) \subseteq left'[t]
  <2>1. CASE way[t] = "captures"
    BY <2>1 DEF Group
  <2>2. CASE way[t] # "captures"
    BY <1>2, <1>3, <2>2 DEF Progress
  <2> QED BY <2>1, <2>2
<1>7. ASSUME NEW k \in left[t], MatchAt(t, k) \in Passes
      PROVE  k \in left'[t]
  BY <1>3, <1>7 DEF OfMatch, MatchAt
<1>8. ASSUME NEW k \in hand[t]
      PROVE  MatchAt(t, k) \notin Passes
  BY <1>1, <1>3, HandIsGroup
<1>9. Progress(t, since)'
  <2>1. \A k \in left'[t] : k \in Seen(t, since)' /\ Group(t, k)' \subseteq left'[t]
    BY <1>2, <1>4, <1>5, <1>6 DEF Progress
  <2>2. \A i \in DOMAIN results'[t] :
            results'[t][i] \in Items(node'[t], way'[t], Seen(t, since)')
    BY <1>2, <1>3, <1>4 DEF Progress
  <2>3. \A k \in Seen(t, since)' : MatchAt(t, k)' \in Passes =>
            \/ k \in left'[t] \cup hand'[t]
            \/ \E i \in DOMAIN results'[t] : k \in results'[t][i]
    BY <1>2, <1>3, <1>4, <1>7, <1>8 DEF Progress
  <2> QED BY <1>3, <2>1, <2>2, <2>3 DEF Progress
<1>10. Sorted(t)'
  BY <1>1, <1>3, <1>5, RunHolds DEF Sorted
<1> QED BY <1>1, <1>2, <1>3, <1>9, <1>10, RunHolds DEF CompleteBy, At

LEMMA AppendComplete ==
  ASSUME OthersOK, HeldOK, Functions, Collected, Complete, NEW t \in Thread, AppendResult(t)
  PROVE  CompleteBy(t)'
<1> DEFINE n == Len(results[t])
<1>1. At(t, Running) /\ hand[t] # {} /\ InHand(t) \in Passes
  BY DEF AppendResult, At, Running, Collected, Complete, CompleteBy
<1>2. PICK since \in SUBSET (disabled \ off[t]) : Progress(t, since)
  BY <1>1, RunHolds
<1>3. /\ pc'[t] = "take" /\ hand'[t] = {} /\ left'[t] = left[t]
      /\ results'[t] = Append(results[t], hand[t])
      /\ off'[t] = off[t] /\ disabled' = disabled /\ depth'[t] = depth[t]
      /\ node'[t] = node[t] /\ way'[t] = way[t] /\ limited'[t] = limited[t] /\ range'[t] = range[t]
  BY DEF AppendResult, Goto, OthersOK, Functions, setting
<1>4. /\ \A l : Group(t, l)' = Group(t, l) /\ MatchAt(t, l)' = MatchAt(t, l)
      /\ Seen(t, since)' = Seen(t, since)
  BY <1>3, SeenSame
<1>5. /\ n \in Nat /\ DOMAIN results[t] = 1 .. n /\ DOMAIN results'[t] = 1 .. n + 1
      /\ \A i \in 1 .. n : results'[t][i] = results[t][i]
      /\ results'[t][n + 1] = hand[t]
  <2>1. results[t] \in Seq(SUBSET DOMAIN Stream[node[t]]) /\ hand[t] \in SUBSET DOMAIN Stream[node[t]]
    BY <1>1, RunHolds
  <2> QED BY <1>3, <2>1, Appended
<1>6. hand[t] \in Items(node[t], way[t], Seen(t, since))
  <2>1. PICK k \in Seen(t, since) : hand[t] = Group(t, k)
    BY <1>1, <1>2 DEF Progress
  <2>2. k \in hand[t]
    BY <2>1, VisibleWhole, InGroup DEF Seen
  <2>3. MatchAt(t, k) \in Passes
    BY <1>1, <2>2, HandIsGroup
  <2> QED BY <2>1, <2>3 DEF Items, Group, MatchAt
<1>7. Progress(t, since)'
  <2>1. \A k \in left'[t] : k \in Seen(t, since)' /\ Group(t, k)' \subseteq left'[t]
    BY <1>2, <1>3, <1>4 DEF Progress
  <2>2. ASSUME NEW i \in DOMAIN results'[t]
        PROVE  results'[t][i] \in Items(node'[t], way'[t], Seen(t, since)')
    <3>1. i \in 1 .. n \/ i = n + 1
      BY <1>5
    <3>2. results'[t][i] \in Items(node[t], way[t], Seen(t, since))
      BY <1>2, <1>5, <1>6, <3>1 DEF Progress
    <3> QED BY <1>3, <1>4, <3>2
  <2>3. ASSUME NEW k \in Seen(t, since)', MatchAt(t, k)' \in Passes
        PROVE  \/ k \in left'[t] \cup hand'[t]
               \/ \E i \in DOMAIN results'[t] : k \in results'[t][i]
    <3>1. CASE k \in left[t]
      BY <1>3, <3>1
    <3>2. CASE k \in hand[t]
      <4>1. n + 1 \in DOMAIN results'[t]
        BY <1>5
      <4> QED BY <1>5, <3>2, <4>1
    <3>3. CASE \E i \in DOMAIN results[t] : k \in results[t][i]
      BY <1>5, <3>3
    <3> QED BY <1>2, <1>4, <2>3, <3>1, <3>2, <3>3 DEF Progress
  <2> QED BY <1>3, <2>1, <2>2, <2>3 DEF Progress
<1>8. Sorted(t)'
  <2>1. Sorted(t)
    BY <1>1, RunHolds
  <2>2. ASSUME NEW i \in DOMAIN results'[t], NEW j \in DOMAIN results'[t], i < j
        PROVE  First(results'[t][i]) < First(results'[t][j])
    <3>1. i \in 1 .. n
      BY <1>5, <2>2
    <3>2. CASE j \in 1 .. n
      BY <1>5, <2>1, <2>2, <3>1, <3>2 DEF Sorted, InSourceOrder
    <3>3. CASE j = n + 1
      BY <1>1, <1>5, <2>1, <3>1, <3>3 DEF Sorted
    <3> QED BY <1>5, <3>2, <3>3
  <2>3. ASSUME NEW i \in DOMAIN results'[t], NEW k \in left'[t]
        PROVE  First(results'[t][i]) < k
    <3>1. i \in 1 .. n \/ i = n + 1
      BY <1>5
    <3> QED BY <1>1, <1>3, <1>5, <2>1, <3>1 DEF Sorted
  <2> QED BY <1>3, <2>2, <2>3 DEF Sorted, InSourceOrder
<1> QED BY <1>1, <1>2, <1>3, <1>7, <1>8, RunHolds DEF CompleteBy, At

\* The runs that have not come to matches of a pattern go on without it.
LEMMA DisableComplete ==
  ASSUME OthersOK, HeldOK, Functions, Collected, Complete, NEW t \in Thread,
         NEW m \in Unwanted, DisablePattern(t, m), NEW u \in Thread
  PROVE  CompleteBy(u)'
<1>1. PICK reached \in SUBSET {v \in Thread : left[v] # {} /\ ~Begun(v, m)} :
          left' = [v \in Thread |->
                     IF v \in reached THEN left[v] \ OfMatch(node[v], m) ELSE left[v]]
  BY DEF DisablePattern
<1>2. disabled' = disabled \cup {m}
      /\ UNCHANGED <<pc, range, limited, depth, off, node, way, hand, results>>
  BY DEF DisablePattern
<1>3. CASE u \notin reached
  <2>1. Same(u)
    BY <1>1, <1>2, <1>3 DEF Same
  <2>2. CompleteBy(u) /\ disabled \subseteq disabled'
    BY <1>2 DEF Complete
  <2> QED BY <2>1, <2>2, CompleteElsewhere
<1>4. CASE u \in reached
  <2> DEFINE mine == OfMatch(node[u], m)
  <2>1. left'[u] = left[u] \ mine /\ left[u] # {} /\ ~Begun(u, m)
    BY <1>1, <1>4
  <2>2. At(u, Running)
    BY <2>1 DEF Collected
  <2>3. PICK since \in SUBSET (disabled \ off[u]) : Progress(u, since)
    BY <2>2, RunHolds
  <2> PICK now : now = (since \cup {m}) \ off[u]
    OBVIOUS
  <2>4. /\ \A k : Group(u, k)' = Group(u, k) /\ MatchAt(u, k)' = MatchAt(u, k)
        /\ Seen(u, now)' = Seen(u, now)
    BY <1>2, SeenSame
  <2>5. Seen(u, now) = {k \in Seen(u, since) : MatchAt(u, k) # m}
    <3>1. off[u] \cup now = off[u] \cup since \cup {m}
      OBVIOUS
    <3> QED BY <3>1 DEF Seen, Visible, MatchAt
  <2>6. \A k \in DOMAIN Stream[node[u]] : k \in mine <=> MatchAt(u, k) = m
    BY DEF OfMatch, MatchAt
  <2>7. /\ \A k \in hand[u] : MatchAt(u, k) # m
        /\ \A i \in DOMAIN results[u] : \A k \in results[u][i] : MatchAt(u, k) # m
    BY <2>1 DEF Begun, ToSet, MatchAt
  <2>8. Progress(u, now)'
    <3>1. ASSUME NEW k \in left'[u]
          PROVE  k \in Seen(u, now)' /\ Group(u, k)' \subseteq left'[u]
      <4>1. k \in left[u] /\ k \in DOMAIN Stream[node[u]] /\ MatchAt(u, k) # m
        BY <2>1, <2>2, <2>6, <3>1, RunHolds
      <4>2. k \in Seen(u, since) /\ Group(u, k) \subseteq left[u]
        BY <2>3, <4>1 DEF Progress
      <4>3. \A l \in Group(u, k) : MatchAt(u, l) # m /\ l \in DOMAIN Stream[node[u]]
        BY <4>1, InGroup
      <4>4. Group(u, k) \subseteq left'[u]
        BY <2>1, <2>6, <4>2, <4>3
      <4> QED BY <2>4, <2>5, <4>1, <4>2, <4>4
    <3>2. ASSUME hand'[u] # {}
          PROVE  \E k \in Seen(u, now)' : hand'[u] = Group(u, k)'
      <4>1. PICK k \in Seen(u, since) : hand[u] = Group(u, k)
        BY <1>2, <2>3, <3>2 DEF Progress
      <4>2. k \in hand[u]
        BY <4>1, VisibleWhole, InGroup DEF Seen
      <4>3. k \in Seen(u, now)
        BY <2>5, <2>7, <4>1, <4>2
      <4> QED BY <1>2, <2>4, <4>1, <4>3
    <3>3. ASSUME NEW i \in DOMAIN results[u]
          PROVE  results[u][i] \in Items(node[u], way[u], Seen(u, now))
      <4>1. results[u][i] \in Items(node[u], way[u], Seen(u, since))
        BY <2>3 DEF Progress
      <4>2. PICK k \in Seen(u, since) : MatchAt(u, k) \in Passes /\ results[u][i] = Group(u, k)
        BY <4>1 DEF Items, Group, MatchAt
      <4>3. k \in results[u][i]
        BY <4>2, VisibleWhole, InGroup DEF Seen
      <4>4. k \in Seen(u, now)
        BY <2>5, <2>7, <4>2, <4>3
      <4> QED BY <4>2, <4>4 DEF Items, Group, MatchAt
    <3>4. ASSUME NEW k \in Seen(u, now)', MatchAt(u, k)' \in Passes
          PROVE  \/ k \in left'[u] \cup hand'[u]
                 \/ \E i \in DOMAIN results'[u] : k \in results'[u][i]
      <4>1. k \in Seen(u, since) /\ MatchAt(u, k) # m /\ MatchAt(u, k) \in Passes
        BY <2>4, <2>5, <3>4
      <4>2. k \in DOMAIN Stream[node[u]]
        BY <4>1, VisibleWhole DEF Seen
      <4> QED BY <1>2, <2>1, <2>3, <2>6, <4>1, <4>2 DEF Progress
    <3> QED BY <1>2, <2>4, <3>1, <3>2, <3>3, <3>4 DEF Progress
  <2>9. Sorted(u)'
    BY <1>2, <2>1, <2>2, RunHolds DEF Sorted
  <2>10. now \in SUBSET (disabled' \ off'[u]) /\ off'[u] \subseteq disabled'
    BY <1>2, <2>2, RunHolds
  <2>11. InHand(u)' = InHand(u) /\ CompleteBy(u)
    BY <1>2 DEF InHand, MatchAt, Complete
  <2> QED BY <1>2, <2>8, <2>9, <2>10, <2>11 DEF CompleteBy, At
<1> QED BY <1>3, <1>4

LEMMA CompleteStep ==
  ASSUME OthersOK, HeldOK, Functions, Collected, Complete, [Next]_vars
  PROVE  Complete'
<1>1. ASSUME NEW t \in Thread, CompleteBy(t)',
             \/ Settings(t) \/ Taking(t) \/ Runs(t) \/ ApplyNoDepth(t) \/ ApplyDepth(t)
             \/ \E n \in Node, w \in Way : CallRun(t, n, w)
      PROVE  Complete'
  BY <1>1, OnlyOwn, CompleteElsewhere DEF Complete
<1>2. ASSUME NEW t \in Thread, off'[t] \subseteq disabled', pc'[t] \notin Running
      PROVE  CompleteBy(t)'
  BY <1>2 DEF CompleteBy, At, Running
<1>3. ASSUME NEW t \in Thread, Settings(t) \/ Taking(t)
      PROVE  Complete'
  <2>1. pc'[t] \notin Running /\ off' = off /\ disabled' = disabled
    BY <1>3, SettingsGoto, TakingGoto DEF OthersOK, Outside, Setting, SettingRange, Applying, Running, setting
  <2>2. off'[t] \subseteq disabled'
    BY <2>1 DEF Complete, CompleteBy
  <2> QED BY <1>1, <1>2, <1>3, <2>1, <2>2
<1>4. ASSUME NEW t \in Thread, NEW n \in Node, NEW w \in Way, CallRun(t, n, w)
      PROVE  Complete'
  <2>1. pc'[t] = "apply" /\ off'[t] = disabled /\ disabled' = disabled
    BY <1>4 DEF CallRun, Goto, OthersOK, setting
  <2> QED BY <1>1, <1>2, <1>4, <2>1 DEF Running
<1>5. ASSUME NEW t \in Thread, Return(t)
      PROVE  Complete'
  <2>1. pc'[t] = "idle" /\ off'[t] = {}
    BY <1>5 DEF Return, Goto, OthersOK
  <2> QED BY <1>1, <1>2, <1>5, <2>1 DEF Running, Runs
<1>6. ASSUME NEW t \in Thread, Take(t) \/ Accept(t) \/ Skip(t) \/ AppendResult(t)
      PROVE  Complete'
  BY <1>1, <1>6, TakeComplete, AcceptComplete, SkipComplete, AppendComplete DEF Runs
<1>7. ASSUME NEW t \in Thread, ApplyNoDepth(t) \/ ApplyDepth(t)
      PROVE  Complete'
  BY <1>1, <1>7, StartComplete
<1>8. ASSUME NEW t \in Thread, NEW m \in Unwanted, DisablePattern(t, m)
      PROVE  Complete'
  BY <1>8, DisableComplete DEF Complete
<1>9. CASE UNCHANGED vars
  <2>1. disabled' = disabled /\ \A t \in Thread : Same(t)
    BY <1>9 DEF vars, setting, cursor, Same
  <2> QED BY <2>1, CompleteElsewhere DEF Complete
<1> QED BY <1>3, <1>4, <1>5, <1>6, <1>7, <1>8, <1>9, NextCases DEF Runs

LEMMA CompleteIsComplete ==
  ASSUME OthersOK, HeldOK, Functions, Collected, Complete
  PROVE  CompleteResults
<1> SUFFICES ASSUME NEW t \in Thread, At(t, {"take"}), left[t] = {}
             PROVE  /\ InSourceOrder(results[t])
                    /\ \E since \in SUBSET (disabled \ off[t]) :
                          ToSet(results[t]) =
                              Items(node[t], way[t], Visible(t, depth[t], off[t] \cup since))
  BY DEF CompleteResults
<1>1. At(t, Running) /\ hand[t] = {}
  BY DEF At, Running, Collected
<1>2. PICK since \in SUBSET (disabled \ off[t]) : Progress(t, since)
  BY <1>1, RunHolds
<1>3. ASSUME NEW x \in Items(node[t], way[t], Seen(t, since))
      PROVE  x \in ToSet(results[t])
  <2>1. PICK k \in Seen(t, since) : MatchAt(t, k) \in Passes /\ x = Group(t, k)
    BY <1>3 DEF Items, Group, MatchAt
  <2>2. PICK i \in DOMAIN results[t] : k \in results[t][i]
    BY <1>1, <1>2, <2>1 DEF Progress
  <2>3. results[t][i] \in Items(node[t], way[t], Seen(t, since))
    BY <1>2 DEF Progress
  <2>4. PICK l \in Seen(t, since) : results[t][i] = Group(t, l)
    BY <2>3 DEF Items, Group, MatchAt
  <2>5. Group(t, k) = Group(t, l)
    BY <2>2, <2>4, VisibleWhole, InGroup DEF Seen
  <2> QED BY <2>1, <2>4, <2>5 DEF ToSet
<1>4. ToSet(results[t]) = Items(node[t], way[t], Seen(t, since))
  BY <1>2, <1>3 DEF Progress, ToSet
<1> QED BY <1>1, <1>4, RunHolds DEF Seen, Sorted

-----------------------------------------------------------------------------
(* The theorems *)

LEMMA InitInv == Init => Inv
<1> SUFFICES ASSUME Init PROVE Inv
  OBVIOUS
<1>1. OthersOK
  <2>1. NoRange \in ByteRange /\ 0 \in Offset
    <3>1. NoRange.start \in Offset /\ NoRange.start = 0
      BY RangesAsked DEF ByteRange, NoRange
    <3> QED BY <3>1, RangesAsked
  <2>2. "execute" \in Way /\ Deepest \in 0 .. Deepest
    BY DepthsOfMatches DEF Way
  <2> QED BY <2>1, <2>2 DEF Init, OthersOK, NoDepth
<1>2. HeldOK
  <2>1. \A t \in Thread : ResultsOK(t)
    <3> SUFFICES ASSUME NEW t \in Thread PROVE results[t] \in Seq(Result(t))
      BY DEF ResultsOK
    <3> DEFINE R == Result(t)
    <3>1. <<>> \in Seq(R)
      <4> HIDE DEF R
      <4> QED OBVIOUS
    <3> QED BY <3>1 DEF Init
  <2> QED BY <2>1 DEF Init, HeldOK
<1>3. Functions /\ Collected /\ Asked /\ AtRest /\ TakenOver
  BY DEF Init, Functions, Collected, Asked, AtRest, TakenOver, TakenOverBy, At,
         Outside, Setting, SettingRange, Applying,
         Running, NoDepth
<1>4. Complete
  BY DEF Init, Complete, CompleteBy, At, Running
<1> QED BY <1>1, <1>2, <1>3, <1>4, TypeIsBoth DEF Inv

LEMMA NextInv == Inv /\ [Next]_vars => Inv'
<1> SUFFICES ASSUME Inv, [Next]_vars PROVE Inv'
  OBVIOUS
<1>1. OthersOK
  BY TypeIsBoth DEF Inv
<1>2. OthersOK' /\ Asked' /\ AtRest' /\ TakenOver'
  BY <1>1, OthersStep, AskedStep, AtRestStep, TakenOverStep DEF Inv
<1>3. Kept' /\ Complete'
  BY <1>1, TypeIsBoth, KeptStep, CompleteStep DEF Inv
<1>4. TypeOK' <=> OthersOK' /\ HeldOK'
  BY DEF TypeOK, OthersOK, HeldOK, Here, Result, ResultsOK
<1> QED BY <1>2, <1>3, <1>4 DEF Inv, Kept

\* The invariant the properties below follow from.
THEOREM Invariant == Spec => []Inv
BY InitInv, NextInv, PTL DEF Spec

\* What a call holds and returns are captures of the node it was called with,
\* and nobody's cursor has any when no call is under way.
THEOREM TypesOK == Spec => []TypeOK
<1>1. Inv => TypeOK
  BY DEF Inv
<1> QED BY <1>1, Invariant, PTL

\* Whatever other threads set, disable or run meanwhile, execute() and captures()
\* give back, in source order, every match or capture that the limits of their
\* own cursor let through and whose predicates hold, and nothing else.
THEOREM ResultsComplete == Spec => []CompleteResults
<1>1. Inv => CompleteResults
  BY TypeIsBoth, CompleteIsComplete DEF Inv
<1> QED BY <1>1, Invariant, PTL

\* setMaxStartDepth() stores the flag before the number: a run in between is
\* limited by an older number, which means no limit before the first call.
THEOREM DepthAsked == Spec => []DepthWasRequested
<1>1. Inv => DepthWasRequested
  BY DEF Inv, Asked, DepthWasRequested
<1> QED BY <1>1, Invariant, PTL

\* applyCursorSettings() reads members one after the other without a lock: a
\* run takes over the depth stored last whatever happens meanwhile, and the
\* range set last unless one is being set.
THEOREM SettingsTakenOver == Spec => LastSettingApplies
<1> DEFINE Good == \A t \in Thread :
                      At(t, Applying) /\ pc'[t] = "take"
                      => /\ depth'[t] = max_start_depth
                         /\ stable[t] =>
                               /\ limited'[t] = has_byte_range
                               /\ has_byte_range =>
                                     range'[t] = [start |-> byte_range_start,
                                                  end |-> byte_range_end]
<1>1. Inv /\ [Next]_vars => [Good]_vars
  <2> SUFFICES ASSUME Inv, Next, NEW t \in Thread, At(t, Applying), pc'[t] = "take"
               PROVE  /\ depth'[t] = max_start_depth
                      /\ stable[t] =>
                            /\ limited'[t] = has_byte_range
                            /\ has_byte_range =>
                                  range'[t] = [start |-> byte_range_start,
                                               end |-> byte_range_end]
    OBVIOUS
  <2>1. OthersOK
    BY TypeIsBoth DEF Inv
  <2>2. ApplyNoDepth(t) \/ ApplyDepth(t)
    <3>1. PICK u \in Thread :
            \/ Settings(u) \/ Taking(u) \/ Runs(u)
            \/ ApplyNoDepth(u) \/ ApplyDepth(u)
            \/ \E m \in Unwanted : DisablePattern(u, m)
            \/ \E n \in Node, w \in Way : CallRun(u, n, w)
      BY NextCases
    <3>2. pc \in [Thread -> {"idle"} \cup Setting \cup Applying \cup Running]
          /\ pc[t] \in Applying
      BY <2>1 DEF OthersOK, At
    <3>3. u = t
      <4>1. pc' = pc \/ \E s : pc' = [pc EXCEPT ![u] = s]
        <5>1. CASE Settings(u) \/ Taking(u)
          BY <5>1, SettingsGoto, TakingGoto
        <5>2. CASE Runs(u)
          BY <5>2 DEF Runs, Take, Accept, Skip, AppendResult, Return, Goto
        <5>3. CASE ApplyNoDepth(u) \/ ApplyDepth(u)
          BY <5>3 DEF ApplyNoDepth, ApplyDepth, Start, Goto
        <5>4. CASE (\E m \in Unwanted : DisablePattern(u, m))
                   \/ \E n \in Node, w \in Way : CallRun(u, n, w)
          BY <5>4 DEF DisablePattern, CallRun, Goto
        <5> QED BY <3>1, <5>1, <5>2, <5>3, <5>4
      <4> QED BY <3>2, <4>1 DEF Applying
    <3>4. ~Settings(t)
      BY <3>2, SettingsGoto DEF Outside, Setting, SettingRange, Applying, At
    <3>5. ~Taking(t)
      BY <3>2, TakingGoto DEF Applying
    <3>6. ~Runs(t)
      BY <3>2 DEF Runs, Take, Accept, Skip, AppendResult, Return, At, Applying
    <3>7. ~(\E m \in Unwanted : DisablePattern(t, m))
          /\ ~(\E n \in Node, w \in Way : CallRun(t, n, w))
      BY <3>2 DEF DisablePattern, CallRun, At, Applying
    <3> QED BY <3>1, <3>3, <3>4, <3>5, <3>6, <3>7
  <2>3. /\ limited' = limited /\ range' = range
        /\ pc[t] \in {"applyDepth", "readDepth"}
        /\ depth'[t] = max_start_depth
    <3>1. CASE ApplyNoDepth(t)
      BY <2>1, <3>1 DEF ApplyNoDepth, Start, At, OthersOK, Inv, Asked
    <3>2. CASE ApplyDepth(t)
      BY <2>1, <3>2 DEF ApplyDepth, Start, At, OthersOK
    <3> QED BY <2>2, <3>1, <3>2
  <2>4. ASSUME stable[t]
        PROVE  /\ limited'[t] = has_byte_range
               /\ has_byte_range =>
                     range'[t] = [start |-> byte_range_start, end |-> byte_range_end]
    <3>1. range[t] \in ByteRange
      BY <2>1 DEF OthersOK
    <3>2. limited[t] = has_byte_range
          /\ (has_byte_range =>
                 range[t].start = byte_range_start /\ range[t].end = byte_range_end)
      BY <2>3, <2>4 DEF Inv, TakenOver, TakenOverBy
    <3> QED BY <2>3, <3>1, <3>2 DEF ByteRange
  <2> QED BY <2>3, <2>4
<1>2. LastSettingApplies <=> [][Good]_vars
  BY DEF LastSettingApplies
<1> QED BY <1>1, <1>2, Invariant, PTL DEF Spec
=============================================================================
