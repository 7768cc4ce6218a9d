--------------------- MODULE QueryCursorIterationProofs ---------------------
(***************************************************************************)
(* Proofs about QueryCursorIteration, for all streams, limits, intervals   *)
(* and any number of threads.  The invariant says who is inside the mutex  *)
(* (Locks), whose owner is stored (Owners), how long a cancellation can    *)
(* wait (Waiting), where each capture of the stream is (Results), and that *)
(* what was given lies before what may still be (SourceOrder).             *)
(***************************************************************************)
EXTENDS QueryCursorIteration, WellFoundedInduction, TLAPS

Locked == {"native", "owner", "take", "check", "evaluate", "build"}
Deciding == {"check", "evaluate", "build"}

Locks == \A t \in Thread : pc[t] \in Locked => mutex = t
Arguments == \A t \in Thread : pc[t] \in {"exec", "native", "owner"} => node[t] \in Node

\* The native cursor runs on the node whose owner is stored, but for the moment
\* between the two stores of exec().
Owners ==
    /\ (\A t \in Thread : ~At(t, "owner")) => tree = running
    /\ \A t \in Thread : At(t, "owner") => running = node[t]

\* A cancelled thread has taken at most as many results as there are between
\* the last look and where it is.
Waiting ==
    \A t \in Thread :
        /\ t \notin cancelled => late[t] = 0
        /\ late[t] <= Interval
        /\ ~At(t, "check") =>
              IF checked[t] % Interval = 0 THEN late[t] < Interval
              ELSE late[t] < checked[t] % Interval

\* The calls that change the limits.
Limiting(t) ==
    \/ \E kind \in RangeKind : ClearLimit(t, kind)
    \/ \E l \in Limits : SetLimit(t, l.kind, l.within)

\* The captures that are taken together, and whether a limit let one through.
Group(k) == IF way = "match" THEN OfMatch(MatchAt(k)) ELSE {k}
Through(k) == \E l \in inForce : LetsThrough(l, k)
InHands == UNION {hand[t] : t \in Thread}

\* What a call has in hand was taken together and let through.
Hands ==
    \A t \in Thread :
        /\ hand[t] # {} => pc[t] \in Deciding
        /\ pc[t] \in Deciding => \E k \in Positions : hand[t] = Group(k) /\ Through(k)
        /\ At(t, "build") => \A k \in hand[t] : MatchAt(k) \in Passes

\* What was taken with a capture does not come again.
Spent ==
    \A k \in Positions :
        given[k] = 1 \/ k \in lost \/ k \in InHands => Group(k) \cap left = {}
HandsFree == \A k \in InHands : given[k] = 0 /\ k \notin lost
Given ==
    \A k \in Positions :
        /\ given[k] \in {0, 1}
        /\ given[k] = 1 => k \notin lost /\ MatchAt(k) \in Passes /\ Through(k)
NotGiven ==
    \A k \in Positions : given[k] = 0 =>
        \/ MatchAt(k) \notin Passes
        \/ k \in left \cup lost \cup InHands
        \/ \E l \in inForce : ~LetsThrough(l, k)
LimitsAsked == limits = asked /\ asked \in inForce

Results == LimitsAsked /\ Hands /\ Spent /\ HandsFree /\ Given /\ NotGiven

\* Captures taken one by one: those given, the one in hand, those to come.
SourceOrder ==
    way = "capture" =>
        /\ \A k \in Positions, j \in left \cup InHands : given[k] = 1 => k < j
        /\ \A k \in InHands, j \in left : k < j

Inv == TypeOK /\ Locks /\ Arguments /\ Owners /\ Waiting /\ Results /\ SourceOrder

-----------------------------------------------------------------------------
(* Who is where *)

\* The mutex has one owner at a time: for each step of Next.
LEMMA LocksStep ==
  ASSUME TypeOK, Locks, [Next]_vars
  PROVE  Locks'
<1> USE DEF Locks, Locked, At, Goto, native, wanted, history
<1>1. /\ pc \in [Thread -> Steps] /\ Null \notin Thread
  BY NullIsNothing DEF TypeOK
<1>2. ASSUME NEW t \in Thread, NEW n \in Node, CallExec(t, n)
      PROVE  Locks'
  BY <1>1, <1>2 DEF CallExec
<1>3. ASSUME NEW t \in Thread, Lock(t)
      PROVE  Locks'
  BY <1>1, <1>3 DEF Lock, LockExec, LockNext, Acquire
<1>4. ASSUME NEW t \in Thread, Inside(t)
      PROVE  Locks'
  <2>1. CASE StartNative(t)
    BY <1>1, <2>1 DEF StartNative
  <2>2. CASE Take(t)
    BY <1>1, <2>2 DEF Take
  <2>3. CASE NotCancelled(t) \/ Accept(t) \/ Skip(t)
    BY <1>1, <2>3 DEF NotCancelled, Accept, Skip
  <2>4. CASE StoreOwner(t) \/ Exhausted(t) \/ Cancelled(t) \/ Give(t) \/ Abandon(t)
    <3>1. At(t, pc[t]) /\ pc[t] \in Locked /\ mutex' = Null /\ pc' = [pc EXCEPT ![t] = "idle"]
      BY <2>4 DEF StoreOwner, Exhausted, Cancelled, Give, Abandon, Return
    <3> QED BY <1>1, <3>1
  <2> QED BY <1>4, <2>1, <2>2, <2>3, <2>4 DEF Inside
<1>5. ASSUME NEW t \in Thread, CallNext(t)
      PROVE  Locks'
  BY <1>1, <1>5 DEF CallNext
<1>6. ASSUME NEW t \in Thread,
             \/ Cancel(t) \/ Limiting(t)
             \/ \E m \in Match : RemoveMatch(t, m)
      PROVE  Locks'
  BY <1>6 DEF Cancel, Limiting, ClearLimit, SetLimit, SetNative, RemoveMatch
<1>7. CASE UNCHANGED vars
  BY <1>7 DEF vars
<1> QED BY <1>2, <1>3, <1>4, <1>5, <1>6, <1>7 DEF Next, Limiting

\* exec() keeps its argument until the owner is stored.
LEMMA ArgumentsStep ==
  ASSUME TypeOK, Arguments, [Next]_vars
  PROVE  Arguments'
<1> USE DEF Arguments, At, Goto, native, wanted, history
<1>1. /\ pc \in [Thread -> Steps] /\ node \in [Thread -> Node \cup {Null}]
  BY DEF TypeOK
<1>2. ASSUME NEW t \in Thread, NEW n \in Node, CallExec(t, n)
      PROVE  Arguments'
  BY <1>1, <1>2 DEF CallExec
<1>3. ASSUME NEW t \in Thread, Lock(t)
      PROVE  Arguments'
  BY <1>1, <1>3 DEF Lock, LockExec, LockNext
<1>4. ASSUME NEW t \in Thread, Inside(t)
      PROVE  Arguments'
  <2>1. CASE StartNative(t)
    BY <1>1, <2>1 DEF StartNative
  <2>2. CASE Take(t)
    BY <1>1, <2>2 DEF Take
  <2>3. CASE NotCancelled(t) \/ Accept(t) \/ Skip(t)
    BY <1>1, <2>3 DEF NotCancelled, Accept, Skip
  <2>4. CASE StoreOwner(t)
    BY <1>1, <2>4 DEF StoreOwner, Return
  <2>5. CASE Exhausted(t) \/ Cancelled(t) \/ Give(t) \/ Abandon(t)
    BY <1>1, <2>5 DEF Exhausted, Cancelled, Give, Abandon, Return
  <2> QED BY <1>4, <2>1, <2>2, <2>3, <2>4, <2>5 DEF Inside
<1>5. ASSUME NEW t \in Thread, CallNext(t)
      PROVE  Arguments'
  BY <1>1, <1>5 DEF CallNext
<1>6. ASSUME NEW t \in Thread,
             \/ Cancel(t) \/ Limiting(t)
             \/ \E m \in Match : RemoveMatch(t, m)
      PROVE  Arguments'
  BY <1>6 DEF Cancel, Limiting, ClearLimit, SetLimit, SetNative, RemoveMatch
<1>7. CASE UNCHANGED vars
  BY <1>7 DEF vars
<1> QED BY <1>2, <1>3, <1>4, <1>5, <1>6, <1>7 DEF Next, Limiting

\* exec() changes node and owner inside the mutex, so that no other call sees
\* one without the other.
LEMMA OwnersStep ==
  ASSUME TypeOK, Locks, Arguments, Owners, [Next]_vars
  PROVE  Owners'
<1> USE DEF Owners, At, Goto, native, wanted, history
<1>1. /\ pc \in [Thread -> Steps] /\ node \in [Thread -> Node \cup {Null}]
  BY DEF TypeOK
<1>2. ASSUME NEW t \in Thread, NEW n \in Node, CallExec(t, n)
      PROVE  Owners'
  BY <1>1, <1>2 DEF CallExec
<1>3. ASSUME NEW t \in Thread, Lock(t)
      PROVE  Owners'
  BY <1>1, <1>3 DEF Lock, LockExec, LockNext
<1>4. ASSUME NEW t \in Thread, Inside(t)
      PROVE  Owners'
  <2>1. CASE StartNative(t)
    <3>1. \A u \in Thread : u # t => pc[u] # "owner"
      BY <2>1 DEF Locks, Locked, StartNative
    <3> QED BY <1>1, <2>1, <3>1 DEF StartNative
  <2>2. CASE StoreOwner(t)
    <3>1. \A u \in Thread : u # t => pc[u] # "owner"
      BY <2>2 DEF Locks, Locked, StoreOwner
    <3>2. running = node[t] /\ tree' = node[t] /\ running' = running
          /\ \A u \in Thread : pc'[u] # "owner"
      BY <1>1, <2>2, <3>1 DEF StoreOwner, Return
    <3> QED BY <3>2
  <2>3. CASE Take(t)
    BY <1>1, <2>3 DEF Take
  <2>4. CASE NotCancelled(t) \/ Accept(t) \/ Skip(t)
    BY <1>1, <2>4 DEF NotCancelled, Accept, Skip
  <2>5. CASE Exhausted(t) \/ Cancelled(t) \/ Give(t) \/ Abandon(t)
    BY <1>1, <2>5 DEF Exhausted, Cancelled, Give, Abandon, Return
  <2> QED BY <1>4, <2>1, <2>2, <2>3, <2>4, <2>5 DEF Inside
<1>5. ASSUME NEW t \in Thread, CallNext(t)
      PROVE  Owners'
  BY <1>1, <1>5 DEF CallNext
<1>6. ASSUME NEW t \in Thread,
             \/ Cancel(t) \/ Limiting(t)
             \/ \E m \in Match : RemoveMatch(t, m)
      PROVE  Owners'
  BY <1>6 DEF Cancel, Limiting, ClearLimit, SetLimit, SetNative, RemoveMatch
<1>7. CASE UNCHANGED vars
  BY <1>7 DEF vars
<1> QED BY <1>2, <1>3, <1>4, <1>5, <1>6, <1>7 DEF Next, Limiting

-----------------------------------------------------------------------------
(* Cancellations *)

\* Counting on takes the remainder one up, or back to 0.
LEMMA NextRemainder ==
  ASSUME NEW c \in Nat, NEW n \in Nat \ {0}
  PROVE  /\ c % n \in 0 .. n - 1
         /\ (c + 1) % n = IF c % n = n - 1 THEN 0 ELSE (c % n) + 1
<1> DEFINE q == c \div n
           r == c % n
<1>1. r \in 0 .. n - 1
  OBVIOUS
<1>2. q \in Nat
  OBVIOUS
<1>3. c = n * q + r
  BY SMTT(30)
<1> HIDE DEF q, r
<1>4. CASE r = n - 1
  <2>1. n * (q + 1) = n * q + n
    BY <1>2
  <2>2. c + 1 = n * (q + 1) + 0 /\ q + 1 \in Nat /\ 0 \in 0 .. n - 1 /\ c + 1 \in Nat
    BY <1>1, <1>2, <1>3, <1>4, <2>1
  <2>3. (c + 1) % n = 0
    <3> DEFINE a == c + 1
               p == q + 1
    <3>1. a \in Nat /\ p \in Nat /\ a = n * p + 0
      BY <2>2
    <3> HIDE DEF a, p
    <3>2. a % n = 0
      BY <3>1
    <3> QED BY <3>2 DEF a
  <2> QED BY <1>1, <1>4, <2>3 DEF r
<1>5. CASE r # n - 1
  <2>1. c + 1 = n * q + (r + 1) /\ r + 1 \in 0 .. n - 1 /\ c + 1 \in Nat
    BY <1>1, <1>2, <1>3, <1>5
  <2>2. (c + 1) % n = r + 1
    <3> DEFINE a == c + 1
               s == r + 1
    <3>1. a \in Nat /\ s \in 0 .. n - 1 /\ a = n * q + s
      BY <2>1
    <3> HIDE DEF a, s
    <3>2. a % n = s
      BY <1>2, <3>1
    <3> QED BY <3>2 DEF a, s
  <2> QED BY <1>1, <1>5, <2>2 DEF r
<1> QED BY <1>4, <1>5

\* A look for a cancellation comes every Interval results.
LEMMA WaitingStep ==
  ASSUME TypeOK, Waiting, [Next]_vars
  PROVE  Waiting'
<1> USE DEF Waiting, At, Goto, native, wanted, history
<1>1. /\ pc \in [Thread -> Steps] /\ late \in [Thread -> Nat]
      /\ checked \in [Thread -> Nat] /\ Interval \in Nat \ {0}
      /\ \A t \in Thread : checked[t] % Interval \in 0 .. Interval - 1
      /\ 0 % Interval = 0
  <2>1. Interval \in Nat \ {0}
    BY PositiveInterval
  <2>2. 0 % Interval = 0
    BY <2>1
  <2> QED BY <2>1, <2>2, NextRemainder DEF TypeOK
<1>2. ASSUME NEW t \in Thread, NEW n \in Node, CallExec(t, n)
      PROVE  Waiting'
  BY <1>1, <1>2 DEF CallExec
<1>3. ASSUME NEW t \in Thread, Lock(t)
      PROVE  Waiting'
  BY <1>1, <1>3 DEF Lock, LockExec, LockNext
<1>4. ASSUME NEW t \in Thread, Inside(t)
      PROVE  Waiting'
  <2>1. CASE StartNative(t)
    BY <1>1, <2>1 DEF StartNative
  <2>2. CASE StoreOwner(t) \/ Exhausted(t) \/ Give(t) \/ Abandon(t)
    BY <1>1, <2>2 DEF StoreOwner, Exhausted, Give, Abandon, Return
  <2>3. CASE Cancelled(t)
    BY <1>1, <2>3 DEF Cancelled, Return
  <2>4. CASE NotCancelled(t)
    BY <1>1, <2>4 DEF NotCancelled
  <2>5. CASE Accept(t) \/ Skip(t)
    BY <1>1, <2>5 DEF Accept, Skip
  <2>6. CASE Take(t)
    <3> DEFINE r == checked[t] % Interval
    <3>1. /\ pc[t] = "take" /\ cancelled' = cancelled
          /\ checked' = [checked EXCEPT ![t] = @ + 1]
          /\ late' = [late EXCEPT ![t] = IF t \in cancelled THEN @ + 1 ELSE @]
          /\ pc' = [pc EXCEPT ![t] = IF r = 0 THEN "check" ELSE "evaluate"]
      BY <2>6 DEF Take
    <3>2. /\ r \in 0 .. Interval - 1
          /\ (checked[t] + 1) % Interval = IF r = Interval - 1 THEN 0 ELSE r + 1
      BY <1>1, NextRemainder
    <3>3. IF r = 0 THEN late[t] < Interval ELSE late[t] < r
      BY <3>1
    <3> HIDE DEF r
    <3>4. ASSUME NEW u \in Thread, u # t
          PROVE  pc'[u] = pc[u] /\ checked'[u] = checked[u] /\ late'[u] = late[u]
      BY <1>1, <3>1, <3>4
    <3>5. /\ checked'[t] = checked[t] + 1
          /\ late'[t] = IF t \in cancelled THEN late[t] + 1 ELSE late[t]
          /\ pc'[t] = IF r = 0 THEN "check" ELSE "evaluate"
      BY <1>1, <3>1
    <3>6. /\ t \notin cancelled => late'[t] = 0
          /\ late'[t] <= Interval
          /\ r # 0 => IF checked'[t] % Interval = 0 THEN late'[t] < Interval
                      ELSE late'[t] < checked'[t] % Interval
      BY <1>1, <3>2, <3>3, <3>5
    <3> QED BY <3>1, <3>4, <3>5, <3>6
  <2> QED BY <1>4, <2>1, <2>2, <2>3, <2>4, <2>5, <2>6 DEF Inside
<1>5. ASSUME NEW t \in Thread, CallNext(t)
      PROVE  Waiting'
  BY <1>1, <1>5 DEF CallNext
<1>6. ASSUME NEW t \in Thread, Cancel(t)
      PROVE  Waiting'
  BY <1>1, <1>6 DEF Cancel
<1>7. ASSUME NEW t \in Thread,
             \/ Limiting(t)
             \/ \E m \in Match : RemoveMatch(t, m)
      PROVE  Waiting'
  BY <1>7 DEF Limiting, ClearLimit, SetLimit, SetNative, RemoveMatch
<1>8. CASE UNCHANGED vars
  BY <1>8 DEF vars
<1> QED BY <1>2, <1>3, <1>4, <1>5, <1>6, <1>7, <1>8 DEF Next, Limiting

-----------------------------------------------------------------------------
(* Captures that are taken together *)

\* A nonempty set of positions has a first one.
LEMMA FirstOf ==
  ASSUME NEW S \in SUBSET Nat, S # {}
  PROVE  Min(S) \in S /\ \A k \in S : Min(S) <= k
<1>1. PICK k \in S : \A l \in S : ~(<<l, k>> \in OpToRel(<, Nat))
  BY NatLessThanWellFounded, WFMin
<1>2. ASSUME NEW l \in S, l < k
      PROVE  FALSE
  <2>1. <<l, k>> \in Nat \X Nat /\ <<l, k>>[1] < <<l, k>>[2]
    BY <1>2
  <2>2. <<l, k>> \in OpToRel(<, Nat)
    BY <2>1, Zenon DEF OpToRel
  <2> QED BY <1>1, <2>2
<1>3. \A l \in S : k <= l
  BY <1>2
<1> QED BY <1>3 DEF Min

\* Captures are numbered.
LEMMA PositionsAreNat == TypeOK => Positions \subseteq Nat
<1> SUFFICES ASSUME TypeOK, running # Null, NEW k \in DOMAIN Stream[running]
             PROVE  k \in Nat
  BY DEF Positions
<1>1. Stream[running] \in Seq(Match)
  BY Streams DEF TypeOK
<1> QED BY <1>1

\* Every capture is in its group, and a group is the group of each of its
\* captures: taken, limited and accepted together.
LEMMA Groups ==
  ASSUME NEW k \in Positions
  PROVE  /\ k \in Group(k) /\ Group(k) \subseteq Positions
         /\ \A j \in Group(k) : Group(j) = Group(k) /\ MatchAt(j) = MatchAt(k)
         /\ \A l, j : j \in Group(k) => (LetsThrough(l, j) <=> LetsThrough(l, k))
         /\ \A j \in Positions : Group(j) = Group(k) \/ Group(j) \cap Group(k) = {}
BY DEF Group, OfMatch, LetsThrough, Allowed

\* As long as the native cursor is not started again, groups stay.
LEMMA SamePlaces ==
  ASSUME running' = running, way' = way
  PROVE  /\ Positions' = Positions
         /\ \A k : Group(k)' = Group(k) /\ MatchAt(k)' = MatchAt(k)
         /\ \A l, k : LetsThrough(l, k)' = LetsThrough(l, k)
BY DEF Positions, Group, OfMatch, MatchAt, LetsThrough, Allowed

\* Only the call inside the mutex has something in hand.
LEMMA OneHand ==
  ASSUME TypeOK, Locks, Hands
  PROVE  /\ \A t, u \in Thread : hand[t] # {} /\ hand[u] # {} => t = u
         /\ \A t, u \in Thread : t # u /\ pc[t] \in Locked => hand[u] = {}
         /\ mutex = Null => InHands = {}
         /\ \A t \in Thread : pc[t] \in Locked => InHands = hand[t]
<1>1. \A t \in Thread : hand[t] # {} => mutex = t /\ t # Null
  BY NullIsNothing DEF Locks, Locked, Hands, Deciding
<1>2. \A t \in Thread : pc[t] \in Locked => mutex = t
  BY DEF Locks
<1> QED BY <1>1, <1>2 DEF InHands

\* The call in hand decides about captures of one match.
LEMMA InHandIs ==
  ASSUME Hands, NEW t \in Thread, pc[t] \in Deciding
  PROVE  hand[t] # {} /\ hand[t] \subseteq Positions
         /\ \A k \in hand[t] : MatchAt(k) = InHand(t) /\ hand[t] = Group(k) /\ Through(k)
<1>1. PICK k \in Positions : hand[t] = Group(k) /\ Through(k)
  BY DEF Hands
<1>2. k \in hand[t] /\ hand[t] \subseteq Positions
      /\ \A j \in hand[t] : Group(j) = hand[t] /\ MatchAt(j) = MatchAt(k)
      /\ \A l : \A i \in hand[t] : LetsThrough(l, i) <=> LetsThrough(l, k)
  BY <1>1, Groups
<1>3. (CHOOSE j \in hand[t] : TRUE) \in hand[t]
  BY <1>2
<1>4. InHand(t) = MatchAt(k)
  BY <1>2, <1>3 DEF InHand
<1> QED BY <1>1, <1>2, <1>4 DEF Through

-----------------------------------------------------------------------------
(* Steps that move no capture *)

\* What a step may do that leaves the native cursor and the history alone.
Quiet ==
    /\ UNCHANGED <<native, given, lost, wanted, hand>>
    /\ \A t \in Thread :
          /\ hand[t] # {} => pc'[t] \in Deciding
          /\ pc'[t] \in Deciding => pc[t] \in Deciding
          /\ pc'[t] = "build" => pc[t] = "build" \/ InHand(t) \in Passes

\* A quiet step keeps the results.
LEMMA QuietStep ==
  ASSUME TypeOK, Results, Quiet
  PROVE  Results'
<1>1. UNCHANGED <<running, left, limits, way, given, lost, asked, inForce, hand>>
  BY DEF Quiet, native, wanted
<1>2. /\ Positions' = Positions
      /\ \A k : Group(k)' = Group(k) /\ MatchAt(k)' = MatchAt(k)
      /\ \A l, k : LetsThrough(l, k)' = LetsThrough(l, k)
  BY <1>1, SamePlaces
<1>3. InHands' = InHands
  BY <1>1 DEF InHands
<1>4. \A k : Through(k)' = Through(k)
  BY <1>1, <1>2 DEF Through
<1>5. Hands'
  <2> SUFFICES ASSUME NEW t \in Thread
               PROVE  /\ hand[t] # {} => pc'[t] \in Deciding
                      /\ pc'[t] \in Deciding => \E k \in Positions : hand[t] = Group(k) /\ Through(k)
                      /\ pc'[t] = "build" => \A k \in hand[t] : MatchAt(k) \in Passes
    BY <1>1, <1>2, <1>4 DEF Hands, At
  <2>1. /\ hand[t] # {} => pc'[t] \in Deciding
        /\ pc'[t] \in Deciding => \E k \in Positions : hand[t] = Group(k) /\ Through(k)
    BY DEF Quiet, Results, Hands
  <2>2. ASSUME pc'[t] = "build"
        PROVE  \A k \in hand[t] : MatchAt(k) \in Passes
    <3>1. CASE pc[t] = "build"
      BY <3>1 DEF Results, Hands, At
    <3>2. CASE InHand(t) \in Passes
      <4>1. pc[t] \in Deciding
        BY <2>2 DEF Quiet, Deciding
      <4> QED BY <3>2, <4>1, InHandIs DEF Results
    <3> QED BY <2>2, <3>1, <3>2 DEF Quiet
  <2> QED BY <2>1, <2>2
<1>6. LimitsAsked' /\ Spent' /\ HandsFree' /\ Given' /\ NotGiven'
  BY <1>1, <1>2, <1>3, <1>4 DEF Results, LimitsAsked, Spent, HandsFree, Given, NotGiven
<1> QED BY <1>5, <1>6 DEF Results

\* A quiet step keeps the types of what it leaves alone.
LEMMA QuietTypes ==
  ASSUME TypeOK, UNCHANGED <<native, given, lost, wanted, hand>>,
         tree' \in Node \cup {Null}, mutex' \in Thread \cup {Null}, pc' \in [Thread -> Steps],
         node' \in [Thread -> Node \cup {Null}], checked' \in [Thread -> Nat],
         cancelled' \in SUBSET Thread, late' \in [Thread -> Nat]
  PROVE  TypeOK'
<1>1. UNCHANGED <<running, left, limits, way, given, lost, asked, inForce, hand>>
  BY DEF native, wanted
<1>2. Positions' = Positions
  BY <1>1, SamePlaces
<1> QED BY <1>1, <1>2 DEF TypeOK

-----------------------------------------------------------------------------
(* The steps one by one: types and results *)

CoreInv == TypeOK /\ Locks /\ Arguments /\ Owners /\ Results
CoreInvNext == TypeOK' /\ Results'

\* A call begins: it has not read anything yet.
LEMMA CallStep ==
  ASSUME CoreInv, NEW t \in Thread, CallNext(t) \/ \E n \in Node : CallExec(t, n)
  PROVE  CoreInvNext
<1>1. /\ At(t, "idle") /\ pc \in [Thread -> Steps]
      /\ \E s \in {"next", "exec"} : pc' = [pc EXCEPT ![t] = s]
      /\ UNCHANGED <<native, tree, mutex, hand, checked, cancelled, late, history>>
  BY DEF CallNext, CallExec, Goto, CoreInv, TypeOK
<1>2. node' \in [Thread -> Node \cup {Null}] /\ pc' \in [Thread -> Steps]
  BY <1>1 DEF CallNext, CallExec, CoreInv, TypeOK, Steps
<1>3. TypeOK'
  <2>1. /\ tree \in Node \cup {Null} /\ mutex \in Thread \cup {Null}
        /\ checked \in [Thread -> Nat] /\ cancelled \in SUBSET Thread /\ late \in [Thread -> Nat]
    BY DEF CoreInv, TypeOK
  <2> QED BY <1>1, <1>2, <2>1, QuietTypes DEF CoreInv, history
<1>4. Quiet
  BY <1>1 DEF Quiet, CoreInv, Results, Hands, Deciding, At, history
<1> QED BY <1>3, <1>4, QuietStep DEF CoreInv, CoreInvNext

\* A call takes the mutex.
LEMMA LockStep ==
  ASSUME CoreInv, NEW t \in Thread, Lock(t)
  PROVE  CoreInvNext
<1>1. /\ pc[t] \in {"exec", "next"} /\ pc \in [Thread -> Steps]
      /\ \E s \in {"native", "take"} : pc' = [pc EXCEPT ![t] = s]
      /\ mutex' = t
      /\ UNCHANGED <<native, tree, node, hand, checked, cancelled, late, history>>
  BY DEF Lock, LockExec, LockNext, Acquire, Goto, At, CoreInv, TypeOK
<1>2. pc' \in [Thread -> Steps]
  BY <1>1 DEF Steps
<1>3. TypeOK'
  <2>1. /\ tree \in Node \cup {Null} /\ node \in [Thread -> Node \cup {Null}]
        /\ checked \in [Thread -> Nat] /\ cancelled \in SUBSET Thread /\ late \in [Thread -> Nat]
    BY DEF CoreInv, TypeOK
  <2> QED BY <1>1, <1>2, <2>1, QuietTypes DEF CoreInv, history
<1>4. Quiet
  BY <1>1 DEF Quiet, CoreInv, Results, Hands, Deciding, At, history
<1> QED BY <1>3, <1>4, QuietStep DEF CoreInv, CoreInvNext

\* exec() begins anew; no call has anything in hand.
LEMMA StartNativeStep ==
  ASSUME CoreInv, NEW t \in Thread, StartNative(t)
  PROVE  CoreInvNext
<1>1. /\ pc[t] = "native" /\ running' = node[t] /\ left' = DOMAIN Stream[node[t]]
      /\ way' \in {"match", "capture"}
      /\ given' = [k \in DOMAIN Stream[node[t]] |-> 0] /\ lost' = {} /\ inForce' = {asked}
      /\ pc' = [pc EXCEPT ![t] = "owner"]
      /\ UNCHANGED <<limits, asked, tree, mutex, node, hand, checked, cancelled, late>>
  BY DEF StartNative, At, Goto
<1>2. node[t] \in Node /\ node[t] # Null
  BY <1>1, NullIsNothing DEF CoreInv, Arguments
<1>3. Positions' = DOMAIN Stream[node[t]]
  BY <1>1, <1>2 DEF Positions
<1>4. \A u \in Thread : hand[u] = {}
  <2>1. hand[t] = {}
    BY <1>1 DEF CoreInv, Results, Hands, Deciding
  <2> QED BY <1>1, <2>1, OneHand DEF CoreInv, Results, Locked
<1>5. TypeOK'
  <2>1. /\ running' \in Node \cup {Null} /\ left' \in SUBSET (Positions')
        /\ given' \in [Positions' -> Nat] /\ lost' \in SUBSET (Positions')
        /\ inForce' \subseteq [Kind -> Within]
        /\ hand' \in [Thread -> SUBSET (Positions')] /\ pc' \in [Thread -> Steps]
    BY <1>1, <1>2, <1>3, <1>4 DEF CoreInv, TypeOK, Steps
  <2>2. /\ tree' \in Node \cup {Null} /\ limits' \in [Kind -> Within]
        /\ asked' \in [Kind -> Within] /\ mutex' \in Thread \cup {Null}
        /\ node' \in [Thread -> Node \cup {Null}] /\ checked' \in [Thread -> Nat]
        /\ cancelled' \in SUBSET Thread /\ late' \in [Thread -> Nat]
    BY <1>1 DEF CoreInv, TypeOK
  <2> QED BY <1>1, <2>1, <2>2 DEF TypeOK
<1>6. InHands' = {}
  BY <1>1, <1>4 DEF InHands
<1>7. Hands'
  <2>1. \A u \in Thread : pc[u] \notin Deciding
    BY <1>4, InHandIs DEF CoreInv, Results
  <2>2. \A u \in Thread : hand'[u] = {} /\ pc'[u] \notin Deciding
    BY <1>1, <1>4, <2>1 DEF Deciding, CoreInv, TypeOK
  <2> QED BY <2>2 DEF Hands, Deciding, At
<1>8. LimitsAsked'
  BY <1>1 DEF CoreInv, Results, LimitsAsked
<1>9. \A k \in Positions' : given'[k] = 0 /\ k \in left' /\ k \notin lost'
  BY <1>1, <1>3
<1>10. Spent' /\ HandsFree' /\ Given' /\ NotGiven'
  BY <1>1, <1>6, <1>9 DEF Spent, HandsFree, Given, NotGiven
<1> QED BY <1>5, <1>7, <1>8, <1>10 DEF Results, CoreInvNext

\* exec() ends with the owner stored.
LEMMA StoreOwnerStep ==
  ASSUME CoreInv, NEW t \in Thread, StoreOwner(t)
  PROVE  CoreInvNext
<1>1. /\ pc[t] = "owner" /\ pc' = [pc EXCEPT ![t] = "idle"] /\ mutex' = Null
      /\ hand' = [hand EXCEPT ![t] = {}] /\ checked' = [checked EXCEPT ![t] = 0]
      /\ tree' = node[t] /\ node' = [node EXCEPT ![t] = Null]
      /\ UNCHANGED <<native, cancelled, late, history>>
  BY DEF StoreOwner, Return, At, Goto
<1>2. /\ hand[t] = {} /\ hand \in [Thread -> SUBSET Positions] /\ pc \in [Thread -> Steps]
      /\ node \in [Thread -> Node \cup {Null}] /\ checked \in [Thread -> Nat]
      /\ cancelled \in SUBSET Thread /\ late \in [Thread -> Nat]
  BY <1>1 DEF CoreInv, TypeOK, Results, Hands, Deciding
<1>3. hand' = hand
  BY <1>1, <1>2
<1>4. TypeOK'
  <2>1. /\ tree' \in Node \cup {Null} /\ mutex' \in Thread \cup {Null} /\ pc' \in [Thread -> Steps]
        /\ node' \in [Thread -> Node \cup {Null}] /\ checked' \in [Thread -> Nat]
        /\ cancelled' \in SUBSET Thread /\ late' \in [Thread -> Nat]
    BY <1>1, <1>2 DEF Steps
  <2> QED BY <1>1, <1>3, <2>1, QuietTypes DEF CoreInv, history
<1>5. Quiet
  BY <1>1, <1>2, <1>3 DEF Quiet, CoreInv, Results, Hands, Deciding, At, history
<1> QED BY <1>4, <1>5, QuietStep DEF CoreInv, CoreInvNext

\* Looking for a cancellation, and predicates that hold: nothing moves.
LEMMA CheckStep ==
  ASSUME CoreInv, NEW t \in Thread, NotCancelled(t) \/ Accept(t)
  PROVE  CoreInvNext
<1>1. /\ pc[t] \in Deciding /\ pc \in [Thread -> Steps]
      /\ \/ pc' = [pc EXCEPT ![t] = "evaluate"]
         \/ pc' = [pc EXCEPT ![t] = "build"] /\ InHand(t) \in Passes
      /\ UNCHANGED <<native, tree, mutex, node, hand, checked, cancelled, late, history>>
  BY DEF NotCancelled, Accept, Deciding, At, Goto, CoreInv, TypeOK
<1>2. pc' \in [Thread -> Steps]
  BY <1>1 DEF Steps
<1>3. TypeOK'
  <2>1. /\ tree \in Node \cup {Null} /\ node \in [Thread -> Node \cup {Null}]
        /\ mutex \in Thread \cup {Null}
        /\ checked \in [Thread -> Nat] /\ cancelled \in SUBSET Thread /\ late \in [Thread -> Nat]
    BY DEF CoreInv, TypeOK
  <2> QED BY <1>1, <1>2, <2>1, QuietTypes DEF CoreInv, history
<1>4. Quiet
  BY <1>1 DEF Quiet, CoreInv, Results, Hands, Deciding, At, history
<1> QED BY <1>3, <1>4, QuietStep DEF CoreInv, CoreInvNext

\* A cancellation is only noted.
LEMMA CancelStep ==
  ASSUME CoreInv, NEW t \in Thread, Cancel(t)
  PROVE  CoreInvNext
<1>1. /\ cancelled' = cancelled \cup {t}
      /\ UNCHANGED <<native, tree, mutex, pc, node, hand, checked, late, history>>
  BY DEF Cancel
<1>2. TypeOK'
  <2>1. /\ tree \in Node \cup {Null} /\ node \in [Thread -> Node \cup {Null}]
        /\ mutex \in Thread \cup {Null} /\ pc \in [Thread -> Steps]
        /\ checked \in [Thread -> Nat] /\ cancelled' \in SUBSET Thread /\ late \in [Thread -> Nat]
    BY <1>1 DEF CoreInv, TypeOK
  <2> QED BY <1>1, <2>1, QuietTypes DEF CoreInv, history
<1>3. Quiet
  BY <1>1 DEF Quiet, CoreInv, Results, Hands, Deciding, At, history
<1> QED BY <1>2, <1>3, QuietStep DEF CoreInv, CoreInvNext

\* The first capture that the limits let through is taken with its group; what
\* the native cursor passes over was left out by limits that are in force.
LEMMA TakeStep ==
  ASSUME CoreInv, NEW t \in Thread, Take(t)
  PROVE  CoreInvNext
<1> DEFINE k == Min(ToCome)
           taken == Group(k)
<1>1. /\ pc[t] = "take" /\ ToCome # {}
      /\ hand' = [hand EXCEPT ![t] = taken] /\ left' = {l \in left : l > k} \ taken
      /\ \E s \in {"check", "evaluate"} : pc' = [pc EXCEPT ![t] = s]
      /\ checked' = [checked EXCEPT ![t] = @ + 1]
      /\ late' = [late EXCEPT ![t] = IF t \in cancelled THEN @ + 1 ELSE @]
      /\ UNCHANGED <<running, limits, way, tree, mutex, node, cancelled,
                     given, lost, asked, inForce>>
  BY DEF Take, Group, At, Goto, history, wanted
<1>2. /\ left \subseteq Positions /\ Positions \subseteq Nat
  BY PositionsAreNat DEF CoreInv, TypeOK
<1>3. k \in left /\ k \in Positions /\ LetsThrough(limits, k)
      /\ \A l \in left : l < k => ~LetsThrough(limits, l)
  <2>1. ToCome \in SUBSET Nat /\ ToCome \subseteq left
    BY <1>2 DEF ToCome
  <2>2. k \in ToCome /\ \A l \in ToCome : k <= l
    BY <1>1, <2>1, FirstOf
  <2> HIDE DEF k
  <2>3. \A l \in left : l < k => l \notin ToCome
    BY <1>2, <2>1, <2>2
  <2> QED BY <1>2, <2>1, <2>2, <2>3 DEF ToCome
<1> HIDE DEF k
<1>4. /\ k \in taken /\ taken \subseteq Positions
      /\ \A j \in taken : Group(j) = taken /\ MatchAt(j) = MatchAt(k)
      /\ \A j \in Positions : Group(j) = taken \/ Group(j) \cap taken = {}
  BY <1>3, Groups
<1>5. limits \in inForce /\ Through(k)
  BY <1>3 DEF CoreInv, Results, LimitsAsked, Through
<1> HIDE DEF taken
<1>6. /\ Positions' = Positions
      /\ \A j : Group(j)' = Group(j) /\ MatchAt(j)' = MatchAt(j)
      /\ \A l, j : LetsThrough(l, j)' = LetsThrough(l, j)
      /\ \A j : Through(j)' = Through(j)
  BY <1>1, SamePlaces DEF Through
<1>7. InHands = {} /\ InHands' = taken
  <2>1. hand \in [Thread -> SUBSET Positions] /\ hand[t] = {}
    BY <1>1 DEF CoreInv, TypeOK, Results, Hands, Deciding
  <2>2. \A u \in Thread : hand[u] = {}
    BY <1>1, <2>1, OneHand DEF CoreInv, Results, Locked
  <2>3. \A u \in Thread : hand'[u] = IF u = t THEN taken ELSE {}
    BY <1>1, <2>1, <2>2
  <2> QED BY <2>2, <2>3 DEF InHands
<1>8. TypeOK'
  <2>1. /\ pc \in [Thread -> Steps] /\ checked \in [Thread -> Nat] /\ late \in [Thread -> Nat]
        /\ hand \in [Thread -> SUBSET Positions]
    BY DEF CoreInv, TypeOK
  <2>2. /\ pc' \in [Thread -> Steps] /\ checked' \in [Thread -> Nat] /\ late' \in [Thread -> Nat]
        /\ hand' \in [Thread -> SUBSET Positions] /\ left' \in SUBSET Positions
    <3>1. pc' \in [Thread -> Steps]
      BY <1>1, <2>1 DEF Steps
    <3>2. checked' \in [Thread -> Nat] /\ late' \in [Thread -> Nat]
      BY <1>1, <2>1
    <3>3. hand' \in [Thread -> SUBSET Positions] /\ left' \in SUBSET Positions
      BY <1>1, <1>2, <1>4, <2>1
    <3> QED BY <3>1, <3>2, <3>3
  <2> QED BY <1>1, <1>6, <2>2 DEF CoreInv, TypeOK
<1>9. Hands'
  <2>1. /\ pc \in [Thread -> Steps] /\ hand \in [Thread -> SUBSET Positions]
        /\ pc'[t] \in {"check", "evaluate"} /\ hand'[t] = taken
        /\ \A u \in Thread : u # t => pc'[u] = pc[u] /\ hand'[u] = hand[u]
    BY <1>1 DEF CoreInv, TypeOK
  <2>2. Through(k) /\ taken = Group(k)
    BY <1>4, <1>5
  <2> QED BY <1>3, <1>6, <2>1, <2>2 DEF Hands, Deciding, At, CoreInv, Results
<1>10. Spent'
  <2>1. left' \subseteq left /\ left' \cap taken = {}
    BY <1>1
  <2>2. ASSUME NEW j \in Positions, given[j] = 1 \/ j \in lost \/ j \in taken
        PROVE  Group(j) \cap left' = {}
    <3>1. CASE j \in taken
      BY <1>4, <2>1, <3>1
    <3>2. CASE given[j] = 1 \/ j \in lost
      BY <2>1, <3>2 DEF CoreInv, Results, Spent
    <3> QED BY <2>2, <3>1, <3>2
  <2> QED BY <1>1, <1>6, <1>7, <2>2 DEF Spent
<1>11. HandsFree'
  <2>1. ASSUME NEW j \in taken
        PROVE  given[j] = 0 /\ j \notin lost
    <3>1. j \in Positions /\ k \in Group(j) /\ k \in left
      BY <1>3, <1>4
    <3>2. given[j] # 1 /\ j \notin lost
      BY <3>1 DEF CoreInv, Results, Spent
    <3> QED BY <3>1, <3>2 DEF CoreInv, Results, Given
  <2> QED BY <1>1, <1>7, <2>1 DEF HandsFree
<1>12. Given' /\ LimitsAsked'
  BY <1>1, <1>6 DEF CoreInv, Results, Given, LimitsAsked
<1>13. NotGiven'
  <2>1. ASSUME NEW j \in left, j \notin left', j \notin taken
        PROVE  ~LetsThrough(limits, j)
    <3>1. j \in Nat /\ k \in Nat /\ ~(j > k) /\ j # k
      BY <1>1, <1>2, <1>3, <1>4, <2>1
    <3> QED BY <1>3, <3>1
  <2>2. ASSUME NEW j \in Positions, given[j] = 0
        PROVE  \/ MatchAt(j) \notin Passes
               \/ j \in left' \cup lost \cup taken
               \/ \E l \in inForce : ~LetsThrough(l, j)
    BY <1>5, <1>7, <2>1, <2>2 DEF CoreInv, Results, NotGiven
  <2> QED BY <1>1, <1>6, <1>7, <2>2 DEF NotGiven
<1> QED BY <1>8, <1>9, <1>10, <1>11, <1>12, <1>13 DEF Results, CoreInvNext

\* A call ends with nothing in hand and the mutex released.
LEMMA ReturnTypes ==
  ASSUME TypeOK, NEW t \in Thread, Return(t), UNCHANGED <<running, way, limits, tree, node, wanted>>,
         left' \subseteq left, given' \in [Positions -> Nat], lost' \subseteq Positions,
         cancelled' \in SUBSET Thread, late' \in [Thread -> Nat]
  PROVE  TypeOK'
<1>1. /\ Positions' = Positions
      /\ UNCHANGED <<running, way, limits, tree, node, asked, inForce>>
  BY SamePlaces DEF wanted
<1>2. /\ pc' \in [Thread -> Steps] /\ mutex' = Null
      /\ hand' \in [Thread -> SUBSET Positions] /\ checked' \in [Thread -> Nat]
  BY DEF Return, Goto, TypeOK, Steps
<1> QED BY <1>1, <1>2 DEF TypeOK

\* A call that returns was the only one with something in hand.
LEMMA ReturnHands ==
  ASSUME CoreInv, NEW t \in Thread, pc[t] \in Locked, Return(t)
  PROVE  Hands' /\ InHands' = {}
<1>1. /\ hand \in [Thread -> SUBSET Positions] /\ pc \in [Thread -> Steps]
      /\ hand' = [hand EXCEPT ![t] = {}] /\ pc' = [pc EXCEPT ![t] = "idle"]
  BY DEF CoreInv, TypeOK, Return, Goto
<1>2. \A u \in Thread : u # t => hand[u] = {}
  BY OneHand DEF CoreInv, Results
<1>3. \A u \in Thread : u # t => pc[u] \notin Deciding
  BY <1>2, InHandIs DEF CoreInv, Results
<1>4. \A u \in Thread : hand'[u] = {} /\ pc'[u] \notin Deciding
  BY <1>1, <1>2, <1>3 DEF Deciding
<1> QED BY <1>4 DEF Hands, InHands, Deciding, At

\* The limits in force left out all that remains.
LEMMA ExhaustedStep ==
  ASSUME CoreInv, NEW t \in Thread, Exhausted(t)
  PROVE  CoreInvNext
<1>1. /\ pc[t] = "take" /\ ToCome = {} /\ left' = {} /\ Return(t)
      /\ UNCHANGED <<running, limits, way, tree, node, cancelled, late,
                     given, lost, asked, inForce>>
  BY DEF Exhausted, At, history, wanted
<1>2. /\ Positions' = Positions
      /\ \A j : Group(j)' = Group(j) /\ MatchAt(j)' = MatchAt(j)
      /\ \A l, j : LetsThrough(l, j)' = LetsThrough(l, j)
      /\ \A j : Through(j)' = Through(j)
  BY <1>1, SamePlaces DEF Through
<1>3. TypeOK'
  BY <1>1, ReturnTypes DEF CoreInv, TypeOK, wanted
<1>4. Hands' /\ InHands' = {}
  BY <1>1, ReturnHands DEF Locked
<1>5. InHands = {}
  <2>1. hand[t] = {}
    BY <1>1 DEF CoreInv, Results, Hands, Deciding
  <2> QED BY <1>1, <2>1, OneHand DEF CoreInv, Results, Locked
<1>6. \A j \in left : ~LetsThrough(limits, j)
  BY <1>1 DEF ToCome
<1>7. Spent' /\ HandsFree' /\ Given' /\ LimitsAsked'
  BY <1>1, <1>2, <1>4 DEF CoreInv, Results, Spent, HandsFree, Given, LimitsAsked
<1>8. NotGiven'
  <2>1. limits \in inForce
    BY DEF CoreInv, Results, LimitsAsked
  <2> QED BY <1>1, <1>2, <1>4, <1>5, <1>6, <2>1 DEF CoreInv, Results, NotGiven
<1> QED BY <1>3, <1>4, <1>7, <1>8 DEF Results, CoreInvNext

\* A call fails: what it has in hand is lost.
LEMMA FailStep ==
  ASSUME CoreInv, NEW t \in Thread, Cancelled(t) \/ Abandon(t)
  PROVE  CoreInvNext
<1>1. /\ pc[t] \in Deciding /\ Return(t) /\ lost' = lost \cup hand[t]
      /\ UNCHANGED <<running, left, limits, way, tree, node, given, asked, inForce>>
  BY DEF Cancelled, Abandon, Deciding, At, native, wanted
<1>2. cancelled' \in SUBSET Thread /\ late' \in [Thread -> Nat]
  BY DEF Cancelled, Abandon, CoreInv, TypeOK
<1>3. /\ Positions' = Positions
      /\ \A j : Group(j)' = Group(j) /\ MatchAt(j)' = MatchAt(j)
      /\ \A l, j : LetsThrough(l, j)' = LetsThrough(l, j)
      /\ \A j : Through(j)' = Through(j)
  BY <1>1, SamePlaces DEF Through
<1>4. TypeOK'
  <2>1. lost' \subseteq Positions
    BY <1>1 DEF CoreInv, TypeOK
  <2> QED BY <1>1, <1>2, <2>1, ReturnTypes DEF CoreInv, TypeOK, wanted
<1>5. pc[t] \in Locked
  BY <1>1 DEF Deciding, Locked
<1>6. Hands' /\ InHands' = {} /\ InHands = hand[t]
  BY <1>1, <1>5, ReturnHands, OneHand DEF CoreInv, Results
<1>7. Spent' /\ HandsFree' /\ LimitsAsked' /\ NotGiven'
  BY <1>1, <1>3, <1>6 DEF CoreInv, Results, Spent, HandsFree, LimitsAsked, NotGiven
<1>8. Given'
  <2>1. \A j \in hand[t] : given[j] = 0
    BY <1>6 DEF CoreInv, Results, HandsFree
  <2> QED BY <1>1, <1>3, <2>1 DEF CoreInv, Results, Given
<1> QED BY <1>4, <1>6, <1>7, <1>8 DEF Results, CoreInvNext

\* A result is returned: each capture of it for the first time.
LEMMA GiveStep ==
  ASSUME CoreInv, NEW t \in Thread, Give(t)
  PROVE  CoreInvNext
<1>1. /\ pc[t] = "build" /\ Return(t)
      /\ given' = [k \in DOMAIN given |-> IF k \in hand[t] THEN given[k] + 1 ELSE given[k]]
      /\ UNCHANGED <<running, left, limits, way, tree, node, cancelled, late, lost, asked, inForce>>
  BY DEF Give, At, native, wanted
<1>2. given \in [Positions -> Nat]
  BY DEF CoreInv, TypeOK
<1>3. /\ Positions' = Positions
      /\ \A j : Group(j)' = Group(j) /\ MatchAt(j)' = MatchAt(j)
      /\ \A l, j : LetsThrough(l, j)' = LetsThrough(l, j)
      /\ \A j : Through(j)' = Through(j)
  BY <1>1, SamePlaces DEF Through
<1>4. pc[t] \in Locked /\ pc[t] \in Deciding
  BY <1>1 DEF Deciding, Locked
<1>5. Hands' /\ InHands' = {} /\ InHands = hand[t]
  BY <1>1, <1>4, ReturnHands, OneHand DEF CoreInv, Results
<1>6. \A j \in Positions : given'[j] = IF j \in hand[t] THEN 1 ELSE given[j]
  <2>1. \A j \in hand[t] : given[j] = 0
    BY <1>5 DEF CoreInv, Results, HandsFree
  <2> QED BY <1>1, <1>2, <2>1
<1>7. TypeOK'
  <2>1. given' \in [Positions -> Nat]
    BY <1>1, <1>2
  <2> QED BY <1>1, <2>1, ReturnTypes DEF CoreInv, TypeOK, wanted
<1>8. Spent'
  BY <1>1, <1>3, <1>5, <1>6 DEF CoreInv, Results, Spent
<1>9. HandsFree' /\ LimitsAsked'
  BY <1>1, <1>5 DEF CoreInv, Results, HandsFree, LimitsAsked
<1>10. NotGiven'
  BY <1>1, <1>3, <1>5, <1>6 DEF CoreInv, Results, NotGiven
<1>11. Given'
  <2>1. \A j \in hand[t] : j \notin lost /\ MatchAt(j) \in Passes /\ Through(j)
    BY <1>1, <1>4, <1>5, InHandIs DEF CoreInv, Results, HandsFree, Hands, At
  <2> QED BY <1>1, <1>3, <1>6, <2>1 DEF CoreInv, Results, Given
<1> QED BY <1>5, <1>7, <1>8, <1>9, <1>10, <1>11 DEF Results, CoreInvNext

\* What fails its predicates is dropped, with nextCapture() the rest of its
\* match too: none of it can be returned.
LEMMA SkipStep ==
  ASSUME CoreInv, NEW t \in Thread, Skip(t)
  PROVE  CoreInvNext
<1>1. /\ pc[t] = "evaluate" /\ InHand(t) \notin Passes
      /\ left' = IF way = "capture" THEN left \ OfMatch(InHand(t)) ELSE left
      /\ hand' = [hand EXCEPT ![t] = {}] /\ pc' = [pc EXCEPT ![t] = "take"]
      /\ UNCHANGED <<running, limits, way, tree, mutex, node, checked, cancelled, late,
                     given, lost, asked, inForce>>
  BY DEF Skip, At, Goto, history, wanted
<1>2. /\ hand \in [Thread -> SUBSET Positions] /\ pc \in [Thread -> Steps]
      /\ left \subseteq Positions
  BY DEF CoreInv, TypeOK
<1>3. /\ Positions' = Positions
      /\ \A j : Group(j)' = Group(j) /\ MatchAt(j)' = MatchAt(j)
      /\ \A l, j : LetsThrough(l, j)' = LetsThrough(l, j)
      /\ \A j : Through(j)' = Through(j)
  BY <1>1, SamePlaces DEF Through
<1>4. pc[t] \in Locked /\ pc[t] \in Deciding
  BY <1>1 DEF Deciding, Locked
<1>5. InHands = hand[t] /\ \A u \in Thread : u # t => hand[u] = {}
  BY <1>4, OneHand DEF CoreInv, Results
<1>6. \A u \in Thread : u # t => pc[u] \notin Deciding
  BY <1>5, InHandIs DEF CoreInv, Results
<1>7. \A u \in Thread : hand'[u] = {} /\ pc'[u] \notin Deciding
  BY <1>1, <1>2, <1>5, <1>6 DEF Deciding
<1>8. Hands' /\ InHands' = {}
  BY <1>7 DEF Hands, InHands, Deciding, At
<1>9. left' \subseteq left /\ \A j \in left : j \notin left' => MatchAt(j) \notin Passes
  BY <1>1 DEF OfMatch
<1>10. \A j \in hand[t] : MatchAt(j) \notin Passes
  BY <1>1, <1>4, InHandIs DEF CoreInv, Results
<1>11. TypeOK'
  <2>1. /\ pc' \in [Thread -> Steps] /\ hand' \in [Thread -> SUBSET Positions]
        /\ left' \in SUBSET Positions
    BY <1>1, <1>2, <1>9 DEF Steps
  <2> QED BY <1>1, <1>3, <2>1 DEF CoreInv, TypeOK
<1>12. Spent' /\ HandsFree' /\ LimitsAsked' /\ Given'
  BY <1>1, <1>3, <1>8, <1>9 DEF CoreInv, Results, Spent, HandsFree, LimitsAsked, Given
<1>13. NotGiven'
  BY <1>1, <1>3, <1>5, <1>8, <1>9, <1>10 DEF CoreInv, Results, NotGiven
<1> QED BY <1>8, <1>11, <1>12, <1>13 DEF Results, CoreInvNext

\* removeMatch() drops what is left of a match while no call has it in hand.
LEMMA RemoveMatchStep ==
  ASSUME CoreInv, NEW t \in Thread, NEW m \in Match, RemoveMatch(t, m)
  PROVE  CoreInvNext
<1>1. /\ mutex = Null /\ lost' = lost \cup (left \cap OfMatch(m)) /\ left' = left \ OfMatch(m)
      /\ UNCHANGED <<running, limits, way, tree, mutex, pc, node, hand, checked, cancelled,
                     late, given, asked, inForce>>
  BY DEF RemoveMatch, wanted
<1>2. left \subseteq Positions /\ lost \subseteq Positions
  BY DEF CoreInv, TypeOK
<1>3. /\ Positions' = Positions
      /\ \A j : Group(j)' = Group(j) /\ MatchAt(j)' = MatchAt(j)
      /\ \A l, j : LetsThrough(l, j)' = LetsThrough(l, j)
      /\ \A j : Through(j)' = Through(j)
  BY <1>1, SamePlaces DEF Through
<1>4. InHands = {} /\ InHands' = {}
  BY <1>1, OneHand DEF CoreInv, Results, InHands
<1>5. TypeOK'
  <2>1. left' \in SUBSET Positions /\ lost' \in SUBSET Positions
    BY <1>1, <1>2
  <2> QED BY <1>1, <1>3, <2>1 DEF CoreInv, TypeOK
<1>6. Hands'
  BY <1>1, <1>3 DEF CoreInv, Results, Hands, At
<1>7. Spent'
  <2>1. ASSUME NEW j \in Positions, given[j] = 1 \/ j \in lost'
        PROVE  Group(j) \cap left' = {}
    <3>1. CASE j \in left \cap OfMatch(m)
      <4>1. \A i \in Group(j) : MatchAt(i) = MatchAt(j) /\ i \in Positions
        BY Groups
      <4>2. Group(j) \subseteq OfMatch(m)
        BY <3>1, <4>1 DEF OfMatch
      <4> QED BY <1>1, <4>2
    <3>2. CASE given[j] = 1 \/ j \in lost
      BY <1>1, <3>2 DEF CoreInv, Results, Spent
    <3> QED BY <1>1, <2>1, <3>1, <3>2
  <2> QED BY <1>1, <1>3, <1>4, <2>1 DEF Spent
<1>8. HandsFree' /\ LimitsAsked'
  BY <1>1, <1>4 DEF CoreInv, Results, HandsFree, LimitsAsked
<1>9. Given'
  <2>1. \A j \in left : given[j] # 1
    BY <1>2, Groups DEF CoreInv, Results, Spent
  <2> QED BY <1>1, <1>3, <2>1 DEF CoreInv, Results, Given
<1>10. NotGiven'
  BY <1>1, <1>3, <1>4 DEF CoreInv, Results, NotGiven
<1> QED BY <1>5, <1>6, <1>7, <1>8, <1>9, <1>10 DEF Results, CoreInvNext

LEMMA EverywhereWithin == Everywhere \in Within
<1>1. \A n \in Node : Stream[n] \in Seq(Match)
  BY Streams
<1>2. \A n \in Node : DOMAIN Stream[n] \in SUBSET Nat
  BY <1>1
<1> QED BY <1>2, LimitsOfNodes DEF Within

\* A limit that is set or cleared leaves the two others as they were asked for.
LEMMA LimitingSets ==
  ASSUME CoreInv, NEW t \in Thread, Limiting(t)
  PROVE  \E l \in [Kind -> Within] : SetNative(l) /\ Ask(l)
<1>1. limits = asked /\ limits \in [Kind -> Within]
  BY DEF CoreInv, TypeOK, Results, LimitsAsked
<1>2. PICK kind \in Kind, within \in Within :
        SetNative([limits EXCEPT ![kind] = within]) /\ Ask([asked EXCEPT ![kind] = within])
  <2>1. ASSUME NEW kind \in RangeKind, ClearLimit(t, kind)
        PROVE  \E k \in Kind, w \in Within :
                  SetNative([limits EXCEPT ![k] = w]) /\ Ask([asked EXCEPT ![k] = w])
    BY <2>1, EverywhereWithin DEF ClearLimit, Kind
  <2>2. ASSUME NEW l \in Limits, SetLimit(t, l.kind, l.within)
        PROVE  \E k \in Kind, w \in Within :
                  SetNative([limits EXCEPT ![k] = w]) /\ Ask([asked EXCEPT ![k] = w])
    <3>1. l.kind \in Kind /\ l.within \in Within
      BY LimitsOfNodes
    <3> QED BY <2>2, <3>1 DEF SetLimit
  <2> QED BY <2>1, <2>2 DEF Limiting
<1>3. [limits EXCEPT ![kind] = within] \in [Kind -> Within]
  BY <1>1
<1> QED BY <1>1, <1>2, <1>3

\* Limits that a script sets are in force from then on.
LEMMA LimitsStep ==
  ASSUME CoreInv, NEW l \in [Kind -> Within], SetNative(l), Ask(l)
  PROVE  CoreInvNext
<1>1. /\ mutex = Null /\ limits' = l /\ asked' = l /\ inForce' = inForce \cup {l}
      /\ UNCHANGED <<running, left, way, tree, mutex, pc, node, hand, checked, cancelled,
                     late, given, lost>>
  BY DEF SetNative, Ask
<1>2. /\ Positions' = Positions
      /\ \A j : Group(j)' = Group(j) /\ MatchAt(j)' = MatchAt(j)
      /\ \A i, j : LetsThrough(i, j)' = LetsThrough(i, j)
  BY <1>1, SamePlaces
<1>3. \A j : Through(j) => Through(j)'
  BY <1>1, <1>2 DEF Through
<1>4. InHands' = InHands
  BY <1>1 DEF InHands
<1>5. TypeOK'
  BY <1>1, <1>2 DEF CoreInv, TypeOK
<1>6. Hands'
  BY <1>1, <1>2, <1>3 DEF CoreInv, Results, Hands, At
<1>7. Spent' /\ HandsFree' /\ LimitsAsked'
  BY <1>1, <1>2, <1>4 DEF CoreInv, Results, Spent, HandsFree, LimitsAsked
<1>8. Given' /\ NotGiven'
  BY <1>1, <1>2, <1>3, <1>4 DEF CoreInv, Results, Given, NotGiven
<1> QED BY <1>5, <1>6, <1>7, <1>8 DEF Results, CoreInvNext

\* Stuttering changes nothing.
LEMMA StutterStep ==
  ASSUME CoreInv, UNCHANGED vars
  PROVE  CoreInvNext
<1>1. UNCHANGED <<native, tree, mutex, pc, node, hand, checked, cancelled, late, given, lost, wanted>>
  BY DEF vars, history
<1>2. TypeOK'
  <2>1. /\ tree \in Node \cup {Null} /\ node \in [Thread -> Node \cup {Null}]
        /\ mutex \in Thread \cup {Null} /\ pc \in [Thread -> Steps]
        /\ checked \in [Thread -> Nat] /\ cancelled \in SUBSET Thread /\ late \in [Thread -> Nat]
    BY DEF CoreInv, TypeOK
  <2> QED BY <1>1, <2>1, QuietTypes DEF CoreInv
<1>3. Quiet
  BY <1>1 DEF Quiet, CoreInv, Results, Hands
<1> QED BY <1>2, <1>3, QuietStep DEF CoreInv, CoreInvNext

-----------------------------------------------------------------------------
(* The invariant and what follows from it *)

\* A new cursor runs on no node.
LEMMA InitInv == Init => Inv
<1> SUFFICES ASSUME Init PROVE Inv
  OBVIOUS
<1> USE DEF Init
<1>1. Positions = {} /\ InHands = {}
  BY DEF Positions, InHands
<1>2. given \in [{} -> Nat]
  OBVIOUS
<1>3. TypeOK
  BY <1>1, <1>2, EverywhereWithin DEF TypeOK, Steps, NoLimits
<1>4. Locks /\ Arguments /\ Owners
  BY DEF Locks, Locked, Arguments, Owners, At
<1>5. Waiting
  <2>1. Interval \in Nat \ {0}
    BY PositiveInterval
  <2>2. 0 % Interval = 0
    BY <2>1
  <2> QED BY <2>1, <2>2 DEF Waiting
<1>6. Hands
  BY DEF Hands, Deciding, At
<1>7. LimitsAsked /\ Spent /\ HandsFree /\ Given /\ NotGiven
  BY <1>1 DEF LimitsAsked, Spent, HandsFree, Given, NotGiven
<1>8. SourceOrder
  BY DEF SourceOrder
<1> QED BY <1>3, <1>4, <1>5, <1>6, <1>7, <1>8 DEF Inv, Results

\* The steps of a call inside the mutex.
LEMMA InsideStep ==
  ASSUME CoreInv, NEW t \in Thread, Inside(t)
  PROVE  CoreInvNext
BY StartNativeStep, StoreOwnerStep, TakeStep, ExhaustedStep, CheckStep, FailStep, SkipStep,
   GiveStep DEF Inside

\* A step that moves nothing towards the script but drops some captures.
LEMMA DropOrder ==
  ASSUME SourceOrder, UNCHANGED <<running, way, given>>, left' \subseteq left,
         \A t \in Thread : hand'[t] \subseteq hand[t]
  PROVE  SourceOrder'
<1>1. Positions' = Positions /\ InHands' \subseteq InHands
  BY DEF Positions, InHands
<1> QED BY <1>1 DEF SourceOrder

\* A capture that is taken lies before all that are left, one that is given
\* was in the only hand.
LEMMA OrderStep == CoreInv /\ SourceOrder /\ [Next]_vars => SourceOrder'
<1> SUFFICES ASSUME CoreInv, SourceOrder, [Next]_vars PROVE SourceOrder'
  OBVIOUS
<1>1. /\ hand \in [Thread -> SUBSET Positions] /\ left \subseteq Positions
      /\ Positions \subseteq Nat /\ given \in [Positions -> Nat]
  BY PositionsAreNat DEF CoreInv, TypeOK
<1>2. ASSUME NEW t \in Thread, StartNative(t)
      PROVE  SourceOrder'
  <2>1. /\ running' = node[t] /\ node[t] \in Node
        /\ given' = [k \in DOMAIN Stream[node[t]] |-> 0]
        /\ left' = DOMAIN Stream[node[t]] /\ hand' = hand /\ pc[t] = "native"
    BY <1>2 DEF StartNative, CoreInv, Arguments, At
  <2>2. Positions' = DOMAIN Stream[node[t]]
    BY <2>1, NullIsNothing DEF Positions
  <2>3. InHands' = {}
    <3>1. hand[t] = {} /\ pc[t] \in Locked
      BY <2>1 DEF CoreInv, Results, Hands, Deciding, Locked
    <3>2. InHands = {}
      BY <3>1, OneHand DEF CoreInv, Results
    <3> QED BY <2>1, <3>2 DEF InHands
  <2> QED BY <2>1, <2>2, <2>3 DEF SourceOrder
<1>3. ASSUME NEW t \in Thread, Take(t)
      PROVE  SourceOrder'
  <2> DEFINE k == Min(ToCome)
  <2>1. /\ pc[t] = "take" /\ ToCome # {} /\ UNCHANGED <<running, way, given>>
        /\ hand' = [hand EXCEPT ![t] = Group(k)] /\ left' = {l \in left : l > k} \ Group(k)
    BY <1>3 DEF Take, Group, At, history
  <2>2. k \in left
    <3>1. ToCome \in SUBSET Nat /\ ToCome \subseteq left
      BY <1>1 DEF ToCome
    <3> QED BY <2>1, <3>1, FirstOf
  <2> HIDE DEF k
  <2>3. InHands = {}
    <3>1. hand[t] = {} /\ pc[t] \in Locked
      BY <2>1 DEF CoreInv, Results, Hands, Deciding, Locked
    <3> QED BY <3>1, OneHand DEF CoreInv, Results
  <2>4. InHands' \subseteq Group(k)
    BY <1>1, <2>1, <2>3 DEF InHands
  <2>5. Positions' = Positions
    BY <2>1 DEF Positions
  <2>6. way = "capture" => Group(k) = {k}
    BY DEF Group
  <2>7. \A l \in left' : l \in left /\ k < l
    BY <1>1, <2>1, <2>2
  <2> QED BY <2>1, <2>2, <2>4, <2>5, <2>6, <2>7 DEF SourceOrder
<1>4. ASSUME NEW t \in Thread, Give(t)
      PROVE  SourceOrder'
  <2>1. /\ pc[t] = "build" /\ UNCHANGED <<running, left, way>>
        /\ given' = [k \in DOMAIN given |-> IF k \in hand[t] THEN given[k] + 1 ELSE given[k]]
        /\ hand' = [hand EXCEPT ![t] = {}]
    BY <1>4 DEF Give, Return, At, native
  <2>2. InHands = hand[t]
    BY <2>1, OneHand DEF CoreInv, Results, Locked
  <2>3. InHands' = {} /\ Positions' = Positions
    <3>1. \A u \in Thread : u # t => hand[u] = {}
      BY <2>1, OneHand DEF CoreInv, Results, Locked
    <3> QED BY <1>1, <2>1, <3>1 DEF InHands, Positions
  <2>4. \A k \in Positions : given'[k] = 1 => k \in InHands \/ given[k] = 1
    BY <1>1, <2>1, <2>2
  <2> QED BY <2>1, <2>3, <2>4 DEF SourceOrder
<1>5. ASSUME NEW t \in Thread,
             \/ Lock(t) \/ CallNext(t) \/ Cancel(t) \/ Limiting(t)
             \/ \E n \in Node : CallExec(t, n)
             \/ NotCancelled(t) \/ Accept(t)
      PROVE  SourceOrder'
  <2>1. UNCHANGED <<running, way, given, left, hand>>
    BY <1>5 DEF Lock, LockExec, LockNext, CallNext, Cancel, Limiting, ClearLimit, SetLimit, SetNative,
       CallExec, NotCancelled, Accept, native, history
  <2> QED BY <2>1, DropOrder
<1>6. ASSUME NEW t \in Thread,
             \/ StoreOwner(t) \/ Exhausted(t) \/ Cancelled(t) \/ Skip(t) \/ Abandon(t)
             \/ \E m \in Match : RemoveMatch(t, m)
      PROVE  SourceOrder'
  <2>1. UNCHANGED <<running, way, given>> /\ left' \subseteq left
        /\ (hand' = hand \/ hand' = [hand EXCEPT ![t] = {}])
    BY <1>6 DEF StoreOwner, Exhausted, Cancelled, Skip, Abandon, RemoveMatch, Return, native,
       history
  <2>2. \A u \in Thread : hand'[u] \subseteq hand[u]
    BY <1>1, <2>1
  <2> QED BY <2>1, <2>2, DropOrder
<1>7. CASE UNCHANGED vars
  <2>1. UNCHANGED <<running, way, given, left, hand>>
    BY <1>7 DEF vars, native, history
  <2> QED BY <2>1, DropOrder
<1> QED BY <1>2, <1>3, <1>4, <1>5, <1>6, <1>7 DEF Next, Limiting, Inside

\* Every step keeps the invariant.
LEMMA NextInv == Inv /\ [Next]_vars => Inv'
<1> SUFFICES ASSUME Inv, [Next]_vars PROVE Inv'
  OBVIOUS
<1>1. CoreInv
  BY DEF Inv, CoreInv
<1>2. Locks' /\ Arguments' /\ Owners' /\ Waiting'
  BY LocksStep, ArgumentsStep, OwnersStep, WaitingStep DEF Inv
<1>3. CoreInvNext
  <2>1. ASSUME NEW t \in Thread,
               \/ Lock(t) \/ Inside(t) \/ CallNext(t) \/ Cancel(t)
               \/ \E n \in Node : CallExec(t, n)
               \/ \E m \in Match : RemoveMatch(t, m)
        PROVE  CoreInvNext
    BY <1>1, <2>1, LockStep, InsideStep, CallStep, CancelStep, RemoveMatchStep
  <2>2. ASSUME NEW t \in Thread, Limiting(t)
        PROVE  CoreInvNext
    <3>1. PICK l \in [Kind -> Within] : SetNative(l) /\ Ask(l)
      BY <1>1, <2>2, LimitingSets
    <3> QED BY <1>1, <3>1, LimitsStep
  <2>3. CASE UNCHANGED vars
    BY <1>1, <2>3, StutterStep
  <2> QED BY <2>1, <2>2, <2>3 DEF Next, Limiting
<1>4. SourceOrder'
  BY <1>1, OrderStep DEF Inv
<1> QED BY <1>2, <1>3, <1>4 DEF Inv, CoreInvNext

\* Inv is an invariant of the specification; the theorems below follow from it.
THEOREM Invariant == Spec => []Inv
  BY InitInv, NextInv, PTL DEF Spec

\* The variables of the cursor keep their types, whatever streams and limits.
THEOREM TypesOK == Spec => []TypeOK
<1>1. Inv => TypeOK
  BY DEF Inv
<1> QED BY Invariant, <1>1, PTL

\* nextMatch() and nextCapture() hand out each capture of a match that passes
\* once, captures in source order, for every stream, any limits, any order of
\* calls and all threads.
THEOREM ResultsOnce == Spec => []ReturnedOnce
<1>1. Inv => ReturnedOnce
  <2> SUFFICES ASSUME Inv, NEW k \in Positions
               PROVE  /\ given[k] \in {0, 1}
                      /\ given[k] = 1 =>
                            /\ MatchAt(k) \in Passes
                            /\ k \notin left \cup lost \cup InHands
                            /\ Through(k)
                      /\ given[k] = 0 =>
                            \/ MatchAt(k) \notin Passes
                            \/ k \in left \cup lost \cup InHands
                            \/ \E l \in inForce : ~LetsThrough(l, k)
                      /\ given[k] = 1 /\ way = "capture" =>
                            \A j \in left \cup InHands : k < j
    BY DEF ReturnedOnce, InHands, Through
  <2>1. k \in Group(k)
    BY Groups
  <2> QED BY <2>1 DEF Inv, Results, Spent, HandsFree, Given, NotGiven, SourceOrder
<1> QED BY Invariant, <1>1, PTL

\* evaluatePredicates() reads the source of the tree its captures come from:
\* exec() of another thread does not come between.
THEOREM OwnSource == Spec => []EvaluatedInOwnSource
<1>1. Inv => EvaluatedInOwnSource
  <2> SUFFICES ASSUME Inv, NEW t \in Thread, pc[t] \in {"take", "check", "evaluate", "build"}
               PROVE  tree = running
    BY DEF EvaluatedInOwnSource
  <2>1. \A u \in Thread : ~At(u, "owner")
    BY DEF Inv, Locks, Locked, At
  <2> QED BY <2>1 DEF Inv, Owners
<1> QED BY Invariant, <1>1, PTL

\* A cancelled call notices after at most Interval results (100 in the code).
THEOREM Cancellable == Spec => []CancellationSeen
<1>1. Inv => CancellationSeen
  BY DEF Inv, Waiting, CancellationSeen
<1> QED BY Invariant, <1>1, PTL
=============================================================================
