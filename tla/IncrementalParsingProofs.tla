------------------------ MODULE IncrementalParsingProofs ------------------------
(***************************************************************************)
(* Proofs about IncrementalParsing, for all texts, edits, threads, parsers *)
(* and trees.  Inv has three parts: SessionInv on the parsers (objects     *)
(* share no native parser, calls keep theirs, the native parser is used    *)
(* inside the mutex), TreesOK on the trees (objects share no native tree,  *)
(* leaves fit their text) and UsageOK on the parses that use a tree.  Each *)
(* action gets a lemma; what splicing does to a sequence is stated once.   *)
(***************************************************************************)
EXTENDS IncrementalParsing, SequenceTheorems, TLAPS

-----------------------------------------------------------------------------
(* The parsers: each step of TreeSitterParser keeps SessionInv *)

\* A new object has a native parser of its own with the ranges of a new parser.
LEMMA ConstructStep ==
  ASSUME SessionInv, NEW p \in Parser, Construct(p)
  PROVE  SessionInv'
<1> USE RangeLists, NullIsNothing DEF SessionInv, SessionTypeOK, Construct, New, objects, frame
<1>1. SessionTypeOK'
  BY DEF SessionTypeOK, CallsKeepParsers, ArgumentsKept, At
<1>2. OwnParsers'
  BY DEF OwnParsers, At
<1>3. CallsKeepParsers'
  BY DEF CallsKeepParsers, OwnParsers, At
<1>4. ArgumentsKept'
  BY DEF ArgumentsKept, At
<1>5. LocksHeld'
  BY DEF LocksHeld, CallsKeepParsers, At
<1>6. RangesHoldForAParse'
  BY DEF RangesHoldForAParse, OwnParsers, CallsKeepParsers, LocksHeld, At
<1> QED BY <1>1, <1>2, <1>3, <1>4, <1>5, <1>6 DEF SessionInv

\* copy() makes a native parser, it takes over none.
LEMMA CopyStep ==
  ASSUME SessionInv, NEW t \in Thread, NEW p \in Parser, NEW new \in Parser, Copy(t, p, new)
  PROVE  SessionInv'
<1> USE RangeLists, NullIsNothing DEF SessionInv, SessionTypeOK, Copy, New, At, objects, frame
<1>1. SessionTypeOK'
  BY DEF SessionTypeOK, CallsKeepParsers, ArgumentsKept, At
<1>2. OwnParsers'
  BY DEF OwnParsers, At
<1>3. CallsKeepParsers'
  BY DEF CallsKeepParsers, OwnParsers, At
<1>4. ArgumentsKept'
  BY DEF ArgumentsKept, At
<1>5. LocksHeld'
  BY DEF LocksHeld, CallsKeepParsers, At
<1>6. RangesHoldForAParse'
  BY DEF RangesHoldForAParse, OwnParsers, CallsKeepParsers, LocksHeld, At
<1> QED BY <1>1, <1>2, <1>3, <1>4, <1>5, <1>6 DEF SessionInv

\* An object is destroyed when no call of it runs.
LEMMA DestroyStep ==
  ASSUME SessionInv, NEW p \in Parser, Destroy(p)
  PROVE  SessionInv'
<1> USE RangeLists, NullIsNothing DEF SessionInv, SessionTypeOK, Destroy, objects, frame
<1>1. SessionTypeOK'
  BY DEF SessionTypeOK, CallsKeepParsers, ArgumentsKept, At
<1>2. OwnParsers'
  BY DEF OwnParsers, At
<1>3. CallsKeepParsers'
  BY DEF CallsKeepParsers, OwnParsers, At
<1>4. ArgumentsKept'
  BY DEF ArgumentsKept, At
<1>5. LocksHeld'
  BY DEF LocksHeld, CallsKeepParsers, At
<1>6. RangesHoldForAParse'
  BY DEF RangesHoldForAParse, OwnParsers, CallsKeepParsers, LocksHeld, At
<1> QED BY <1>1, <1>2, <1>3, <1>4, <1>5, <1>6 DEF SessionInv

\* parse() is called: nothing of the parser is read yet.
LEMMA CallParseStep ==
  ASSUME SessionInv, NEW t \in Thread, NEW p \in Parser, NEW s \in Source, CallParse(t, p, s)
  PROVE  SessionInv'
<1> USE RangeLists, NullIsNothing DEF SessionInv, SessionTypeOK, CallParse, Enter, At, Goto, objects, frame
<1>1. SessionTypeOK'
  BY DEF SessionTypeOK, CallsKeepParsers, ArgumentsKept, At
<1>2. OwnParsers'
  BY DEF OwnParsers, At
<1>3. CallsKeepParsers'
  BY DEF CallsKeepParsers, OwnParsers, At
<1>4. ArgumentsKept'
  BY DEF ArgumentsKept, At
<1>5. LocksHeld'
  BY DEF LocksHeld, CallsKeepParsers, At
<1>6. RangesHoldForAParse'
  BY DEF RangesHoldForAParse, OwnParsers, CallsKeepParsers, LocksHeld, At
<1> QED BY <1>1, <1>2, <1>3, <1>4, <1>5, <1>6 DEF SessionInv

\* The parse begins with the ranges that are set, inside the mutex.
LEMMA LockParseStep ==
  ASSUME SessionInv, NEW t \in Thread, LockParse(t)
  PROVE  SessionInv'
<1> USE RangeLists, NullIsNothing DEF SessionInv, SessionTypeOK, LockParse, Acquire, At, Goto, objects, frame
<1>1. SessionTypeOK'
  BY DEF SessionTypeOK, CallsKeepParsers, ArgumentsKept, At
<1>2. OwnParsers'
  BY DEF OwnParsers, At
<1>3. CallsKeepParsers'
  BY DEF CallsKeepParsers, OwnParsers, At
<1>4. ArgumentsKept'
  BY DEF ArgumentsKept, At
<1>5. LocksHeld'
  BY DEF LocksHeld, CallsKeepParsers, At
<1>6. RangesHoldForAParse'
  BY DEF RangesHoldForAParse, OwnParsers, CallsKeepParsers, LocksHeld, At
<1> QED BY <1>1, <1>2, <1>3, <1>4, <1>5, <1>6 DEF SessionInv

\* The parse ends and gives up the mutex.
LEMMA EndParseStep ==
  ASSUME SessionInv, NEW t \in Thread, EndParse(t)
  PROVE  SessionInv'
<1> USE RangeLists, NullIsNothing DEF SessionInv, SessionTypeOK, EndParse, Return, At, Goto, objects, frame
<1>1. SessionTypeOK'
  BY DEF SessionTypeOK, CallsKeepParsers, ArgumentsKept, At
<1>2. OwnParsers'
  BY DEF OwnParsers, At
<1>3. CallsKeepParsers'
  BY DEF CallsKeepParsers, OwnParsers, At
<1>4. ArgumentsKept'
  BY DEF ArgumentsKept, At
<1>5. LocksHeld'
  BY DEF LocksHeld, CallsKeepParsers, At
<1>6. RangesHoldForAParse'
  BY DEF RangesHoldForAParse, OwnParsers, CallsKeepParsers, LocksHeld, At
<1> QED BY <1>1, <1>2, <1>3, <1>4, <1>5, <1>6 DEF SessionInv

\* setIncludedRanges() is called, its argument kept with the call.
LEMMA CallSetRangesStep ==
  ASSUME SessionInv, NEW t \in Thread, NEW p \in Parser, NEW r \in Ranges, CallSetRanges(t, p, r)
  PROVE  SessionInv'
<1> USE RangeLists, NullIsNothing DEF SessionInv, SessionTypeOK, CallSetRanges, Enter, At, Goto, objects, frame
<1>1. SessionTypeOK'
  BY DEF SessionTypeOK, CallsKeepParsers, ArgumentsKept, At
<1>2. OwnParsers'
  BY DEF OwnParsers, At
<1>3. CallsKeepParsers'
  BY DEF CallsKeepParsers, OwnParsers, At
<1>4. ArgumentsKept'
  BY DEF ArgumentsKept, At
<1>5. LocksHeld'
  BY DEF LocksHeld, CallsKeepParsers, At
<1>6. RangesHoldForAParse'
  BY DEF RangesHoldForAParse, OwnParsers, CallsKeepParsers, LocksHeld, At
<1> QED BY <1>1, <1>2, <1>3, <1>4, <1>5, <1>6 DEF SessionInv

\* setIncludedRanges() takes the mutex: no parse is going on.
LEMMA LockRangesStep ==
  ASSUME SessionInv, NEW t \in Thread, LockRanges(t)
  PROVE  SessionInv'
<1> USE RangeLists, NullIsNothing DEF SessionInv, SessionTypeOK, LockRanges, Acquire, At, Goto, objects, frame
<1>1. SessionTypeOK'
  BY DEF SessionTypeOK, CallsKeepParsers, ArgumentsKept, At
<1>2. OwnParsers'
  BY DEF OwnParsers, At
<1>3. CallsKeepParsers'
  BY DEF CallsKeepParsers, OwnParsers, At
<1>4. ArgumentsKept'
  BY DEF ArgumentsKept, At
<1>5. LocksHeld'
  BY DEF LocksHeld, CallsKeepParsers, At
<1>6. RangesHoldForAParse'
  BY DEF RangesHoldForAParse, OwnParsers, CallsKeepParsers, LocksHeld, At
<1> QED BY <1>1, <1>2, <1>3, <1>4, <1>5, <1>6 DEF SessionInv

\* Ranges out of order are refused, the old ones stay.
LEMMA RefuseRangesStep ==
  ASSUME SessionInv, NEW t \in Thread, RefuseRanges(t)
  PROVE  SessionInv'
<1> USE RangeLists, NullIsNothing DEF SessionInv, SessionTypeOK, RefuseRanges, Return, At, Goto, objects, frame
<1>1. SessionTypeOK'
  BY DEF SessionTypeOK, CallsKeepParsers, ArgumentsKept, At
<1>2. OwnParsers'
  BY DEF OwnParsers, At
<1>3. CallsKeepParsers'
  BY DEF CallsKeepParsers, OwnParsers, At
<1>4. ArgumentsKept'
  BY DEF ArgumentsKept, At
<1>5. LocksHeld'
  BY DEF LocksHeld, CallsKeepParsers, At
<1>6. RangesHoldForAParse'
  BY DEF RangesHoldForAParse, OwnParsers, CallsKeepParsers, LocksHeld, At
<1> QED BY <1>1, <1>2, <1>3, <1>4, <1>5, <1>6 DEF SessionInv

\* The ranges change inside the mutex, so under no parse of this object; and
\* no other object uses the native parser.
LEMMA SetRangesStep ==
  ASSUME SessionInv, NEW t \in Thread, SetRanges(t)
  PROVE  SessionInv'
<1> USE RangeLists, NullIsNothing DEF SessionInv, SessionTypeOK, SetRanges, Return, At, Goto, objects, frame
<1>1. SessionTypeOK'
  BY DEF SessionTypeOK, CallsKeepParsers, ArgumentsKept, At
<1>2. OwnParsers'
  BY DEF OwnParsers, At
<1>3. CallsKeepParsers'
  BY DEF CallsKeepParsers, OwnParsers, At
<1>4. ArgumentsKept'
  BY DEF ArgumentsKept, At
<1>5. LocksHeld'
  BY DEF LocksHeld, CallsKeepParsers, At
<1>6. RangesHoldForAParse'
  <2> SUFFICES ASSUME NEW u \in Thread, At(u, "parsing")'
               PROVE  ranges'[u] = included'[handle'[parser'[u]]]
    BY DEF RangesHoldForAParse
  <2>1. u # t /\ pc[u] = "parsing" /\ parser'[u] = parser[u] /\ ranges'[u] = ranges[u]
    BY DEF At
  <2>2. mutex[parser[u]] = {u} /\ mutex[parser[t]] = {t}
    BY <2>1 DEF LocksHeld, At
  <2>3. handle[parser[u]] = parser[u] /\ handle[parser[t]] = parser[t]
    BY <2>1 DEF CallsKeepParsers, At
  <2>4. parser[u] # parser[t]
    BY <2>1, <2>2
  <2>5. included'[handle[parser[u]]] = included[handle[parser[u]]]
    BY <2>1, <2>3, <2>4 DEF CallsKeepParsers, At
  <2> QED BY <2>1, <2>5 DEF RangesHoldForAParse, At
<1> QED BY <1>1, <1>2, <1>3, <1>4, <1>5, <1>6 DEF SessionInv

\* reset() is called.
LEMMA CallResetStep ==
  ASSUME SessionInv, NEW t \in Thread, NEW p \in Parser, CallReset(t, p)
  PROVE  SessionInv'
<1> USE RangeLists, NullIsNothing DEF SessionInv, SessionTypeOK, CallReset, Enter, At, Goto, objects, frame
<1>1. SessionTypeOK'
  BY DEF SessionTypeOK, CallsKeepParsers, ArgumentsKept, At
<1>2. OwnParsers'
  BY DEF OwnParsers, At
<1>3. CallsKeepParsers'
  BY DEF CallsKeepParsers, OwnParsers, At
<1>4. ArgumentsKept'
  BY DEF ArgumentsKept, At
<1>5. LocksHeld'
  BY DEF LocksHeld, CallsKeepParsers, At
<1>6. RangesHoldForAParse'
  BY DEF RangesHoldForAParse, OwnParsers, CallsKeepParsers, LocksHeld, At
<1> QED BY <1>1, <1>2, <1>3, <1>4, <1>5, <1>6 DEF SessionInv

\* reset() takes the mutex.
LEMMA LockResetStep ==
  ASSUME SessionInv, NEW t \in Thread, LockReset(t)
  PROVE  SessionInv'
<1> USE RangeLists, NullIsNothing DEF SessionInv, SessionTypeOK, LockReset, Acquire, At, Goto, objects, frame
<1>1. SessionTypeOK'
  BY DEF SessionTypeOK, CallsKeepParsers, ArgumentsKept, At
<1>2. OwnParsers'
  BY DEF OwnParsers, At
<1>3. CallsKeepParsers'
  BY DEF CallsKeepParsers, OwnParsers, At
<1>4. ArgumentsKept'
  BY DEF ArgumentsKept, At
<1>5. LocksHeld'
  BY DEF LocksHeld, CallsKeepParsers, At
<1>6. RangesHoldForAParse'
  BY DEF RangesHoldForAParse, OwnParsers, CallsKeepParsers, LocksHeld, At
<1> QED BY <1>1, <1>2, <1>3, <1>4, <1>5, <1>6 DEF SessionInv

\* reset() keeps the ranges.
LEMMA ResetStep ==
  ASSUME SessionInv, NEW t \in Thread, Reset(t)
  PROVE  SessionInv'
<1> USE RangeLists, NullIsNothing DEF SessionInv, SessionTypeOK, Reset, Return, At, Goto, objects, frame
<1>1. SessionTypeOK'
  BY DEF SessionTypeOK, CallsKeepParsers, ArgumentsKept, At
<1>2. OwnParsers'
  BY DEF OwnParsers, At
<1>3. CallsKeepParsers'
  BY DEF CallsKeepParsers, OwnParsers, At
<1>4. ArgumentsKept'
  BY DEF ArgumentsKept, At
<1>5. LocksHeld'
  BY DEF LocksHeld, CallsKeepParsers, At
<1>6. RangesHoldForAParse'
  BY DEF RangesHoldForAParse, OwnParsers, CallsKeepParsers, LocksHeld, At
<1> QED BY <1>1, <1>2, <1>3, <1>4, <1>5, <1>6 DEF SessionInv

\* Steps that leave the parsers and their calls alone.
LEMMA SessionStays ==
  ASSUME SessionInv, UNCHANGED session
  PROVE  SessionInv'
  BY DEF session, objects, frame, SessionInv, SessionTypeOK, OwnParsers, CallsKeepParsers,
         ArgumentsKept, LocksHeld, RangesHoldForAParse, At

-----------------------------------------------------------------------------
(* Texts and leaves as sequences *)

\* Texts and leaves are the sequences of at most MaxLength bytes.
LEMMA TextIsSeq ==
  /\ \A s : s \in Text <=> s \in Seq(Letter) /\ Len(s) <= MaxLength
  /\ \A l : l \in Leaves <=> l \in Seq(Letter \cup {Changed}) /\ Len(l) <= MaxLength
<1>1. ASSUME NEW S
      PROVE  \A s : s \in UNION {[1 .. n -> S] : n \in 0 .. MaxLength}
                    <=> s \in Seq(S) /\ Len(s) <= MaxLength
  <2> TAKE s
  <2>1. ASSUME NEW n \in 0 .. MaxLength, s \in [1 .. n -> S]
        PROVE  s \in Seq(S) /\ Len(s) <= MaxLength
    <3>1. n \in Nat
      BY Texts
    <3>2. s \in Seq(S)
      BY <2>1, <3>1, SeqDef
    <3>3. Len(s) = n
      BY <2>1, <3>1, <3>2, LenProperties
    <3> QED BY <3>2, <3>3, Texts
  <2>2. ASSUME s \in Seq(S), Len(s) <= MaxLength
        PROVE  \E n \in 0 .. MaxLength : s \in [1 .. n -> S]
    <3>1. Len(s) \in Nat /\ s \in [1 .. Len(s) -> S]
      BY <2>2, LenProperties
    <3>2. Len(s) \in 0 .. MaxLength
      BY <2>2, <3>1, Texts
    <3> QED BY <3>1, <3>2
  <2> QED BY <2>1, <2>2
<1> QED BY <1>1 DEF Text, Leaves

\* What splicing makes of a sequence, byte by byte.
SplicedBytes(r, S, s, start, end, m) ==
    /\ r \in Seq(S)
    /\ Len(r) = start + Len(m) + (Len(s) - end)
    /\ \A i \in 1 .. start + Len(m) + (Len(s) - end) :
          r[i] = IF i <= start THEN s[i]
                 ELSE IF i <= start + Len(m) THEN m[i - start]
                 ELSE s[i - (start + Len(m)) + end]

\* Splicing, for every sequence and all offsets in it.
LEMMA SplicedSeq ==
  ASSUME NEW S, NEW s \in Seq(S), NEW m \in Seq(S),
         NEW end \in 0 .. Len(s), NEW start \in 0 .. end
  PROVE  SplicedBytes(Spliced(s, start, end, m), S, s, start, end, m)
<1> DEFINE p == SubSeq(s, 1, start)
           q == SubSeq(s, end + 1, Len(s))
<1>1. Len(s) \in Nat /\ Len(m) \in Nat /\ start \in Nat /\ end \in Nat
  BY LenProperties
<1>2. \A i \in 1 .. Len(s) : s[i] \in S
  BY ElementOfSeq
<1>3. p \in Seq(S) /\ Len(p) = start /\ \A i \in 1 .. start : p[i] = s[i]
  <2>1. \A i \in 1 .. start : s[i] \in S
    BY <1>1, <1>2
  <2> QED BY <1>1, <2>1, SubSeqProperties
<1>4. /\ q \in Seq(S) /\ Len(q) = Len(s) - end
      /\ \A i \in 1 .. Len(s) - end : q[i] = s[end + i]
  <2>1. \A i \in end + 1 .. Len(s) : s[i] \in S
    BY <1>1, <1>2
  <2>2. end + 1 \in Int /\ Len(s) \in Int
    BY <1>1
  <2>3. /\ q \in Seq(S)
        /\ Len(q) = IF end + 1 <= Len(s) THEN Len(s) - (end + 1) + 1 ELSE 0
        /\ \A i \in 1 .. Len(s) - (end + 1) + 1 : q[i] = s[(end + 1) + i - 1]
    BY <2>1, <2>2, SubSeqProperties
  <2> QED BY <1>1, <2>3
<1> HIDE DEF p, q
<1>5. /\ p \o m \in Seq(S) /\ Len(p \o m) = start + Len(m)
      /\ \A i \in 1 .. start + Len(m) :
            (p \o m)[i] = IF i <= start THEN p[i] ELSE m[i - start]
  BY <1>3, ConcatProperties
<1>6. /\ (p \o m) \o q \in Seq(S)
      /\ Len((p \o m) \o q) = start + Len(m) + (Len(s) - end)
      /\ \A i \in 1 .. start + Len(m) + (Len(s) - end) :
            ((p \o m) \o q)[i] = IF i <= start + Len(m) THEN (p \o m)[i]
                                 ELSE q[i - (start + Len(m))]
  BY <1>4, <1>5, ConcatProperties
<1>7. Spliced(s, start, end, m) = (p \o m) \o q
  BY DEF Spliced, p, q
<1>8. ASSUME NEW i \in 1 .. start + Len(m) + (Len(s) - end)
      PROVE  ((p \o m) \o q)[i] =
                 IF i <= start THEN s[i]
                 ELSE IF i <= start + Len(m) THEN m[i - start]
                 ELSE s[i - (start + Len(m)) + end]
  <2>0. i \in Nat
    BY <1>1
  <2>1. CASE i <= start
    BY <1>1, <1>3, <1>5, <1>6, <2>1
  <2>2. CASE start < i /\ i <= start + Len(m)
    BY <1>1, <1>5, <1>6, <2>2
  <2>3. CASE start + Len(m) < i
    <3>1. i - (start + Len(m)) \in 1 .. Len(s) - end
      BY <1>1, <2>3
    <3>2. q[i - (start + Len(m))] = s[end + (i - (start + Len(m)))]
      BY <1>4, <3>1
    <3>3. end + (i - (start + Len(m))) = i - (start + Len(m)) + end
      BY <1>1, <2>0
    <3>4. ((p \o m) \o q)[i] = q[i - (start + Len(m))]
      BY <1>1, <1>6, <2>0, <2>3
    <3>5. ~(i <= start) /\ ~(i <= start + Len(m))
      BY <1>1, <2>0, <2>3
    <3> QED BY <3>2, <3>3, <3>4, <3>5
  <2>4. i <= start \/ (start < i /\ i <= start + Len(m)) \/ start + Len(m) < i
    BY <1>1, <2>0
  <2> QED BY <2>1, <2>2, <2>3, <2>4, Zenon
<1> QED BY <1>6, <1>7, <1>8 DEF SplicedBytes

\* The leaves of a text: as many, each the letter there or marked.
LeavesFit(l, d) ==
    Len(l) = Len(d) /\ \A i \in DOMAIN l : l[i] \in {Changed, d[i]}

\* An edit of a text and the same edit of leaves that fit it: they fit again.
LEMMA EditFits ==
  ASSUME NEW d \in Text, NEW l \in Leaves, LeavesFit(l, d), NEW e \in Edit, Fits(d, e)
  PROVE  /\ NativeEdit(l, e) \in Leaves
         /\ Spliced(d, e.start, e.oldEnd, e.text) \in Text
         /\ LeavesFit(NativeEdit(l, e), Spliced(d, e.start, e.oldEnd, e.text))
<1> DEFINE L == Letter \cup {Changed}
           n == Len(e.text)
           d2 == Spliced(d, e.start, e.oldEnd, e.text)
           l2 == NativeEdit(l, e)
<1>1. d \in Seq(Letter) /\ Len(d) \in Nat /\ Len(d) <= MaxLength
  BY TextIsSeq, LenProperties
<1>2. /\ l \in Seq(L) /\ Len(l) = Len(d) /\ DOMAIN l = 1 .. Len(d)
      /\ \A i \in 1 .. Len(d) : l[i] \in {Changed, d[i]}
  BY TextIsSeq, LenProperties DEF LeavesFit
<1>3. e.text \in Seq(Letter) /\ n \in Nat /\ e.text \in [1 .. n -> Letter]
  BY Texts, TextIsSeq, LenProperties
<1>4. e.oldEnd \in 0 .. Len(d) /\ e.start \in 0 .. e.oldEnd
      /\ e.start + n + (Len(d) - e.oldEnd) <= MaxLength
  BY <1>1, <1>3, Texts DEF Fits
<1>5. NewBytes(e) = [i \in 1 .. n |-> Changed]
  BY <1>3, LenProperties DEF NewBytes
<1>6. NewBytes(e) \in Seq(L) /\ Len(NewBytes(e)) = n /\ \A i \in 1 .. n : NewBytes(e)[i] = Changed
  <2>1. NewBytes(e) \in [1 .. n -> L]
    BY <1>5
  <2>2. NewBytes(e) \in Seq(L)
    BY <1>3, <2>1, SeqDef
  <2> QED BY <1>3, <1>5, <2>1, <2>2, LenProperties
<1> HIDE DEF L, n
<1>7. /\ d2 \in Seq(Letter) /\ Len(d2) = e.start + n + (Len(d) - e.oldEnd)
      /\ \A i \in 1 .. e.start + n + (Len(d) - e.oldEnd) :
            d2[i] = IF i <= e.start THEN d[i]
                    ELSE IF i <= e.start + n THEN e.text[i - e.start]
                    ELSE d[i - (e.start + n) + e.oldEnd]
  <2> DEFINE sp == Spliced(d, e.start, e.oldEnd, e.text)
  <2>1. SplicedBytes(sp, Letter, d, e.start, e.oldEnd, e.text)
    <3>1. d \in Seq(Letter) /\ e.text \in Seq(Letter)
      BY <1>1, <1>3
    <3>2. e.oldEnd \in 0 .. Len(d) /\ e.start \in 0 .. e.oldEnd
      BY <1>4
    <3> QED BY <3>1, <3>2, SplicedSeq, Zenon DEF sp
  <2> QED BY <2>1 DEF n, SplicedBytes
<1>8. /\ l2 \in Seq(L) /\ Len(l2) = e.start + n + (Len(d) - e.oldEnd)
      /\ \A i \in 1 .. e.start + n + (Len(d) - e.oldEnd) :
            l2[i] = IF i <= e.start THEN l[i]
                    ELSE IF i <= e.start + n THEN NewBytes(e)[i - e.start]
                    ELSE l[i - (e.start + n) + e.oldEnd]
  <2>1. e.oldEnd \in 0 .. Len(l)
    BY <1>2, <1>4
  <2>2. l2 = Spliced(l, e.start, e.oldEnd, NewBytes(e))
    BY DEF NativeEdit
  <2>3. l \in Seq(L) /\ NewBytes(e) \in Seq(L) /\ e.start \in 0 .. e.oldEnd
    BY <1>2, <1>4, <1>6
  <2> HIDE DEF l2
  <2>4. SplicedBytes(l2, L, l, e.start, e.oldEnd, NewBytes(e))
    BY <2>1, <2>2, <2>3, SplicedSeq, Zenon
  <2>5. Len(NewBytes(e)) = n /\ Len(l) = Len(d)
    BY <1>2, <1>6
  <2> QED BY <2>4, <2>5 DEF SplicedBytes
<1> HIDE DEF d2, l2
<1>9. d2 \in Text /\ l2 \in Leaves
  BY <1>4, <1>7, <1>8, TextIsSeq DEF L
<1>10. ASSUME NEW i \in 1 .. e.start + n + (Len(d) - e.oldEnd)
       PROVE  l2[i] \in {Changed, d2[i]}
  <2> DEFINE s == e.start
  <2>0. /\ i \in Nat /\ s \in Nat /\ n \in Nat
        /\ l2[i] = IF i <= s THEN l[i]
                   ELSE IF i <= s + n THEN NewBytes(e)[i - s]
                   ELSE l[i - (s + n) + e.oldEnd]
    BY <1>1, <1>3, <1>4, <1>8
  <2>1. CASE i <= e.start
    <3>1. i \in 1 .. Len(d)
      BY <1>1, <1>4, <2>1
    <3>2. l2[i] = l[i] /\ d2[i] = d[i]
      BY <1>7, <2>0, <2>1
    <3> QED BY <1>2, <3>1, <3>2
  <2>2. CASE e.start < i /\ i <= e.start + n
    <3>1. i - s \in 1 .. n /\ l2[i] = NewBytes(e)[i - s]
      <4> HIDE DEF l2
      <4>1. ~(i <= s) /\ i <= s + n
        BY <2>0, <2>2
      <4>2. l2[i] = NewBytes(e)[i - s]
        BY <2>0, <4>1, Zenon
      <4>3. i - s \in 1 .. n
        BY <2>0, <4>1
      <4> QED BY <4>2, <4>3
    <3> HIDE DEF s
    <3> QED BY <1>6, <3>1
  <2>3. CASE e.start + n < i
    <3>1. i - (e.start + n) + e.oldEnd \in 1 .. Len(d)
      BY <1>1, <1>3, <1>4, <2>3
    <3>2. /\ l2[i] = l[i - (e.start + n) + e.oldEnd]
          /\ d2[i] = d[i - (e.start + n) + e.oldEnd]
      BY <1>1, <1>3, <1>4, <1>7, <1>8, <2>3
    <3> QED BY <1>2, <3>1, <3>2
  <2> QED BY <1>1, <1>3, <1>4, <2>1, <2>2, <2>3
<1>11. DOMAIN l2 = 1 .. e.start + n + (Len(d) - e.oldEnd)
  BY <1>8, LenProperties
<1>12. LeavesFit(l2, d2)
  BY <1>7, <1>8, <1>10, <1>11 DEF LeavesFit
<1> QED BY <1>9, <1>12 DEF d2, l2

\* With the leaves of its own text, edited or not, a parse finds the text.
LEMMA ReparsedIsText ==
  ASSUME NEW s \in Text, NEW l \in Leaves, LeavesFit(l, s)
  PROVE  Reparsed(s, l) = s
<1>1. s \in [1 .. Len(s) -> Letter] /\ DOMAIN s = 1 .. Len(s)
  BY TextIsSeq, LenProperties
<1>2. \A i \in DOMAIN s : Reparsed(s, l)[i] = s[i]
  BY <1>1 DEF LeavesFit, Reparsed
<1> QED BY <1>1, <1>2 DEF Reparsed

-----------------------------------------------------------------------------
(* The trees *)

TreesOK ==
    /\ tree \in [Tree -> [native : Tree, source : Source] \cup {Null}]
    /\ leaves \in [Tree -> Leaves \cup {Null}]
    /\ document \in [Tree -> Text \cup {Null}]
    /\ OwnTrees /\ LeavesKnown /\ IncrementalIsFresh

UsageOK ==
    /\ old \in [Thread -> Tree \cup {Null}]
    /\ known \in [Thread -> BOOLEAN]
    /\ OldTreesKept /\ KnownTexts

\* The invariant in the parts that steps change.
LEMMA InvParts == Inv <=> SessionInv /\ TreesOK /\ UsageOK
  BY DEF Inv, TypeOK, TreesOK, UsageOK, SessionInv

LEMMA InvPartsNext ==
  ASSUME SessionInv', TreesOK', UsageOK'
  PROVE  Inv'
  BY DEF Inv, TypeOK, TreesOK, UsageOK, SessionInv

\* A tree's native tree is known by the tree's name.
LEMMA FreshLeaves ==
  ASSUME TreesOK, NEW x \in Tree, tree[x] # Null
  PROVE  /\ tree[x].native = x /\ tree[x].source \in Source
         /\ document[x] # Null =>
               document[x] \in Text /\ leaves[x] \in Leaves /\ LeavesFit(leaves[x], document[x])
<1>1. tree[x].native = x /\ tree[x].source \in Source
  BY DEF TreesOK, OwnTrees
<1> QED BY <1>1 DEF TreesOK, LeavesKnown, IncrementalIsFresh, LeavesFit

\* A new tree with leaves that fit its text, or with unknown ones.
LEMMA NewTreeOK ==
  ASSUME TreesOK, NEW x \in Tree, NEW l, NEW s \in Source, NEW d, NewTree(x, l, s, d),
         \/ l = Null /\ d = Null
         \/ l \in Leaves /\ d \in Text /\ LeavesFit(l, d)
  PROVE  /\ TreesOK'
         /\ \A y \in Tree : tree[y] # Null => tree'[y] = tree[y] /\ document'[y] = document[y]
<1> DEFINE r == [native |-> x, source |-> s]
<1>1. /\ r \in [native : Tree, source : Source]
      /\ Null \notin Text /\ Null \notin Leaves /\ Null \notin [native : Tree, source : Source]
      /\ r.native = x
  BY NullIsNoTree
<1>2. /\ tree \in [Tree -> [native : Tree, source : Source] \cup {Null}]
      /\ leaves \in [Tree -> Leaves \cup {Null}]
      /\ document \in [Tree -> Text \cup {Null}]
  BY DEF TreesOK
<1>3. /\ tree[x] = Null
      /\ tree' = [tree EXCEPT ![x] = r]
      /\ leaves' = [leaves EXCEPT ![x] = l]
      /\ document' = [document EXCEPT ![x] = d]
  BY DEF NewTree
<1>4. l \in Leaves \cup {Null} /\ d \in Text \cup {Null}
  OBVIOUS
<1> HIDE DEF r
<1>5. /\ tree' \in [Tree -> [native : Tree, source : Source] \cup {Null}]
      /\ leaves' \in [Tree -> Leaves \cup {Null}]
      /\ document' \in [Tree -> Text \cup {Null}]
      /\ tree'[x] = r /\ leaves'[x] = l /\ document'[x] = d
      /\ \A y \in Tree : y # x => /\ tree'[y] = tree[y] /\ leaves'[y] = leaves[y]
                                  /\ document'[y] = document[y]
  BY <1>1, <1>2, <1>3, <1>4
<1>6. OwnTrees'
  BY <1>1, <1>5 DEF OwnTrees, TreesOK
<1>7. LeavesKnown'
  BY <1>1, <1>5 DEF LeavesKnown, TreesOK
<1>8. \A y \in Tree : tree'[y] # Null => tree'[y].native = y
  BY <1>6 DEF OwnTrees
<1>9. ASSUME NEW y \in Tree, tree'[y] # Null, document'[y] # Null
      PROVE  LeavesFit(leaves'[y], document'[y])
  <2>1. CASE y = x
    BY <1>5, <1>9, <2>1
  <2>2. CASE y # x
    BY <1>5, <1>9, <2>2, FreshLeaves
  <2> QED BY <2>1, <2>2
<1>10. IncrementalIsFresh'
  BY <1>8, <1>9 DEF IncrementalIsFresh, LeavesFit
<1> QED BY <1>3, <1>5, <1>6, <1>7, <1>10 DEF TreesOK

\* What other calls of the parser do to the trees and their users: nothing.
LEMMA OtherCalls ==
  ASSUME TreesOK, UsageOK, UNCHANGED <<trees, usage>>,
         \A t \in Thread : pc[t] \in {"parse", "parsing"}
                           => pc'[t] = pc[t] /\ source'[t] = source[t]
  PROVE  TreesOK' /\ UsageOK'
<1>1. UNCHANGED <<tree, leaves, document, old, known>>
  BY DEF trees, usage
<1>2. TreesOK'
  BY <1>1 DEF TreesOK, OwnTrees, LeavesKnown, IncrementalIsFresh
<1>3. OldTreesKept'
  BY <1>1 DEF UsageOK, OldTreesKept
<1>4. KnownTexts'
  BY <1>1 DEF UsageOK, KnownTexts, At
<1> QED BY <1>1, <1>2, <1>3, <1>4 DEF UsageOK

\* The user of a tree goes on, the trees stay.
LEMMA TreesStay ==
  ASSUME TreesOK, UNCHANGED trees
  PROVE  TreesOK'
  BY DEF TreesOK, trees, OwnTrees, LeavesKnown, IncrementalIsFresh

\* A parse is called with the lock not yet taken, and its old tree exists.
LEMMA parseIncrementalStep ==
  ASSUME Inv, NEW t \in Thread, NEW p \in Parser, NEW s \in Source, NEW x \in Tree,
         parseIncremental(t, p, s, x)
  PROVE  Inv'
<1>1. CallParse(t, p, s) /\ tree[x] # Null /\ old' = [old EXCEPT ![t] = x]
      /\ UNCHANGED <<tree, leaves, document, known>>
  BY DEF parseIncremental, trees
<1>2. SessionInv /\ TreesOK /\ UsageOK
  BY InvParts
<1>3. SessionInv'
  BY <1>1, <1>2, CallParseStep
<1>4. TreesOK'
  BY <1>1, <1>2, TreesStay DEF trees
<1>5. /\ source \in [Thread -> Source \cup {Null}]
      /\ pc[t] = "idle" /\ pc'[t] = "parse" /\ \A u \in Thread : u # t => pc'[u] = pc[u]
      /\ source' = [source EXCEPT ![t] = s]
  BY <1>1, <1>2 DEF SessionInv, SessionTypeOK, CallParse, Enter, At, Goto
<1>6. OldTreesKept'
  BY <1>1, <1>2, <1>5 DEF UsageOK, OldTreesKept
<1>7. KnownTexts'
  BY <1>1, <1>2, <1>5 DEF UsageOK, KnownTexts, At
<1>8. UsageOK'
  BY <1>1, <1>2, <1>6, <1>7 DEF UsageOK
<1> QED BY <1>3, <1>4, <1>8, InvPartsNext

\* Whether the text of the parse is the document of its old tree is decided
\* when the parse begins.
LEMMA BeginParseStep ==
  ASSUME Inv, NEW t \in Thread, BeginParse(t)
  PROVE  Inv'
<1>1. LockParse(t) /\ UNCHANGED <<tree, leaves, document, old>>
  BY DEF BeginParse, trees
<1>2. SessionInv /\ TreesOK /\ UsageOK
  BY InvParts
<1>3. SessionInv'
  BY <1>1, <1>2, LockParseStep
<1>4. TreesOK'
  BY <1>1, <1>2, TreesStay DEF trees
<1>5. /\ pc[t] = "parse" /\ pc'[t] = "parsing" /\ \A u \in Thread : u # t => pc'[u] = pc[u]
      /\ source' = source
  BY <1>1, <1>2 DEF SessionInv, SessionTypeOK, LockParse, At, Goto
<1>6. known' = IF old[t] = Null THEN known
               ELSE [known EXCEPT ![t] = document[old[t]] = source[t]]
  BY DEF BeginParse
<1>7. known' \in [Thread -> BOOLEAN]
  BY <1>2, <1>6 DEF UsageOK
<1>8. OldTreesKept'
  BY <1>1, <1>2, <1>5 DEF UsageOK, OldTreesKept
<1>9. KnownTexts'
  <2> SUFFICES ASSUME NEW u \in Thread, known'[u]
               PROVE  pc'[u] = "parsing" /\ old'[u] # Null /\ document'[old'[u]] = source'[u]
    BY DEF KnownTexts, At
  <2>1. CASE u = t
    <3>1. ~known[t]
      BY <1>2, <1>5 DEF UsageOK, KnownTexts, At
    <3>2. old[t] # Null
      BY <1>6, <2>1, <3>1
    <3>3. known'[t] = (document[old[t]] = source[t])
      BY <1>2, <1>6, <3>2 DEF UsageOK
    <3> QED BY <1>1, <1>5, <2>1, <3>2, <3>3
  <2>2. CASE u # t
    <3>1. known[u]
      BY <1>2, <1>6, <2>2 DEF UsageOK
    <3> QED BY <1>1, <1>2, <1>5, <2>2, <3>1 DEF UsageOK, KnownTexts, At
  <2> QED BY <2>1, <2>2
<1>10. UsageOK'
  BY <1>1, <1>2, <1>7, <1>8, <1>9 DEF UsageOK
<1> QED BY <1>3, <1>4, <1>10, InvPartsNext

\* A parse ends: nothing is left of it, other users keep their trees.
LEMMA ForgetOK ==
  ASSUME SessionInv, UsageOK, NEW t \in Thread, EndParse(t), Forget(t),
         \A y \in Tree : tree[y] # Null => tree'[y] = tree[y] /\ document'[y] = document[y]
  PROVE  UsageOK'
<1>1. /\ source \in [Thread -> Source \cup {Null}]
      /\ \A u \in Thread : u # t => pc'[u] = pc[u]
      /\ pc'[t] = "idle" /\ source' = [source EXCEPT ![t] = Null]
  BY DEF SessionInv, SessionTypeOK, EndParse, Return, At, Goto
<1>2. /\ old \in [Thread -> Tree \cup {Null}] /\ known \in [Thread -> BOOLEAN]
      /\ old' = [old EXCEPT ![t] = Null] /\ known' = [known EXCEPT ![t] = FALSE]
  BY DEF UsageOK, Forget
<1>3. OldTreesKept'
  BY <1>1, <1>2 DEF UsageOK, OldTreesKept
<1>4. KnownTexts'
  <2> SUFFICES ASSUME NEW u \in Thread, known'[u]
               PROVE  pc'[u] = "parsing" /\ old'[u] # Null /\ document'[old'[u]] = source'[u]
    BY DEF KnownTexts, At
  <2>1. u # t /\ known[u]
    BY <1>2
  <2>2. pc[u] = "parsing" /\ old[u] # Null /\ document[old[u]] = source[u] /\ tree[old[u]] # Null
    BY <2>1 DEF UsageOK, KnownTexts, OldTreesKept, At
  <2>3. pc'[u] = pc[u] /\ source'[u] = source[u] /\ old'[u] = old[u]
    BY <1>1, <1>2, <2>1
  <2>4. old[u] \in Tree
    BY <1>2, <2>2
  <2> QED BY <2>2, <2>3, <2>4
<1> QED BY <1>2, <1>3, <1>4 DEF UsageOK

\* A text fits itself, read as leaves.
LEMMA TextFits ==
  ASSUME NEW s \in Text
  PROVE  s \in Leaves /\ LeavesFit(s, s)
<1>1. s \in Seq(Letter) /\ Len(s) <= MaxLength
  BY TextIsSeq
<1>2. s \in Seq(Letter \cup {Changed})
  <2>1. Len(s) \in Nat /\ s \in [1 .. Len(s) -> Letter]
    BY <1>1, LenProperties
  <2>2. s \in [1 .. Len(s) -> Letter \cup {Changed}]
    BY <2>1
  <2> QED BY <2>1, <2>2, SeqDef
<1> QED BY <1>1, <1>2, TextIsSeq DEF LeavesFit

\* The tree of a parse fits its text: from nothing, or from an old tree that
\* knows the text; otherwise its leaves are not known.
LEMMA ParsedStep ==
  ASSUME Inv, NEW t \in Thread, Parsed(t)
  PROVE  Inv'
<1>1. SessionInv /\ TreesOK /\ UsageOK
  BY InvParts
<1>2. EndParse(t) /\ Forget(t)
  BY DEF Parsed
<1>3. SessionInv'
  BY <1>1, <1>2, EndParseStep
<1>4. source[t] \in Source /\ source[t] \in Text
  BY <1>1, <1>2, Texts DEF SessionInv, ArgumentsKept, EndParse, At
<1>5. PICK x \in Tree :
          IF old[t] = Null
          THEN NewTree(x, source[t], source[t], source[t])
          ELSE IF known[t]
          THEN NewTree(x, Reparsed(source[t], leaves[tree[old[t]].native]),
                       source[t], source[t])
          ELSE NewTree(x, Null, source[t], Null)
  BY DEF Parsed
<1>6. source[t] \in Leaves /\ LeavesFit(source[t], source[t])
  BY <1>4, TextFits
<1>7. NewTree(x, source[t], source[t], source[t]) \/ NewTree(x, Null, source[t], Null)
  <2>1. CASE old[t] # Null /\ known[t]
    <3>1. old[t] \in Tree /\ tree[old[t]] # Null /\ document[old[t]] = source[t]
      BY <1>1, <2>1 DEF UsageOK, OldTreesKept, KnownTexts
    <3>2. document[old[t]] # Null
      BY <1>4, <3>1, NullIsNoTree
    <3>3. /\ tree[old[t]].native = old[t] /\ leaves[old[t]] \in Leaves
          /\ LeavesFit(leaves[old[t]], source[t])
      BY <1>1, <3>1, <3>2, FreshLeaves
    <3>4. Reparsed(source[t], leaves[old[t]]) = source[t]
      BY <1>4, <3>3, ReparsedIsText
    <3> QED BY <1>5, <2>1, <3>3, <3>4
  <2>2. CASE ~(old[t] # Null /\ known[t])
    BY <1>5, <2>2
  <2> QED BY <2>1, <2>2
<1>8. /\ TreesOK'
      /\ \A y \in Tree : tree[y] # Null => tree'[y] = tree[y] /\ document'[y] = document[y]
  <2>1. CASE NewTree(x, source[t], source[t], source[t])
    BY <1>1, <1>4, <1>6, <2>1, NewTreeOK
  <2>2. CASE NewTree(x, Null, source[t], Null)
    BY <1>1, <1>4, <2>2, NewTreeOK
  <2> QED BY <1>7, <2>1, <2>2
<1>9. UsageOK'
  BY <1>1, <1>2, <1>8, ForgetOK
<1> QED BY <1>3, <1>8, <1>9, InvPartsNext

\* A parse that fails makes no tree.
LEMMA ParseFailedStep ==
  ASSUME Inv, NEW t \in Thread, ParseFailed(t)
  PROVE  Inv'
<1>1. SessionInv /\ TreesOK /\ UsageOK
  BY InvParts
<1>2. EndParse(t) /\ Forget(t) /\ UNCHANGED trees
  BY DEF ParseFailed
<1>3. SessionInv' /\ TreesOK'
  BY <1>1, <1>2, EndParseStep, TreesStay
<1>4. UsageOK'
  BY <1>1, <1>2, ForgetOK DEF trees
<1> QED BY <1>3, <1>4, InvPartsNext

\* The users of the trees go on when a script changes a tree no call depends on.
LEMMA UsersStay ==
  ASSUME UsageOK, UNCHANGED <<session, old>>, known' \in [Thread -> BOOLEAN],
         \A t \in Thread : known'[t] => known[t],
         \A y \in Tree : tree[y] # Null /\ (\E t \in Thread : old[t] = y) => tree'[y] # Null,
         \A t \in Thread : known'[t] => document'[old[t]] = document[old[t]]
  PROVE  UsageOK'
<1>1. UNCHANGED <<pc, source, old>>
  BY DEF session, frame
<1>2. OldTreesKept'
  BY <1>1 DEF UsageOK, OldTreesKept
<1>3. KnownTexts'
  BY <1>1 DEF UsageOK, KnownTexts, At
<1> QED BY <1>1, <1>2, <1>3 DEF UsageOK

\* edit() changes leaves and document together, and the parses from this tree
\* know their text no longer.
LEMMA editStep ==
  ASSUME Inv, NEW x \in Tree, NEW e \in Edit, edit(x, e)
  PROVE  Inv'
<1>1. SessionInv /\ TreesOK /\ UsageOK
  BY InvParts
<1>2. tree[x] # Null /\ UNCHANGED <<session, tree, old>>
  BY DEF edit
<1>3. tree[x].native = x /\ (document[x] # Null => Fits(document[x], e))
  BY <1>1, <1>2, FreshLeaves DEF edit
<1>4. /\ tree \in [Tree -> [native : Tree, source : Source] \cup {Null}]
      /\ leaves \in [Tree -> Leaves \cup {Null}]
      /\ document \in [Tree -> Text \cup {Null}]
      /\ leaves[x] = Null <=> document[x] = Null
      /\ Null \notin Leaves /\ Null \notin Text
  BY <1>1, NullIsNoTree DEF TreesOK, LeavesKnown
<1> DEFINE l2 == IF leaves[x] = Null THEN Null ELSE NativeEdit(leaves[x], e)
           d2 == IF document[x] = Null THEN Null
                 ELSE Spliced(document[x], e.start, e.oldEnd, e.text)
<1>5. /\ leaves' = [leaves EXCEPT ![x] = l2]
      /\ document' = [document EXCEPT ![x] = d2]
      /\ known' = [t \in Thread |-> known[t] /\ old[t] # x]
  BY <1>3, <1>4 DEF edit
<1>6. \/ l2 = Null /\ d2 = Null
      \/ l2 \in Leaves /\ d2 \in Text /\ LeavesFit(l2, d2)
  <2>1. CASE document[x] = Null
    BY <1>4, <2>1
  <2>2. CASE document[x] # Null
    <3>1. document[x] \in Text /\ leaves[x] \in Leaves /\ LeavesFit(leaves[x], document[x])
      BY <1>1, <1>2, <2>2, FreshLeaves
    <3> QED BY <1>3, <1>4, <2>2, <3>1, EditFits
  <2> QED BY <2>1, <2>2
<1> HIDE DEF l2, d2
<1>7. /\ leaves' \in [Tree -> Leaves \cup {Null}]
      /\ document' \in [Tree -> Text \cup {Null}]
      /\ leaves'[x] = l2 /\ document'[x] = d2
      /\ \A y \in Tree : y # x => leaves'[y] = leaves[y] /\ document'[y] = document[y]
  BY <1>4, <1>5, <1>6
<1>8. OwnTrees' /\ LeavesKnown'
  BY <1>1, <1>2, <1>4, <1>6, <1>7 DEF TreesOK, OwnTrees, LeavesKnown
<1>9. ASSUME NEW y \in Tree, tree[y] # Null, document'[y] # Null
      PROVE  tree[y].native = y /\ LeavesFit(leaves'[y], document'[y])
  <2>1. CASE y = x
    BY <1>3, <1>4, <1>6, <1>7, <1>9, <2>1
  <2>2. CASE y # x
    BY <1>1, <1>7, <1>9, <2>2, FreshLeaves
  <2> QED BY <2>1, <2>2
<1>10. IncrementalIsFresh'
  BY <1>2, <1>9 DEF IncrementalIsFresh, LeavesFit
<1>11. TreesOK'
  BY <1>2, <1>4, <1>7, <1>8, <1>10 DEF TreesOK
<1>12. SessionInv'
  BY <1>1, <1>2, SessionStays
<1>13. UsageOK'
  <2>1. /\ known' \in [Thread -> BOOLEAN]
        /\ \A t \in Thread : known'[t] => known[t] /\ old[t] # x
    BY <1>1, <1>5 DEF UsageOK
  <2>2. \A t \in Thread : known'[t] => old[t] \in Tree
    BY <1>1, <2>1 DEF UsageOK, KnownTexts
  <2>3. \A t \in Thread : known'[t] => document'[old[t]] = document[old[t]]
    BY <1>7, <2>1, <2>2
  <2> QED BY <1>1, <1>2, <2>1, <2>3, UsersStay
<1> QED BY <1>11, <1>12, <1>13, InvPartsNext

\* A copy has a native tree with the leaves of the original.
LEMMA CopyTreeStep ==
  ASSUME Inv, NEW x \in Tree, NEW y \in Tree, CopyTree(x, y)
  PROVE  Inv'
<1>1. SessionInv /\ TreesOK /\ UsageOK
  BY InvParts
<1>2. tree[x] # Null /\ UNCHANGED <<session, old, known>>
      /\ NewTree(y, leaves[tree[x].native], tree[x].source, document[x])
  BY DEF CopyTree, usage
<1>3. /\ tree[x].native = x /\ tree[x].source \in Source
      /\ document[x] # Null => document[x] \in Text /\ leaves[x] \in Leaves
                               /\ LeavesFit(leaves[x], document[x])
  BY <1>1, <1>2, FreshLeaves
<1>4. document[x] = Null => leaves[x] = Null
  BY <1>1 DEF TreesOK, LeavesKnown
<1>5. NewTree(y, leaves[x], tree[x].source, document[x])
  BY <1>2, <1>3
<1>6. /\ TreesOK'
      /\ \A z \in Tree : tree[z] # Null => tree'[z] = tree[z] /\ document'[z] = document[z]
  BY <1>1, <1>3, <1>4, <1>5, NewTreeOK
<1>7. SessionInv'
  BY <1>1, <1>2, SessionStays
<1>8. UsageOK'
  <2>1. \A t \in Thread : known[t] => old[t] \in Tree /\ tree[old[t]] # Null
    BY <1>1 DEF UsageOK, KnownTexts, OldTreesKept
  <2>2. known \in [Thread -> BOOLEAN]
    BY <1>1 DEF UsageOK
  <2>3. \A t \in Thread : known'[t] => document'[old[t]] = document[old[t]]
    BY <1>2, <1>6, <2>1
  <2>4. \A z \in Tree : tree[z] # Null => tree'[z] # Null
    BY <1>6
  <2> QED BY <1>1, <1>2, <2>2, <2>3, <2>4, UsersStay
<1> QED BY <1>6, <1>7, <1>8, InvPartsNext

\* A tree that no parse uses is deleted.
LEMMA DeleteTreeStep ==
  ASSUME Inv, NEW x \in Tree, DeleteTree(x)
  PROVE  Inv'
<1>1. SessionInv /\ TreesOK /\ UsageOK
  BY InvParts
<1>2. /\ \A t \in Thread : old[t] # x
      /\ tree' = [tree EXCEPT ![x] = Null]
      /\ leaves' = [leaves EXCEPT ![x] = Null]
      /\ document' = [document EXCEPT ![x] = Null]
      /\ UNCHANGED <<session, old, known>>
  BY DEF DeleteTree, usage
<1>3. /\ tree \in [Tree -> [native : Tree, source : Source] \cup {Null}]
      /\ leaves \in [Tree -> Leaves \cup {Null}]
      /\ document \in [Tree -> Text \cup {Null}]
  BY <1>1 DEF TreesOK
<1>4. /\ tree' \in [Tree -> [native : Tree, source : Source] \cup {Null}]
      /\ leaves' \in [Tree -> Leaves \cup {Null}]
      /\ document' \in [Tree -> Text \cup {Null}]
      /\ tree'[x] = Null /\ leaves'[x] = Null /\ document'[x] = Null
      /\ \A y \in Tree : y # x => /\ tree'[y] = tree[y] /\ leaves'[y] = leaves[y]
                                  /\ document'[y] = document[y]
  BY <1>2, <1>3
<1>5. OwnTrees' /\ LeavesKnown'
  BY <1>1, <1>4 DEF TreesOK, OwnTrees, LeavesKnown
<1>6. ASSUME NEW y \in Tree, tree'[y] # Null, document'[y] # Null
      PROVE  tree'[y].native = y /\ LeavesFit(leaves'[y], document'[y])
  BY <1>1, <1>4, <1>6, FreshLeaves
<1>7. IncrementalIsFresh'
  BY <1>6 DEF IncrementalIsFresh, LeavesFit
<1>8. TreesOK'
  BY <1>4, <1>5, <1>7 DEF TreesOK
<1>9. SessionInv'
  BY <1>1, <1>2, SessionStays
<1>10. UsageOK'
  <2>1. \A t \in Thread : known[t] => old[t] \in Tree
    BY <1>1 DEF UsageOK, KnownTexts
  <2>2. known \in [Thread -> BOOLEAN]
    BY <1>1 DEF UsageOK
  <2>3. \A t \in Thread : known'[t] => document'[old[t]] = document[old[t]]
    BY <1>2, <1>4, <2>1
  <2>4. \A y \in Tree : tree[y] # Null /\ (\E t \in Thread : old[t] = y) => tree'[y] # Null
    BY <1>2, <1>4
  <2> QED BY <1>1, <1>2, <2>2, <2>3, <2>4, UsersStay
<1> QED BY <1>8, <1>9, <1>10, InvPartsNext
-----------------------------------------------------------------------------
(* The invariant and what follows from it *)

\* There are no objects at first.
LEMMA InitInv == Init => Inv
<1> SUFFICES ASSUME Init PROVE Inv
  OBVIOUS
<1>1. SessionInv
  BY RangeLists, NullIsNothing
     DEF Init, SessionInit, SessionInv, SessionTypeOK, OwnParsers, CallsKeepParsers,
         ArgumentsKept, LocksHeld, RangesHoldForAParse, At
<1>2. TreesOK
  BY DEF Init, TreesOK, OwnTrees, LeavesKnown, IncrementalIsFresh
<1>3. UsageOK
  BY DEF Init, UsageOK, OldTreesKept, KnownTexts
<1> QED BY <1>1, <1>2, <1>3, InvParts

\* Calls of a parser that use no tree.
LEMMA OtherStep ==
  ASSUME Inv, SessionInv', UNCHANGED <<trees, usage>>,
         \A t \in Thread : pc[t] \in {"parse", "parsing"}
                           => pc'[t] = pc[t] /\ source'[t] = source[t]
  PROVE  Inv'
  BY OtherCalls, InvParts, InvPartsNext

\* The calls of parsers that do not touch trees.
LEMMA CallsStep ==
  ASSUME Inv, OnParser
  PROVE  Inv'
<1>1. SessionInv
  BY InvParts
<1>2. UNCHANGED <<trees, usage>>
  BY DEF OnParser
<1>3. ASSUME NEW p \in Parser, Construct(p) \/ Destroy(p)
      PROVE  Inv'
  BY <1>1, <1>2, <1>3, ConstructStep, DestroyStep, OtherStep DEF Construct, Destroy, frame
<1>4. ASSUME NEW p \in Parser, NEW q \in Parser, NEW t \in Thread, Copy(t, p, q)
      PROVE  Inv'
  BY <1>1, <1>2, <1>4, CopyStep, OtherStep DEF Copy, frame
<1>5. ASSUME NEW p \in Parser, NEW t \in Thread, NEW r \in Ranges, CallSetRanges(t, p, r)
      PROVE  Inv'
  <2>1. SessionInv'
    BY <1>1, <1>5, CallSetRangesStep
  <2>2. \A u \in Thread : pc[u] \in {"parse", "parsing"}
                          => pc'[u] = pc[u] /\ source'[u] = source[u]
    BY <1>1, <1>5 DEF SessionInv, SessionTypeOK, CallSetRanges, Enter, At, Goto
  <2> QED BY <1>2, <2>1, <2>2, OtherStep
<1>6. ASSUME NEW p \in Parser, NEW t \in Thread, CallReset(t, p)
      PROVE  Inv'
  <2>1. SessionInv'
    BY <1>1, <1>6, CallResetStep
  <2>2. \A u \in Thread : pc[u] \in {"parse", "parsing"}
                          => pc'[u] = pc[u] /\ source'[u] = source[u]
    BY <1>1, <1>6 DEF SessionInv, SessionTypeOK, CallReset, Enter, At, Goto
  <2> QED BY <1>2, <2>1, <2>2, OtherStep
<1> QED BY <1>3, <1>4, <1>5, <1>6 DEF OnParser

\* parse() uses no tree.
LEMMA parseStep ==
  ASSUME Inv, NEW t \in Thread, NEW p \in Parser, NEW s \in Source, parse(t, p, s)
  PROVE  Inv'
<1>1. SessionInv /\ CallParse(t, p, s) /\ UNCHANGED <<trees, usage>>
  BY InvParts DEF parse
<1>2. SessionInv'
  BY <1>1, CallParseStep
<1>3. \A u \in Thread : pc[u] \in {"parse", "parsing"}
                        => pc'[u] = pc[u] /\ source'[u] = source[u]
  BY <1>1 DEF SessionInv, SessionTypeOK, CallParse, Enter, At, Goto
<1> QED BY <1>1, <1>2, <1>3, OtherStep

\* A call takes the mutex of its parser.
LEMMA LockStep ==
  ASSUME Inv, NEW t \in Thread, Lock(t)
  PROVE  Inv'
<1>1. SessionInv
  BY InvParts
<1>2. CASE BeginParse(t)
  BY <1>2, BeginParseStep
<1>3. CASE (LockRanges(t) \/ LockReset(t)) /\ UNCHANGED <<trees, usage>>
  <2>1. SessionInv'
    BY <1>1, <1>3, LockRangesStep, LockResetStep
  <2>2. \A u \in Thread : pc[u] \in {"parse", "parsing"}
                          => pc'[u] = pc[u] /\ source'[u] = source[u]
    BY <1>1, <1>3 DEF SessionInv, SessionTypeOK, LockRanges, LockReset, At, Goto, frame
  <2> QED BY <1>3, <2>1, <2>2, OtherStep
<1> QED BY <1>2, <1>3 DEF Lock

\* A call ends.
LEMMA InsideStep ==
  ASSUME Inv, NEW t \in Thread, Inside(t)
  PROVE  Inv'
<1>1. SessionInv
  BY InvParts
<1>2. CASE Parsed(t) \/ ParseFailed(t)
  BY <1>2, ParsedStep, ParseFailedStep
<1>3. CASE (SetRanges(t) \/ RefuseRanges(t) \/ Reset(t)) /\ UNCHANGED <<trees, usage>>
  <2>1. SessionInv'
    BY <1>1, <1>3, SetRangesStep, RefuseRangesStep, ResetStep
  <2>2. \A u \in Thread : pc[u] \in {"parse", "parsing"}
                          => pc'[u] = pc[u] /\ source'[u] = source[u]
    BY <1>1, <1>3
       DEF SessionInv, SessionTypeOK, SetRanges, RefuseRanges, Reset, Return, At, Goto
  <2> QED BY <1>3, <2>1, <2>2, OtherStep
<1> QED BY <1>2, <1>3 DEF Inside

\* Every step, and every stutter, keeps the invariant.
LEMMA NextInv == Inv /\ [Next]_vars => Inv'
<1> SUFFICES ASSUME Inv, [Next]_vars PROVE Inv'
  OBVIOUS
<1>1. CASE OnParser
  BY <1>1, CallsStep
<1>2. CASE OnTree
  BY <1>2, editStep, CopyTreeStep, DeleteTreeStep DEF OnTree
<1>3. ASSUME NEW t \in Thread, Lock(t) \/ Inside(t)
      PROVE  Inv'
  BY <1>3, LockStep, InsideStep
<1>4. ASSUME NEW t \in Thread, NEW p \in Parser, NEW s \in Source,
             parse(t, p, s) \/ \E x \in Tree : parseIncremental(t, p, s, x)
      PROVE  Inv'
  BY <1>4, parseStep, parseIncrementalStep
<1>5. CASE UNCHANGED vars
  <2>1. SessionInv /\ UNCHANGED session /\ UNCHANGED <<trees, usage>>
    BY <1>5, InvParts DEF vars
  <2>2. SessionInv'
    BY <2>1, SessionStays
  <2> QED BY <2>1, <2>2, OtherStep DEF session, frame
<1> QED BY <1>1, <1>2, <1>3, <1>4, <1>5 DEF Next

\* Inv is an invariant of the specification; the theorems below are parts of it.
THEOREM Invariant == Spec => []Inv
  BY InitInv, NextInv, PTL DEF Spec

\* The variables of sessions and trees keep their types, for any number of
\* threads, parsers and trees (TreeSitterParser.cpp, TreeSitterTree.cpp).
THEOREM TypesOK == Spec => []TypeOK
<1>1. Inv => TypeOK
  BY DEF Inv
<1> QED BY Invariant, <1>1, PTL

\* parse() and parseIncremental() end with the included ranges they began with:
\* the mutex of the object keeps setIncludedRanges() of other threads out, and
\* no copy shares the native parser.
THEOREM RangesHold == Spec => []RangesHoldForAParse
<1>1. Inv => RangesHoldForAParse
  BY DEF Inv, SessionInv
<1> QED BY Invariant, <1>1, PTL

\* A tree whose edits were all reported by edit() knows its text, whatever the
\* texts, the edits and the order of calls: so parseIncremental() gives the
\* tree that parse() would.
THEOREM IncrementalFresh == Spec => []IncrementalIsFresh
<1>1. Inv => IncrementalIsFresh
  BY DEF Inv
<1> QED BY Invariant, <1>1, PTL

\* The nodes of a tree that was parsed, copied or parsed from another one read
\* the text they stand for (TreeSitterNode::getText()).
THEOREM NodesRead == Spec => []NodesReadTheirText
<1>1. Inv => NodesReadTheirText
  <2> SUFFICES ASSUME Inv, NEW x \in Tree, tree[x] # Null, document[x] = tree[x].source
               PROVE  LET l == leaves[tree[x].native] IN
                          /\ l # Null
                          /\ \A i \in DOMAIN l : l[i] \in {Changed, TextOf(x, i)}
    BY DEF NodesReadTheirText
  <2>1. TreesOK
    BY InvParts
  <2>2. tree[x].native = x /\ tree[x].source \in Source /\ tree[x].source \in Text
    BY <2>1, FreshLeaves, Texts
  <2>3. document[x] # Null
    BY <2>2, NullIsNoTree
  <2>4. leaves[x] \in Leaves /\ LeavesFit(leaves[x], document[x])
    BY <2>1, <2>3, FreshLeaves
  <2>5. DOMAIN leaves[x] = 1 .. Len(leaves[x]) /\ Len(leaves[x]) = Len(document[x])
    BY <2>4, TextIsSeq, LenProperties DEF LeavesFit
  <2>6. leaves[x] # Null
    BY <2>4, NullIsNoTree
  <2>7. ASSUME NEW i \in DOMAIN leaves[x]
        PROVE  leaves[x][i] \in {Changed, TextOf(x, i)}
    <3>1. i \in 1 .. Len(document[x]) /\ leaves[x][i] \in {Changed, document[x][i]}
      BY <2>2, <2>4, <2>5 DEF LeavesFit
    <3>2. Len(document[x]) \in Nat
      BY <2>2, TextIsSeq, LenProperties
    <3>3. TextOf(x, i) = document[x][i]
      BY <3>1, <3>2 DEF TextOf
    <3> QED BY <3>1, <3>3
  <2> QED BY <2>2, <2>6, <2>7
<1> QED BY Invariant, <1>1, PTL
=============================================================================
