------------------------ MODULE QueryPredicatesProofs ------------------------
(***************************************************************************)
(* Proofs about QueryPredicates, for all patterns, matches and texts and   *)
(* any number of threads.                                                  *)
(*                                                                         *)
(* The flat array holds the predicates one after the other (Layout); at    *)
(* its place each is found with the arguments it was written with          *)
(* (AtPlace), and what an action decides of it is what it means            *)
(* (EqMeans, AnyOfMeans, IsMeans, MatchMeans, IgnoreMeans).  So a walk     *)
(* stands at a predicate with every one before it found to hold (WalkInv). *)
(* The directives are put together from the end of the array (CollectsAll).*)
(***************************************************************************)
EXTENDS QueryPredicates, SequenceTheorems, WellFoundedInduction, TLAPS

-----------------------------------------------------------------------------
(* Lemmas about numbers and sequences *)

\* A set of numbers has a least one.
LEMMA Least ==
  ASSUME NEW S \in SUBSET Nat, S # {}
  PROVE  \E k \in S : \A l \in S : k <= l
<1>1. PICK k \in S : \A l \in S : ~(<<l, k>> \in OpToRel(<, Nat))
  BY NatLessThanWellFounded, WFMin
<1>2. ASSUME NEW l \in S, l < k
      PROVE  FALSE
  <2>1. <<l, k>> \in Nat \X Nat /\ <<l, k>>[1] < <<l, k>>[2]
    BY <1>2
  <2>2. <<l, k>> \in OpToRel(<, Nat)
    BY <2>1, Zenon DEF OpToRel
  <2> QED BY <1>1, <2>2
<1> QED BY <1>2

LEMMA Concatenated ==
  ASSUME NEW S, NEW s \in Seq(S), NEW t \in Seq(S)
  PROVE  /\ s \o t \in Seq(S) /\ Len(s \o t) = Len(s) + Len(t)
         /\ Len(s) \in Nat /\ Len(t) \in Nat
         /\ \A i \in 1 .. Len(s) : (s \o t)[i] = s[i]
         /\ \A i \in 1 .. Len(t) : (s \o t)[Len(s) + i] = t[i]
OBVIOUS

\* FlattenSeq() is defined by recursion: the parts flattened so far.
LEMMA FlattenedSoFar ==
  ASSUME NEW S, NEW parts \in Seq(Seq(S)), Len(parts) > 0
  PROVE  \E flat \in [1 .. Len(parts) -> Seq(S)] :
            /\ flat[1] = parts[1]
            /\ \A i \in 2 .. Len(parts) : flat[i] = flat[i - 1] \o parts[i]
            /\ FlattenSeq(parts) = flat[Len(parts)]
<1> DEFINE n == Len(parts)
           Flat(f, m) == /\ f \in [1 .. m -> Seq(S)] /\ f[1] = parts[1]
                         /\ \A i \in 2 .. m : f[i] = f[i - 1] \o parts[i]
           Some(m) == \E f : Flat(f, m)
           Bad == {m \in 1 .. n : ~Some(m)}
           Fix(f) == f = [i \in 1 .. n |-> IF i = 1 THEN parts[i] ELSE f[i - 1] \o parts[i]]
           flatten == CHOOSE f : Fix(f)
<1>1. n \in Nat /\ n > 0 /\ \A i \in 1 .. n : parts[i] \in Seq(S)
  OBVIOUS
<1>2. FlattenSeq(parts) = flatten[n]
  BY <1>1 DEF FlattenSeq
<1> HIDE DEF n, flatten
<1>3. Some(1)
  <2>1. Flat([i \in 1 .. 1 |-> parts[1]], 1)
    BY <1>1
  <2> HIDE DEF Flat
  <2> QED BY <2>1
<1>4. ASSUME NEW m \in 2 .. n, Some(m - 1)
      PROVE  Some(m)
  <2>1. PICK f : Flat(f, m - 1)
    BY <1>4
  <2>2. m - 1 \in 1 .. m - 1 /\ m \in 1 .. n /\ m \in Nat
    BY <1>1
  <2>3. f[m - 1] \o parts[m] \in Seq(S)
    BY <1>1, <2>1, <2>2
  <2> DEFINE g == [i \in 1 .. m |-> IF i = m THEN f[m - 1] \o parts[m] ELSE f[i]]
  <2>4. g \in [1 .. m -> Seq(S)]
    BY <2>1, <2>2, <2>3
  <2>5. g[1] = parts[1]
    BY <2>1, <2>2
  <2>6. ASSUME NEW i \in 2 .. m
        PROVE  g[i] = g[i - 1] \o parts[i]
    <3>1. i \in 1 .. m /\ i - 1 \in 1 .. m /\ i - 1 # m /\ g[i - 1] = f[i - 1]
      BY <2>2
    <3>2. CASE i = m
      BY <3>1, <3>2
    <3>3. CASE i # m
      <4>1. i \in 2 .. m - 1 /\ g[i] = f[i]
        BY <2>2, <3>1, <3>3
      <4> QED BY <2>1, <3>1, <4>1
    <3> QED BY <3>2, <3>3
  <2>7. Flat(g, m)
    BY <2>4, <2>5, <2>6
  <2> HIDE DEF Flat
  <2> QED BY <2>7
<1>5. Some(n)
  <2> HIDE DEF Some
  <2> SUFFICES ASSUME Bad # {} PROVE FALSE
    BY <1>1
  <2>0. Bad \in SUBSET Nat
    BY <1>1
  <2>1. PICK m \in Bad : \A l \in Bad : m <= l
    BY <2>0, Least
  <2>2. m \in 2 .. n /\ m - 1 \in 1 .. n /\ m - 1 \notin Bad
    BY <1>1, <1>3, <2>1
  <2> QED BY <1>4, <2>1, <2>2
<1>6. PICK f : Flat(f, n)
  BY <1>5
<1>7. Fix(f)
  <2>1. ASSUME NEW i \in 1 .. n
        PROVE  f[i] = IF i = 1 THEN parts[i] ELSE f[i - 1] \o parts[i]
    <3>1. CASE i = 1
      BY <1>6, <3>1
    <3>2. CASE i # 1
      <4>1. i \in 2 .. n
        BY <1>1, <3>2
      <4> QED BY <1>6, <3>2, <4>1
    <3> QED BY <3>1, <3>2
  <2> QED BY <1>6, <2>1
<1>8. Fix(flatten)
  <2> HIDE DEF Fix
  <2> QED BY <1>7 DEF flatten
<1>9. flatten[n] = f[n]
  <2> DEFINE Other == {m \in 1 .. n : flatten[m] # f[m]}
  <2> SUFFICES ASSUME Other # {} PROVE FALSE
    BY <1>1
  <2>0. Other \in SUBSET Nat
    BY <1>1
  <2>1. PICK m \in Other : \A l \in Other : m <= l
    BY <2>0, Least
  <2>2. m # 1 => m - 1 \in 1 .. n /\ flatten[m - 1] = f[m - 1]
    BY <1>1, <2>1
  <2>3. flatten[m] = IF m = 1 THEN parts[m] ELSE flatten[m - 1] \o parts[m]
    BY <1>8, <2>1
  <2>4. f[m] = IF m = 1 THEN parts[m] ELSE f[m - 1] \o parts[m]
    BY <1>7, <2>1
  <2> QED BY <2>1, <2>2, <2>3, <2>4
<1> QED BY <1>2, <1>6, <1>9 DEF n

\* The parts lie one after the other in what FlattenSeq() returns.
LEMMA Flattened ==
  ASSUME NEW S, NEW parts \in Seq(Seq(S))
  PROVE  /\ FlattenSeq(parts) \in Seq(S)
         /\ \E off \in [1 .. Len(parts) + 1 -> Nat] :
              /\ off[1] = 0 /\ Len(FlattenSeq(parts)) = off[Len(parts) + 1]
              /\ \A k \in 1 .. Len(parts) :
                    /\ off[k + 1] = off[k] + Len(parts[k])
                    /\ \A j \in 1 .. Len(parts[k]) :
                          FlattenSeq(parts)[off[k] + j] = parts[k][j]
<1> DEFINE n == Len(parts)
<1>1. n \in Nat /\ \A i \in 1 .. n : parts[i] \in Seq(S) /\ Len(parts[i]) \in Nat
  OBVIOUS
<1>2. CASE n = 0
  <2>1. parts = <<>>
    BY <1>2
  <2>2. FlattenSeq(parts) = <<>>
    BY <2>1, <1>2 DEF FlattenSeq
  <2>3. \E off \in [1 .. 1 -> Nat] : off[1] = 0
    <3> WITNESS [k \in 1 .. 1 |-> 0] \in [1 .. 1 -> Nat]
    <3> QED OBVIOUS
  <2>4. n + 1 = 1 /\ 1 .. n = {} /\ Len(FlattenSeq(parts)) = 0 /\ FlattenSeq(parts) \in Seq(S)
    BY <1>2, <2>2
  <2>5. PICK off : off \in [1 .. 1 -> Nat] /\ off[1] = 0
    BY <2>3
  <2>6. /\ off \in [1 .. Len(parts) + 1 -> Nat] /\ Len(FlattenSeq(parts)) = off[Len(parts) + 1]
        /\ 1 .. Len(parts) = {}
    BY <2>4, <2>5
  <2> QED BY <2>4, <2>5, <2>6
<1>3. CASE n > 0
  <2>1. PICK flat \in [1 .. n -> Seq(S)] :
            /\ flat[1] = parts[1]
            /\ \A i \in 2 .. n : flat[i] = flat[i - 1] \o parts[i]
            /\ FlattenSeq(parts) = flat[n]
    BY <1>3, FlattenedSoFar
  <2> DEFINE off == [k \in 1 .. n + 1 |-> IF k = 1 THEN 0 ELSE Len(flat[k - 1])]
             Lies(k, m) == /\ off[k + 1] <= Len(flat[m])
                           /\ \A j \in 1 .. Len(parts[k]) : flat[m][off[k] + j] = parts[k][j]
             Placed(m) == \A k \in 1 .. m : Lies(k, m)
             Bad == {m \in 1 .. n : ~Placed(m)}
  <2> HIDE DEF n
  <2>2. \A i \in 1 .. n : flat[i] \in Seq(S) /\ Len(flat[i]) \in Nat
    BY <2>1
  <2>3. /\ off \in [1 .. n + 1 -> Nat] /\ off[1] = 0
        /\ \A k \in 1 .. n : off[k + 1] = Len(flat[k]) /\ off[k] \in Nat
    BY <1>1, <2>2
  <2> HIDE DEF off
  <2>4. ASSUME NEW k \in 2 .. n
        PROVE  /\ k \in 1 .. n /\ k - 1 \in 1 .. n /\ off[k] = Len(flat[k - 1])
               /\ Len(flat[k]) = Len(flat[k - 1]) + Len(parts[k])
               /\ \A i \in 1 .. Len(flat[k - 1]) : flat[k][i] = flat[k - 1][i]
               /\ \A i \in 1 .. Len(parts[k]) : flat[k][Len(flat[k - 1]) + i] = parts[k][i]
    <3>1. k \in 1 .. n /\ k - 1 \in 1 .. n /\ (k - 1) + 1 = k
      BY <1>1
    <3>2. off[k] = Len(flat[k - 1]) /\ flat[k] = flat[k - 1] \o parts[k]
      BY <2>1, <2>3, <3>1
    <3> QED BY <1>1, <2>2, <3>1, <3>2, Concatenated
  <2>5. \A k \in 1 .. n : off[k + 1] = off[k] + Len(parts[k])
    <3> TAKE k \in 1 .. n
    <3>1. CASE k = 1
      BY <2>1, <2>3, <3>1, <1>1
    <3>2. CASE k # 1
      <4>1. k \in 2 .. n /\ k \in 1 .. n
        BY <1>1, <3>2
      <4> QED BY <2>3, <2>4, <4>1
    <3> QED BY <3>1, <3>2
  <2>6. Placed(1)
    <3>1. Lies(1, 1)
      BY <1>1, <1>3, <2>1, <2>2, <2>3
    <3> HIDE DEF Lies
    <3> QED BY <3>1
  <2>7. ASSUME NEW m \in 2 .. n, Placed(m - 1)
        PROVE  Placed(m)
    <3> SUFFICES ASSUME NEW k \in 1 .. m PROVE Lies(k, m)
      OBVIOUS
    <3>0. /\ m \in 1 .. n /\ off[m] = Len(flat[m - 1])
          /\ Len(flat[m]) = Len(flat[m - 1]) + Len(parts[m])
      BY <2>4
    <3>1. m \in 1 .. n /\ m - 1 \in 1 .. n /\ k \in 1 .. n
      BY <1>1
    <3>2. CASE k = m
      <4>1. off[m + 1] = Len(flat[m]) /\ off[m] = Len(flat[m - 1]) /\ Len(flat[m]) \in Nat
        BY <2>2, <2>3, <3>0
      <4>2. \A j \in 1 .. Len(parts[m]) : flat[m][off[m] + j] = parts[m][j]
        BY <2>4, <4>1
      <4>3. off[m + 1] <= Len(flat[m])
        BY <4>1
      <4> QED BY <3>2, <4>2, <4>3
    <3>3. CASE k # m
      <4>1. k \in 1 .. m - 1
        BY <3>1, <3>3
      <4>2. Lies(k, m - 1)
        BY <2>7, <4>1
      <4>3. off[k + 1] <= Len(flat[m - 1]) /\ Len(flat[m - 1]) \in Nat /\ Len(flat[m]) \in Nat
            /\ off[k] \in Nat /\ off[k + 1] = off[k] + Len(parts[k]) /\ Len(parts[k]) \in Nat
        BY <1>1, <2>2, <2>3, <2>5, <3>1, <4>2
      <4>4. off[k + 1] <= Len(flat[m])
        <5>1. Len(flat[m]) = Len(flat[m - 1]) + Len(parts[m]) /\ Len(parts[m]) \in Nat
          BY <1>1, <3>0
        <5> DEFINE now == Len(flat[m])
                   before == Len(flat[m - 1])
                   more == Len(parts[m])
        <5>2. before <= now
          <6>1. now = before + more /\ now \in Nat /\ before \in Nat /\ more \in Nat
            BY <4>3, <5>1
          <6> HIDE DEF now, before, more
          <6> QED BY <6>1
        <5> QED BY <4>3, <5>2
      <4>5. ASSUME NEW j \in 1 .. Len(parts[k])
            PROVE  flat[m][off[k] + j] = parts[k][j]
        <5>1. off[k] + j \in 1 .. Len(flat[m - 1])
          BY <4>3
        <5> QED BY <2>4, <4>2, <5>1
      <4> QED BY <4>4, <4>5
    <3> QED BY <3>2, <3>3
  <2>8. Placed(n)
    <3> HIDE DEF Placed
    <3>0. Bad \in SUBSET Nat /\ n \in 1 .. n
      BY <1>1, <1>3
    <3> SUFFICES ASSUME Bad # {} PROVE FALSE
      BY <3>0
    <3>1. PICK m \in Bad : \A l \in Bad : m <= l
      BY <3>0, Least
    <3>2. m \in 2 .. n /\ m - 1 \in 1 .. n /\ m - 1 \notin Bad
      BY <1>1, <2>6, <3>1
    <3> QED BY <2>7, <3>1, <3>2
  <2>9. FlattenSeq(parts) \in Seq(S) /\ Len(FlattenSeq(parts)) = off[n + 1]
    BY <1>1, <1>3, <2>1, <2>2, <2>3
  <2> QED BY <2>1, <2>3, <2>5, <2>8, <2>9 DEF n
<1>4. n = 0 \/ n > 0
  BY <1>1
<1> QED BY <1>2, <1>3, <1>4
-----------------------------------------------------------------------------
(* The array of a pattern *)

\* The steps of one predicate.
Part(p) == <<[kind |-> "name", value |-> p.name]>> \o p.args \o <<Done>>
Step == Argument \cup {[kind |-> "name", value |-> p.name] : p \in Predicate} \cup {Done}

LEMMA PartOf ==
  ASSUME NEW p \in Predicate
  PROVE  /\ Part(p) \in Seq(Step) /\ Len(p.args) \in Nat /\ Len(Part(p)) = Len(p.args) + 2
         /\ Part(p)[1] = [kind |-> "name", value |-> p.name]
         /\ \A j \in 1 .. Len(p.args) : Part(p)[1 + j] = p.args[j]
         /\ Part(p)[Len(p.args) + 2] = Done
<1> DEFINE first == [kind |-> "name", value |-> p.name]
<1>1. first \in Step /\ Done \in Step
  BY DEF Step
<1>2. p.args \in Seq(Argument) /\ Argument \subseteq Step
  BY DEF Predicate, Step
<1>3. p.args \in Seq(Step)
  <2> HIDE DEF first
  <2> QED BY <1>2
<1> HIDE DEF first
<1>4. Part(p) = <<first>> \o p.args \o <<Done>>
  BY DEF Part, first
<1>5. /\ <<first>> \o p.args \in Seq(Step) /\ Len(<<first>> \o p.args) = 1 + Len(p.args)
      /\ Len(p.args) \in Nat /\ (<<first>> \o p.args)[1] = first
      /\ \A j \in 1 .. Len(p.args) : (<<first>> \o p.args)[1 + j] = p.args[j]
  BY <1>1, <1>3
<1> DEFINE begin == <<first>> \o p.args
<1>6. /\ Len(begin \o <<Done>>) = Len(begin) + 1 /\ begin \o <<Done>> \in Seq(Step)
      /\ \A i \in 1 .. Len(begin) : (begin \o <<Done>>)[i] = begin[i]
      /\ (begin \o <<Done>>)[Len(begin) + 1] = Done
  <2>1. begin \in Seq(Step)
    BY <1>5
  <2> HIDE DEF begin
  <2> QED BY <1>1, <2>1
<1>7. \A j \in 1 .. Len(p.args) : 1 + j \in 1 .. Len(begin) /\ 1 \in 1 .. Len(begin)
  BY <1>5
<1>8. 1 \in 1 .. Len(begin) /\ Len(begin) + 1 = Len(p.args) + 2
  BY <1>5
<1> HIDE DEF begin
<1> QED BY <1>4, <1>5, <1>6, <1>7, <1>8 DEF first, begin

\* at[k] is the place of the k-th predicate in the array s.
Laid(at, ps, s) ==
    /\ at \in [1 .. Len(ps) + 1 -> Nat] /\ at[1] = 1 /\ at[Len(ps) + 1] = Len(s) + 1
    /\ \A k \in 1 .. Len(ps) :
          /\ at[k + 1] = at[k] + Len(ps[k].args) + 2
          /\ s[at[k]] = [kind |-> "name", value |-> ps[k].name]
          /\ \A j \in 1 .. Len(ps[k].args) : s[at[k] + j] = ps[k].args[j]
          /\ s[at[k] + Len(ps[k].args) + 1] = Done

LEMMA Layout ==
  ASSUME NEW ps \in Seq(Predicate)
  PROVE  Flatten(ps) \in Seq(Step) /\ \E at : Laid(at, ps, Flatten(ps))
<1> DEFINE n == Len(ps)
           parts == [k \in DOMAIN ps |-> Part(ps[k])]
           s == Flatten(ps)
<1>1. n \in Nat /\ DOMAIN ps = 1 .. n /\ \A k \in 1 .. n : ps[k] \in Predicate
  OBVIOUS
<1>2. \A k \in 1 .. n : Part(ps[k]) \in Seq(Step)
  BY <1>1, PartOf
<1>3. parts \in [1 .. n -> Seq(Step)]
  BY <1>1, <1>2
<1>4. parts \in Seq(Seq(Step)) /\ Len(parts) = n
  BY <1>1, <1>3
<1>5. s = FlattenSeq(parts)
  BY DEF Flatten, Part
<1>6. s \in Seq(Step)
  BY <1>4, <1>5, Flattened
<1>7. PICK off \in [1 .. n + 1 -> Nat] :
         /\ off[1] = 0 /\ Len(s) = off[n + 1]
         /\ \A k \in 1 .. n : /\ off[k + 1] = off[k] + Len(parts[k])
                              /\ \A j \in 1 .. Len(parts[k]) : s[off[k] + j] = parts[k][j]
  <2> HIDE DEF n, parts, s
  <2>1. \E off \in [1 .. Len(parts) + 1 -> Nat] :
           /\ off[1] = 0 /\ Len(FlattenSeq(parts)) = off[Len(parts) + 1]
           /\ \A k \in 1 .. Len(parts) :
                 /\ off[k + 1] = off[k] + Len(parts[k])
                 /\ \A j \in 1 .. Len(parts[k]) : FlattenSeq(parts)[off[k] + j] = parts[k][j]
    BY <1>4, Flattened
  <2> QED BY <1>4, <1>5, <2>1
<1> DEFINE at == [k \in 1 .. n + 1 |-> off[k] + 1]
<1>8. at \in [1 .. n + 1 -> Nat] /\ at[1] = 1 /\ at[n + 1] = Len(s) + 1
  BY <1>1, <1>7
<1>9. ASSUME NEW k \in 1 .. n
      PROVE  /\ at[k + 1] = at[k] + Len(ps[k].args) + 2
             /\ s[at[k]] = [kind |-> "name", value |-> ps[k].name]
             /\ \A j \in 1 .. Len(ps[k].args) : s[at[k] + j] = ps[k].args[j]
             /\ s[at[k] + Len(ps[k].args) + 1] = Done
  <2> DEFINE p == ps[k]
             a == Len(p.args)
             q == Part(p)
  <2>1. /\ a \in Nat /\ Len(q) = a + 2 /\ q[1] = [kind |-> "name", value |-> p.name]
        /\ \A j \in 1 .. a : q[1 + j] = p.args[j]
        /\ q[a + 2] = Done
    BY <1>1, PartOf
  <2>2. parts[k] = q
    BY <1>1
  <2>3. k \in 1 .. n + 1 /\ k + 1 \in 1 .. n + 1 /\ off[k] \in Nat /\ off[k + 1] \in Nat
    BY <1>1, <1>7
  <2>4. at[k] = off[k] + 1 /\ at[k + 1] = off[k + 1] + 1
    BY <2>3
  <2> HIDE DEF n, parts, s, p, q, a, at
  <2>5. off[k + 1] = off[k] + (a + 2) /\ \A j \in 1 .. a + 2 : s[off[k] + j] = q[j]
    BY <1>7, <2>1, <2>2
  <2>6. at[k + 1] = at[k] + a + 2
    BY <2>1, <2>3, <2>4, <2>5
  <2>7. s[at[k]] = q[1]
    BY <2>1, <2>4, <2>5
  <2>8. ASSUME NEW j \in 1 .. a
        PROVE  s[at[k] + j] = q[1 + j]
    <3>1. 1 + j \in 1 .. a + 2 /\ at[k] + j = off[k] + (1 + j)
      BY <2>1, <2>3, <2>4
    <3> QED BY <2>5, <3>1
  <2>9. s[at[k] + a + 1] = q[a + 2]
    <3>1. a + 2 \in 1 .. a + 2 /\ at[k] + a + 1 = off[k] + (a + 2)
      BY <2>1, <2>3, <2>4
    <3> QED BY <2>5, <3>1
  <2> QED BY <2>1, <2>6, <2>7, <2>8, <2>9 DEF p, a
<1>10. Laid(at, ps, s)
  BY <1>8, <1>9 DEF Laid
<1> HIDE DEF at
<1> QED BY <1>6, <1>10

\* What rises from each place to the next one rises.
LEMMA Rises ==
  ASSUME NEW n \in Nat, NEW at \in [1 .. n + 1 -> Nat],
         \A m \in 1 .. n : at[m] < at[m + 1],
         NEW k \in 1 .. n + 1, NEW l \in 1 .. n + 1, k < l
  PROVE  at[k] < at[l]
<1> DEFINE Bad == {m \in 1 .. n + 1 : k < m /\ ~(at[k] < at[m])}
<1> SUFFICES ASSUME Bad # {} PROVE FALSE
  OBVIOUS
<1>1. Bad \in SUBSET Nat
  OBVIOUS
<1>2. PICK m \in Bad : \A i \in Bad : m <= i
  BY <1>1, Least
<1>3. m - 1 \in 1 .. n /\ m - 1 \in 1 .. n + 1 /\ m - 1 \notin Bad /\ (m - 1) + 1 = m
  BY <1>2
<1>4. at[m - 1] < at[m]
  BY <1>3
<1>5. k = m - 1 \/ at[k] < at[m - 1]
  BY <1>2, <1>3
<1>6. at[k] \in Nat /\ at[m - 1] \in Nat /\ at[m] \in Nat
  BY <1>2, <1>3
<1>7. at[k] < at[m]
  <2> HIDE DEF Bad
  <2> QED BY <1>4, <1>5, <1>6
<1> QED BY <1>2, <1>7

LEMMA Increasing ==
  ASSUME NEW ps \in Seq(Predicate), NEW s, NEW at, Laid(at, ps, s)
  PROVE  /\ Len(ps) \in Nat /\ at \in [1 .. Len(ps) + 1 -> Nat]
         /\ \A m \in 1 .. Len(ps) : at[m] < at[m + 1]
         /\ \A k, l \in 1 .. Len(ps) + 1 : k < l => at[k] < at[l]
<1> DEFINE n == Len(ps)
<1>1. n \in Nat /\ at \in [1 .. n + 1 -> Nat]
  BY DEF Laid
<1>2. ASSUME NEW m \in 1 .. n
      PROVE  at[m] < at[m + 1]
  <2> DEFINE a == Len(ps[m].args)
  <2>0. ps[m] \in Predicate
    OBVIOUS
  <2>1. a \in Nat /\ at[m + 1] = at[m] + a + 2
    BY <2>0, PartOf DEF Laid
  <2>2. m \in 1 .. n + 1 /\ m + 1 \in 1 .. n + 1
    BY <1>1
  <2> HIDE DEF a, n
  <2>3. at[m] \in Nat /\ at[m + 1] \in Nat
    BY <1>1, <2>2
  <2> QED BY <2>1, <2>3
<1> HIDE DEF n
<1>3. \A k, l \in 1 .. n + 1 : k < l => at[k] < at[l]
  BY <1>1, <1>2, Rises
<1> QED BY <1>1, <1>2, <1>3 DEF n

-----------------------------------------------------------------------------
(* What a thread sees at the place of a predicate *)

Arrays == predicates \in Patterns /\ steps = Flatten(predicates)

Place == CHOOSE at : Laid(at, predicates, steps)

LEMMA Places ==
  ASSUME Arrays
  PROVE  /\ predicates \in Seq(Predicate) /\ steps \in Seq(Step)
         /\ Laid(Place, predicates, steps)
BY Inputs, Layout, Zenon DEF Arrays, Place

LEMMA Kinds3 ==
  ASSUME NEW p \in Predicate, NEW j \in 1 .. Len(p.args)
  PROVE  p.args[j] \in Argument /\ p.args[j].kind \in {"capture", "string"}
BY DEF Predicate, Argument

LEMMA AtPlace ==
  ASSUME Arrays, NEW k \in 1 .. Len(predicates)
  PROVE  /\ predicates[k] \in Predicate
         /\ Place[k] \in 1 .. Len(steps) /\ Place[k + 1] \in 2 .. Len(steps) + 1
         /\ Place[k] < Place[k + 1] /\ Len(steps) \in Nat
         /\ steps[Place[k]].kind = "name" /\ steps[Place[k]].value = predicates[k].name
         /\ DoneAfter(Place[k]) + 1 = Place[k + 1]
         /\ SubSeq(steps, Place[k] + 1, DoneAfter(Place[k]) - 1) = predicates[k].args
<1> DEFINE n == Len(predicates)
           N == Len(steps)
           p == predicates[k]
           a == Len(p.args)
           i == Place[k]
           d == i + a + 1
<1>1. predicates \in Seq(Predicate) /\ steps \in Seq(Step) /\ Laid(Place, predicates, steps)
  BY Places
<1>2. p \in Predicate /\ n \in Nat /\ N \in Nat
  BY <1>1
<1>3. a \in Nat
  BY <1>2, PartOf
<1>4. p.args \in Seq(Step)
  <2>1. p.args \in Seq(Argument) /\ Argument \subseteq Step
    BY <1>2 DEF Predicate, Step
  <2> HIDE DEF p
  <2> QED BY <2>1
<1>5. /\ Place[1] = 1 /\ Place[n + 1] = N + 1
      /\ Place[k + 1] = i + a + 2
      /\ steps[i] = [kind |-> "name", value |-> p.name]
      /\ \A j \in 1 .. a : steps[i + j] = p.args[j]
      /\ steps[i + a + 1] = Done
  BY <1>1 DEF Laid
<1>6. \A j \in 1 .. a : p.args[j].kind # "done"
  BY <1>2, Kinds3
<1>7. /\ Place \in [1 .. n + 1 -> Nat]
      /\ \A l, m \in 1 .. n + 1 : l < m => Place[l] < Place[m]
  BY <1>1, Increasing
<1>8. i \in Nat /\ i >= 1 /\ i + a + 2 <= N + 1
  <2> DEFINE j == Place[k + 1]
  <2> HIDE DEF n, a, N
  <2>1. k \in 1 .. n + 1 /\ k + 1 \in 1 .. n + 1 /\ 1 \in 1 .. n + 1 /\ n + 1 \in 1 .. n + 1
        /\ (k = 1 \/ 1 < k) /\ (k + 1 = n + 1 \/ k + 1 < n + 1)
    BY <1>2 DEF n
  <2>2. i \in Nat /\ j \in Nat /\ (i = 1 \/ 1 < i) /\ (j = N + 1 \/ j < N + 1)
    BY <1>5, <1>7, <2>1
  <2> HIDE DEF i, j
  <2> QED BY <1>2, <1>3, <1>5, <2>2 DEF j
<1> HIDE DEF n, N, a, i, p
<1>9. d \in Nat /\ d \in i .. N /\ d - 1 = i + a /\ i \in 1 .. N /\ d + 1 = i + a + 2
  BY <1>2, <1>3, <1>8
<1>10. \A e \in i .. d - 1 : steps[e].kind # "done"
  <2> SUFFICES ASSUME NEW e \in i .. d - 1 PROVE steps[e].kind # "done"
    OBVIOUS
  <2>1. CASE e = i
    BY <1>5, <2>1
  <2>2. CASE e # i
    <3>1. e - i \in 1 .. a /\ i + (e - i) = e
      BY <1>3, <1>8, <2>2
    <3> QED BY <1>5, <1>6, <3>1
  <2> QED BY <2>1, <2>2
<1>11. steps[d].kind = "done"
  BY <1>5 DEF Done
<1> HIDE DEF d
<1>12. DoneAfter(i) = d
  <2> DEFINE End(e) == steps[e].kind = "done" /\ \A f \in i .. e - 1 : steps[f].kind # "done"
  <2>1. End(d)
    BY <1>10, <1>11
  <2>2. ASSUME NEW e \in i .. N, End(e)
        PROVE  e = d
    <3>1. e \in Nat
      BY <1>2, <1>8
    <3>2. ~(d < e)
      <4> SUFFICES ASSUME d < e PROVE FALSE
        OBVIOUS
      <4>1. d \in i .. e - 1
        BY <1>9, <3>1
      <4> QED BY <1>11, <2>2, <4>1
    <3>3. ~(e < d)
      <4> SUFFICES ASSUME e < d PROVE FALSE
        OBVIOUS
      <4>1. e \in i .. d - 1
        BY <1>9, <3>1
      <4> QED BY <1>10, <2>2, <4>1
    <3> QED BY <1>9, <3>1, <3>2, <3>3
  <2>3. DoneAfter(i) = CHOOSE e \in i .. N : End(e)
    BY DEF DoneAfter, N
  <2> HIDE DEF End
  <2> QED BY <1>9, <2>1, <2>2, <2>3
<1>13. SubSeq(steps, i + 1, d - 1) = p.args
  <2> DEFINE sub == SubSeq(steps, i + 1, d - 1)
  <2>1. \A j \in i + 1 .. d - 1 : steps[j] \in Step
    <3> TAKE j \in i + 1 .. d - 1
    <3>1. j \in 1 .. N
      BY <1>2, <1>8, <1>9
    <3> QED BY <1>1, <3>1 DEF N
  <2>2. i + 1 \in Int /\ d - 1 \in Int /\ (d - 1) - (i + 1) + 1 = a
        /\ (i + 1 <= d - 1 \/ a = 0) /\ \A j \in 1 .. a : (i + 1) + j - 1 = i + j
    BY <1>3, <1>8, <1>9
  <2>3. /\ sub \in Seq(Step) /\ Len(sub) = IF i + 1 <= d - 1 THEN (d - 1) - (i + 1) + 1 ELSE 0
        /\ \A j \in 1 .. (d - 1) - (i + 1) + 1 : sub[j] = steps[(i + 1) + j - 1]
    BY <2>1, <2>2, SubSeqProperties
  <2> HIDE DEF sub
  <2>4. Len(sub) = a
    BY <1>3, <2>2, <2>3
  <2>5. \A j \in 1 .. a : sub[j] = p.args[j]
    <3> TAKE j \in 1 .. a
    <3>1. sub[j] = steps[i + j]
      BY <2>2, <2>3
    <3> QED BY <1>5, <3>1
  <2>6. \A j \in 1 .. Len(sub) : sub[j] = p.args[j]
    BY <2>4, <2>5
  <2>7. sub = p.args
    BY <1>4, <2>3, <2>4, <2>6, SeqEqual DEF a
  <2> QED BY <2>7 DEF sub
<1>14. Place[k + 1] \in 2 .. N + 1 /\ i < Place[k + 1] /\ Place[k + 1] = d + 1
  BY <1>2, <1>3, <1>5, <1>8, <1>9
<1> QED BY <1>2, <1>5, <1>9, <1>12, <1>13, <1>14 DEF i, p, N
-----------------------------------------------------------------------------
(* What the loop finds there is what the predicate says *)

\* The call of t looks at the k-th predicate.
LooksAt(t, k) ==
    /\ Arrays /\ k \in 1 .. Len(predicates) /\ next[t] = Place[k]
    /\ match[t] \in Seq([name : Capture, node : Node])

LEMMA Looked ==
  ASSUME NEW t \in Thread, NEW k, LooksAt(t, k)
  PROVE  /\ predicates[k] \in Predicate /\ next[t] <= Len(steps)
         /\ steps[next[t]].kind = "name" /\ steps[next[t]].value = predicates[k].name
         /\ Args(t) = predicates[k].args /\ Kinds(t) = Shape(predicates[k])
         /\ DoneAfter(next[t]) + 1 = Place[k + 1]
         /\ predicates[k].args \in Seq(Argument)
<1>1. Arrays /\ k \in 1 .. Len(predicates) /\ next[t] = Place[k]
  BY DEF LooksAt
<1>2. /\ predicates[k] \in Predicate
      /\ Place[k] \in 1 .. Len(steps) /\ Len(steps) \in Nat
      /\ steps[Place[k]].kind = "name" /\ steps[Place[k]].value = predicates[k].name
      /\ DoneAfter(Place[k]) + 1 = Place[k + 1]
      /\ SubSeq(steps, Place[k] + 1, DoneAfter(Place[k]) - 1) = predicates[k].args
  BY <1>1, AtPlace
<1>3. Args(t) = predicates[k].args
  BY <1>1, <1>2, Zenon DEF Args
<1>4. Kinds(t) = Shape(predicates[k])
  BY <1>3, Zenon DEF Kinds, Shape
<1>5. Place[k] <= Len(steps)
  BY <1>2
<1>6. predicates[k].args \in Seq(Argument)
  BY <1>2 DEF Predicate
<1> QED BY <1>1, <1>2, <1>3, <1>4, <1>5, <1>6

\* getCapture() finds the first capture of a name.
LEMMA First ==
  ASSUME NEW t \in Thread, NEW c, match[t] \in Seq([name : Capture, node : Node])
  PROVE  \/ /\ Captured(t, c) = 0 /\ NodesNamed(match[t], c) = {}
         \/ /\ Captured(t, c) # 0 /\ NodesNamed(match[t], c) = {match[t][Captured(t, c)].node}
            /\ match[t][Captured(t, c)].node \in Node
<1> DEFINE m == match[t]
           I == {i \in 1 .. Len(m) : m[i].name = c}
<1>1. Captured(t, c) = IF I # {} THEN Min(I) ELSE 0
  BY DEF Captured, SelectInSeq
<1>2. m \in Seq([name : Capture, node : Node]) /\ Len(m) \in Nat /\ DOMAIN m = 1 .. Len(m)
  OBVIOUS
<1> HIDE DEF m
<1>3. CASE I = {}
  <2>1. \A l \in DOMAIN m : m[l].name # c
    BY <1>2, <1>3
  <2>2. NodesNamed(m, c) = {}
    BY <2>1 DEF NodesNamed
  <2> QED BY <1>1, <1>3, <2>2 DEF m
<1>4. CASE I # {}
  <2>0. I \in SUBSET Nat
    BY <1>2
  <2>1. PICK least \in I : \A j \in I : least <= j
    BY <1>4, <2>0, Least
  <2>2. Min(I) \in I /\ \A j \in I : Min(I) <= j
    <3> HIDE DEF I
    <3> QED BY <2>1 DEF Min
  <2> DEFINE i == Min(I)
  <2> HIDE DEF i
  <2>3. i \in Nat /\ i \in DOMAIN m /\ i >= 1 /\ m[i].name = c /\ m[i].node \in Node
    <3>1. i \in 1 .. Len(m) /\ m[i].name = c
      BY <2>2 DEF i
    <3>2. m[i] \in [name : Capture, node : Node]
      <4> DEFINE R == [name : Capture, node : Node]
      <4>1. m \in Seq(R)
        BY <1>2
      <4> HIDE DEF R
      <4>2. m[i] \in R
        BY <3>1, <4>1
      <4> QED BY <4>2 DEF R
    <3> QED BY <1>2, <3>1, <3>2
  <2>4. \A j \in DOMAIN m : m[j].name = c => i <= j
    BY <1>2, <2>2 DEF i
  <2>5. \A j \in DOMAIN m : m[j].name = c /\ (\A e \in 1 .. j - 1 : m[e].name # c) => j = i
    <3> SUFFICES ASSUME NEW j \in DOMAIN m, m[j].name = c,
                        \A e \in 1 .. j - 1 : m[e].name # c, j # i
                 PROVE  FALSE
      OBVIOUS
    <3>1. j \in Nat /\ i <= j
      BY <1>2, <2>4
    <3>2. i \in 1 .. j - 1
      BY <2>3, <3>1
    <3> QED BY <2>3, <3>2
  <2>6. \A e \in 1 .. i - 1 : m[e].name # c
    <3> SUFFICES ASSUME NEW e \in 1 .. i - 1, m[e].name = c PROVE FALSE
      OBVIOUS
    <3>1. e \in DOMAIN m /\ e < i /\ e \in Nat
      BY <1>2, <2>3
    <3> QED BY <2>3, <2>4, <3>1
  <2>7. NodesNamed(m, c) = {m[i].node}
    <3>1. {l \in DOMAIN m : m[l].name = c /\ \A e \in 1 .. l - 1 : m[e].name # c} = {i}
      BY <2>3, <2>5, <2>6
    <3> QED BY <3>1 DEF NodesNamed
  <2>8. Captured(t, c) = i /\ i # 0
    BY <1>1, <1>4, <2>3 DEF i
  <2> QED BY <2>3, <2>7, <2>8 DEF m
<1> QED BY <1>3, <1>4

\* The text the code compares is the one an argument denotes.
LEMMA Denoted ==
  ASSUME NEW t \in Thread, NEW arg \in Argument,
         match[t] \in Seq([name : Capture, node : Node])
  PROVE  Denotes(match[t], arg) = {ValueOf(t, arg)}
<1>1. CASE arg.kind = "string"
  BY <1>1 DEF Denotes, ValueOf
<1>2. CASE arg.kind # "string"
  <2>1. arg.kind = "capture"
    BY <1>2 DEF Argument
  <2> DEFINE c == arg.value
             found == Captured(t, c)
             nodes == NodesNamed(match[t], c)
  <2>2. (found = 0 /\ nodes = {}) \/ (found # 0 /\ nodes = {match[t][found].node})
    BY First
  <2>3. ValueOf(t, arg) = IF found = 0 THEN Empty ELSE TextOf[match[t][found].node]
    BY <2>1 DEF ValueOf, getCaptureText
  <2>4. Denotes(match[t], arg) = IF nodes = {} THEN {Empty} ELSE {TextOf[n] : n \in nodes}
    BY <1>2 DEF Denotes
  <2> HIDE DEF found, nodes
  <2> QED BY <2>2, <2>3, <2>4
<1> QED BY <1>1, <1>2

\* The arguments a predicate is evaluated with.
LEMMA Usables ==
  ASSUME NEW t \in Thread, NEW k, LooksAt(t, k)
  PROVE  LET p == predicates[k] IN
         /\ p.name \in {"eq?", "not-eq?"} => (Usable(p) <=> TwoValues(t))
         /\ p.name \in {"match?", "not-match?"} => (Usable(p) <=> CaptureThenString(t))
         /\ p.name \in {"any-of?", "not-any-of?"} => (Usable(p) <=> CaptureFirst(t))
         /\ p.name \in {"is?", "is-not?"} => (Usable(p) <=> WithProperty(t))
<1> DEFINE p == predicates[k]
           args == p.args
           n == Len(args)
<1>1. Args(t) = args /\ Kinds(t) = Shape(p) /\ args \in Seq(Argument) /\ n \in Nat
  BY Looked, PartOf
<1>2. DOMAIN args = 1 .. n /\ Shape(p) = [j \in 1 .. n |-> args[j].kind]
  BY <1>1 DEF Shape
<1>3. \A j \in 1 .. n : args[j].kind \in {"capture", "string"} /\ Shape(p)[j] = args[j].kind
  BY <1>1, <1>2 DEF Argument
<1>4. TwoValues(t) <=> n >= 2
  BY <1>1 DEF TwoValues
<1>5. CaptureFirst(t) <=> n >= 2 /\ Shape(p)[1] = "capture"
  BY <1>1, <1>4 DEF CaptureFirst
<1>6. CaptureThenString(t) <=> n >= 2 /\ Shape(p)[1] = "capture" /\ Shape(p)[2] = "string"
  BY <1>1, <1>5 DEF CaptureThenString
<1>7. WithProperty(t) <=> n > 0 /\ (Shape(p)[1] = "capture" => CaptureThenString(t))
  BY <1>1 DEF WithProperty
<1> HIDE DEF args, n, p
<1>8. n >= 2 => (SubSeq(Shape(p), 1, 2) = <<"capture", "string">>
                  <=> Shape(p)[1] = "capture" /\ Shape(p)[2] = "string")
  <2> SUFFICES ASSUME n >= 2
               PROVE  SubSeq(Shape(p), 1, 2) = <<Shape(p)[1], Shape(p)[2]>>
    OBVIOUS
  <2>1. Shape(p) \in Seq({"capture", "string"}) /\ Len(Shape(p)) = n
    BY <1>1, <1>2, <1>3
  <2> DEFINE kinds == Shape(p)
             sub == SubSeq(kinds, 1, 2)
  <2>2. \A j \in 1 .. 2 : kinds[j] \in {"capture", "string"}
    BY <1>1, <1>2, <1>3
  <2> HIDE DEF kinds
  <2>3. sub \in Seq({"capture", "string"}) /\ Len(sub) = 2 /\ \A j \in 1 .. 2 : sub[j] = kinds[j]
    BY <2>2, SubSeqProperties
  <2> HIDE DEF sub
  <2>4. sub = <<kinds[1], kinds[2]>>
    BY <2>3
  <2> QED BY <2>4 DEF kinds, sub
<1>9. p.name \in {"is?", "is-not?"} => (Usable(p) <=> \E j \in {1, 2} \cap 1 .. n : Shape(p)[j] = "string")
  BY <1>2 DEF Usable, args, n
<1>10. (\E j \in {1, 2} \cap 1 .. n : Shape(p)[j] = "string") <=> WithProperty(t)
  BY <1>1, <1>3, <1>6, <1>7
<1>11. p.name \in {"match?", "not-match?"} =>
          (Usable(p) <=> n >= 2 /\ SubSeq(Shape(p), 1, 2) = <<"capture", "string">>)
  BY DEF Usable, args, n
<1>12. p.name \in {"any-of?", "not-any-of?"} => (Usable(p) <=> n >= 2 /\ Shape(p)[1] = "capture")
  BY DEF Usable, args, n
<1>13. p.name \in {"eq?", "not-eq?"} => (Usable(p) <=> n >= 2)
  BY DEF Usable, args, n
<1> QED BY <1>4, <1>5, <1>6, <1>8, <1>9, <1>10, <1>11, <1>12, <1>13 DEF p

\* The meaning of a predicate, name by name.
LEMMA Meaning ==
  ASSUME NEW p, NEW m, NEW md
  PROVE  LET args == p.args
             marked(property, c) == \E x \in NodesNamed(m, c) : RangeOf[x] \in md[property]
             among == \E j \in 2 .. Len(args) : Denotes(m, args[1]) = Denotes(m, args[j])
             found == \E x \in Denotes(m, args[1]) : <<args[2].value, x>> \in Found
             is == IF Shape(p)[1] = "capture" THEN marked(args[2].value, args[1].value)
                   ELSE /\ Len(args) >= 2 /\ Shape(p)[2] = "capture"
                        /\ marked(args[1].value, args[2].value)
         IN  /\ ~Usable(p) => Means(p, m, md)
             /\ p.name \in {"set!", "unknown?"} => Means(p, m, md)
             /\ Usable(p) =>
                  /\ p.name = "eq?" => (Means(p, m, md) <=> Denotes(m, args[1]) = Denotes(m, args[2]))
                  /\ p.name = "not-eq?" => (Means(p, m, md) <=> Denotes(m, args[1]) # Denotes(m, args[2]))
                  /\ p.name = "any-of?" => (Means(p, m, md) <=> among)
                  /\ p.name = "not-any-of?" => (Means(p, m, md) <=> ~among)
                  /\ p.name = "match?" => (Means(p, m, md) <=> found)
                  /\ p.name = "not-match?" => (Means(p, m, md) <=> ~found)
                  /\ p.name = "is?" => (Means(p, m, md) <=> is)
                  /\ p.name = "is-not?" => (Means(p, m, md) <=> ~is)
BY DEF Means

\* A predicate the code ignores says nothing.
LEMMA IgnoreMeans ==
  ASSUME NEW t \in Thread, NEW k, LooksAt(t, k), Ignore(t)
  PROVE  Means(predicates[k], match[t], metadata[t])
<1> DEFINE p == predicates[k]
<1>1. steps[next[t]].value = p.name
  BY Looked
<1>2. p.name \in {"set!", "unknown?"} \/ ~Usable(p)
  BY <1>1, Usables DEF Ignore, Named
<1> QED BY <1>2, Meaning

LEMMA EqMeans ==
  ASSUME NEW t \in Thread, NEW k, LooksAt(t, k), Named(t, {"eq?", "not-eq?"}), TwoValues(t)
  PROVE  ((ValueOf(t, Args(t)[1]) = ValueOf(t, Args(t)[2])) = Named(t, {"eq?"}))
            <=> Means(predicates[k], match[t], metadata[t])
<1> DEFINE p == predicates[k]
           v(j) == ValueOf(t, p.args[j])
           d(j) == Denotes(match[t], p.args[j])
<1>1. p.name \in {"eq?", "not-eq?"} /\ Named(t, {"eq?"}) = (p.name = "eq?")
  BY Looked DEF Named, At
<1>2. Usable(p)
  BY <1>1, Usables
<1>3. Args(t) = p.args /\ p.args[1] \in Argument /\ p.args[2] \in Argument
  BY Looked DEF TwoValues
<1>4. d(1) = {v(1)} /\ d(2) = {v(2)}
  BY <1>3, Denoted DEF LooksAt
<1>5. Means(p, match[t], metadata[t]) <=> IF p.name = "eq?" THEN d(1) = d(2) ELSE d(1) # d(2)
  BY <1>1, <1>2, Meaning
<1> DEFINE equal == v(1) = v(2)
<1>6. equal <=> d(1) = d(2)
  <2> HIDE DEF p, v, d
  <2> QED BY <1>4
<1>7. (ValueOf(t, Args(t)[1]) = ValueOf(t, Args(t)[2])) = equal
  BY <1>3
<1>8. equal \in BOOLEAN
  OBVIOUS
<1> HIDE DEF p, v, d, equal
<1> QED BY <1>1, <1>5, <1>6, <1>7, <1>8 DEF p

LEMMA AnyOfMeans ==
  ASSUME NEW t \in Thread, NEW k, LooksAt(t, k),
         Named(t, {"any-of?", "not-any-of?"}), CaptureFirst(t)
  PROVE  ((\E j \in 2 .. Len(Args(t)) : ValueOf(t, Args(t)[1]) = ValueOf(t, Args(t)[j]))
             = Named(t, {"any-of?"}))
            <=> Means(predicates[k], match[t], metadata[t])
<1> DEFINE p == predicates[k]
           n == Len(p.args)
           v(j) == ValueOf(t, p.args[j])
           d(j) == Denotes(match[t], p.args[j])
           amongValues == \E j \in 2 .. n : v(1) = v(j)
           among == \E j \in 2 .. n : d(1) = d(j)
<1>1. p.name \in {"any-of?", "not-any-of?"} /\ Named(t, {"any-of?"}) = (p.name = "any-of?")
  BY Looked DEF Named, At
<1>2. Usable(p)
  BY <1>1, Usables
<1>3. Args(t) = p.args /\ n \in Nat /\ n >= 2 /\ \A j \in 1 .. n : p.args[j] \in Argument
  BY Looked DEF TwoValues, CaptureFirst
<1>4. \A j \in 1 .. n : d(j) = {v(j)}
  BY <1>3, Denoted DEF LooksAt
<1>5. Means(p, match[t], metadata[t]) <=> IF p.name = "any-of?" THEN among ELSE ~among
  BY <1>1, <1>2, Meaning
<1>6. among <=> amongValues
  <2> HIDE DEF p, v, d, n
  <2> QED BY <1>3, <1>4
<1>7. (\E j \in 2 .. Len(Args(t)) : ValueOf(t, Args(t)[1]) = ValueOf(t, Args(t)[j])) = amongValues
  BY <1>3
<1>8. amongValues \in BOOLEAN
  OBVIOUS
<1> HIDE DEF p, v, d, n, among, amongValues
<1> QED BY <1>1, <1>5, <1>6, <1>7, <1>8 DEF p

LEMMA IsMeans ==
  ASSUME NEW t \in Thread, NEW k, LooksAt(t, k), Named(t, {"is?", "is-not?"}), WithProperty(t)
  PROVE  LET property == IF Kinds(t)[1] = "capture" THEN Args(t)[2] ELSE Args(t)[1]
             captures == {Args(t)[j].value : j \in {l \in {1, 2} \cap DOMAIN Args(t) :
                                                      Kinds(t)[l] = "capture"}}
             found == \E c \in captures :
                        /\ Captured(t, c) # 0
                        /\ RangeOf[match[t][Captured(t, c)].node] \in metadata[t][property.value]
         IN  (found = Named(t, {"is?"})) <=> Means(predicates[k], match[t], metadata[t])
<1> DEFINE p == predicates[k]
           args == p.args
           n == Len(args)
           kinds == Shape(p)
           md == metadata[t]
           property == IF kinds[1] = "capture" THEN args[2] ELSE args[1]
           places == {l \in {1, 2} \cap DOMAIN args : kinds[l] = "capture"}
           captures == {args[j].value : j \in places}
           foundAt(c, q) == Captured(t, c) # 0 /\ RangeOf[match[t][Captured(t, c)].node] \in md[q]
           found == \E c \in captures : foundAt(c, property.value)
           marked(q, c) == \E x \in NodesNamed(match[t], c) : RangeOf[x] \in md[q]
           is == IF kinds[1] = "capture" THEN marked(args[2].value, args[1].value)
                 ELSE n >= 2 /\ kinds[2] = "capture" /\ marked(args[1].value, args[2].value)
<1>1. p.name \in {"is?", "is-not?"} /\ Named(t, {"is?"}) = (p.name = "is?")
  BY Looked DEF Named, At
<1>2. Usable(p)
  BY <1>1, Usables
<1>3. Args(t) = args /\ Kinds(t) = kinds /\ n \in Nat /\ n > 0 /\ DOMAIN args = 1 .. n
      /\ (kinds[1] = "capture" => n >= 2 /\ kinds[2] = "string")
  BY Looked DEF WithProperty, CaptureThenString, CaptureFirst, TwoValues
<1>4. \A c, q : foundAt(c, q) <=> marked(q, c)
  BY First DEF LooksAt
<1>5. Means(p, match[t], md) <=> IF p.name = "is?" THEN is ELSE ~is
  BY <1>1, <1>2, Meaning
<1>6. ASSUME kinds[1] = "capture"
      PROVE  found <=> is
  <2>1. places = {1}
    BY <1>3, <1>6
  <2>2. captures = {args[1].value} /\ property = args[2]
    BY <2>1, <1>6
  <2> HIDE DEF foundAt, marked, captures, property, kinds
  <2>3. found <=> foundAt(args[1].value, args[2].value)
    BY <2>2
  <2> QED BY <1>4, <1>6, <2>3
<1>7. ASSUME kinds[1] # "capture"
      PROVE  found <=> is
  <2> DEFINE second == n >= 2 /\ kinds[2] = "capture"
  <2>1. places = IF second THEN {2} ELSE {}
    BY <1>3, <1>7
  <2> HIDE DEF second, places, kinds, args
  <2>2. captures = (IF second THEN {args[2].value} ELSE {}) /\ property = args[1]
    BY <2>1, <1>7
  <2> HIDE DEF foundAt, marked, captures, property
  <2>3. found <=> second /\ foundAt(args[2].value, args[1].value)
    BY <2>2
  <2> QED BY <1>4, <1>7, <2>3 DEF second
<1>8. found <=> is
  BY <1>6, <1>7
<1>9. Args(t) = args /\ Kinds(t) = kinds
  BY <1>3
<1> HIDE DEF p, is, args, kinds, md
<1> QED BY <1>1, <1>5, <1>8, <1>9 DEF p, md

\* #match? looks for its pattern with what the first capture denotes; a
\* pattern that does not compile is found nowhere.
LEMMA MatchMeans ==
  ASSUME NEW t \in Thread, NEW k, LooksAt(t, k),
         predicates[k].name \in {"match?", "not-match?"}, Usable(predicates[k])
  PROVE  LET found == <<Regex(t), ValueOf(t, Args(t)[1])>> \in Found
         IN  /\ Regex(t) \in Pattern
             /\ (found = (steps[next[t]].value = "match?"))
                   <=> Means(predicates[k], match[t], metadata[t])
             /\ Regex(t) \in Invalid => ~found
<1> DEFINE p == predicates[k]
           v == ValueOf(t, p.args[1])
           r == p.args[2].value
           found == <<r, v>> \in Found
           foundIn == \E x \in Denotes(match[t], p.args[1]) : <<r, x>> \in Found
<1>1. CaptureThenString(t)
  BY Usables
<1>2. /\ Args(t) = p.args /\ p.args[1] \in Argument /\ Len(p.args) >= 2
      /\ p.args[2].kind = "string" /\ steps[next[t]].value = p.name
  BY <1>1, Looked DEF CaptureThenString, CaptureFirst, TwoValues, Kinds
<1>3. Regex(t) = r /\ v = ValueOf(t, Args(t)[1])
  BY <1>2 DEF Regex
<1>4. r \in Pattern
  BY <1>2, RegexArguments DEF LooksAt, Arrays
<1>5. Denotes(match[t], p.args[1]) = {v}
  BY <1>2, Denoted DEF LooksAt
<1>6. foundIn <=> found
  <2> HIDE DEF v, r, p
  <2> QED BY <1>5
<1>7. Means(p, match[t], metadata[t]) <=> IF p.name = "match?" THEN foundIn ELSE ~foundIn
  BY Meaning
<1>8. r \in Invalid => ~found
  BY Regexes
<1>9. found \in BOOLEAN /\ p.name \in {"match?", "not-match?"}
  OBVIOUS
<1> HIDE DEF v, r, p, foundIn
<1>10. (found = (p.name = "match?")) <=> Means(p, match[t], metadata[t])
  BY <1>6, <1>7, <1>9
<1>11. steps[next[t]].value = p.name
  BY <1>2
<1> QED BY <1>3, <1>4, <1>8, <1>10, <1>11 DEF p

-----------------------------------------------------------------------------
(* The walk through the array *)

InRegex == {"find", "compile", "search"}
Walking == InRegex \cup {"loop"}

AllMean(ps, m, md, j) == \A l \in 1 .. j : Means(ps[l], m, md)

\* A call with match m and metadata md is at p, looks at the step nx and has
\* found v: it stands at a predicate, and every one before it holds.
Walk(at, ps, m, md, nx, p, v) ==
    /\ \E k \in 1 .. Len(ps) + 1 :
          /\ nx = at[k]
          /\ p \in Walking => AllMean(ps, m, md, k - 1)
          /\ p \in InRegex => /\ k <= Len(ps) /\ Usable(ps[k])
                              /\ ps[k].name \in {"match?", "not-match?"}
    /\ p \in {"idle", "collect"} => nx = 1
    /\ p \in Walking => v = "none"
    /\ p = "collect" => v = "pass"
    /\ v = "pass" => AllMean(ps, m, md, Len(ps))
    /\ v = "fail" => ~AllMean(ps, m, md, Len(ps))

Walks(t) == Walk(Place, predicates, match[t], metadata[t], next[t], pc[t], verdict[t])

Typed ==
    /\ match \in [Thread -> Matches \cup {<<>>}]
    /\ metadata \in [Thread -> Metadata \cup {NoMetadata}]
    /\ next \in [Thread -> Nat]
    /\ pc \in [Thread -> Walking \cup {"idle", "collect"}]
    /\ verdict \in [Thread -> {"none", "pass", "fail"}]

WalkInv == Arrays /\ Typed /\ \A t \in Thread : Walks(t)

\* A step of one thread leaves the walks of the others where they are.
LEMMA OneWalk ==
  ASSUME WalkInv, NEW t \in Thread, UNCHANGED pattern, Typed',
         \A u \in Thread \ {t} : /\ match'[u] = match[u] /\ metadata'[u] = metadata[u]
                                 /\ next'[u] = next[u] /\ pc'[u] = pc[u]
                                 /\ verdict'[u] = verdict[u],
         Walk(Place, predicates, match'[t], metadata'[t], next'[t], pc'[t], verdict'[t])
  PROVE  WalkInv'
<1>1. Arrays' /\ Place' = Place /\ predicates' = predicates
  BY DEF WalkInv, Arrays, pattern, Place
<1>2. ASSUME NEW u \in Thread
      PROVE  Walks(u)'
  <2>1. CASE u = t
    BY <1>1, <2>1, Zenon DEF Walks
  <2>2. CASE u # t
    BY <1>1, <2>2, Zenon DEF Walks, WalkInv
  <2> QED BY <2>1, <2>2
<1> QED BY <1>1, <1>2 DEF WalkInv

\* Where a walk stands.
LEMMA Standing ==
  ASSUME WalkInv, NEW t \in Thread
  PROVE  /\ match[t] \in Seq([name : Capture, node : Node])
         /\ predicates \in Seq(Predicate) /\ Len(predicates) \in Nat
         /\ Place \in [1 .. Len(predicates) + 1 -> Nat]
         /\ Place[1] = 1 /\ Place[Len(predicates) + 1] = Len(steps) + 1
         /\ \A k \in 1 .. Len(predicates) : next[t] = Place[k] => LooksAt(t, k)
<1>1. Arrays
  BY DEF WalkInv
<1>2. match[t] \in Seq([name : Capture, node : Node])
  <2> DEFINE R == [name : Capture, node : Node]
  <2>1. match[t] \in Matches \cup {<<>>} /\ Matches \subseteq Seq(R)
    BY Inputs DEF WalkInv, Typed
  <2> HIDE DEF R
  <2>2. CASE match[t] \in Matches
    BY <2>1, <2>2 DEF R
  <2>3. CASE match[t] = <<>>
    BY <2>3
  <2> QED BY <2>1, <2>2, <2>3
<1>3. predicates \in Seq(Predicate) /\ Laid(Place, predicates, steps)
  BY <1>1, Places
<1>4. /\ Place \in [1 .. Len(predicates) + 1 -> Nat]
      /\ Place[1] = 1 /\ Place[Len(predicates) + 1] = Len(steps) + 1
  BY <1>3 DEF Laid
<1>5. Len(predicates) \in Nat
  BY <1>3
<1>6. \A k \in 1 .. Len(predicates) : next[t] = Place[k] => LooksAt(t, k)
  BY <1>1, <1>2 DEF LooksAt
<1> QED BY <1>2, <1>3, <1>4, <1>5, <1>6

\* A walk that goes on has found that the predicate it stands at holds; one
\* that ends has found one that does not.
LEMMA DecideStep ==
  ASSUME WalkInv, NEW t \in Thread, UNCHANGED pattern, UNCHANGED call,
         NEW k \in 1 .. Len(predicates), next[t] = Place[k], pc[t] \in Walking,
         AllMean(predicates, match[t], metadata[t], k - 1),
         NEW holds, Decide(t, holds), holds <=> Means(predicates[k], match[t], metadata[t])
  PROVE  WalkInv'
<1> DEFINE n == Len(predicates)
           Says(l) == Means(predicates[l], match[t], metadata[t])
<1>1. LooksAt(t, k) /\ n \in Nat /\ Place \in [1 .. n + 1 -> Nat] /\ Place[1] = 1
  BY Standing
<1>2. DoneAfter(next[t]) + 1 = Place[k + 1]
  BY <1>1, Looked
<1>3. k + 1 \in 1 .. n + 1 /\ 1 \in 1 .. n + 1 /\ k \in 1 .. n /\ (k + 1) - 1 = k
      /\ Place[k + 1] \in Nat
  BY <1>1
<1>4. match' = match /\ metadata' = metadata
  BY DEF call
<1>5. verdict[t] = "none"
  BY DEF WalkInv, Walks, Walk
<1>6. CASE holds
  <2>1. /\ next' = [next EXCEPT ![t] = Place[k + 1]] /\ pc' = [pc EXCEPT ![t] = "loop"]
        /\ verdict' = verdict
    BY <1>2, <1>6 DEF Decide, Advance, Goto
  <2>2. AllMean(predicates, match[t], metadata[t], k)
    <3> SUFFICES ASSUME NEW l \in 1 .. k PROVE Says(l)
      BY DEF AllMean
    <3>1. l = k \/ l \in 1 .. k - 1
      BY <1>3
    <3> QED BY <3>1, <1>6 DEF AllMean
  <2>3. Typed'
    BY <1>3, <1>4, <2>1 DEF WalkInv, Typed, Walking
  <2>4. /\ next'[t] = Place[k + 1] /\ pc'[t] = "loop" /\ verdict'[t] = "none"
        /\ \A u \in Thread \ {t} : next'[u] = next[u] /\ pc'[u] = pc[u] /\ verdict'[u] = verdict[u]
    BY <1>5, <2>1 DEF WalkInv, Typed
  <2>5. Walk(Place, predicates, match[t], metadata[t], Place[k + 1], "loop", "none")
    BY <1>3, <2>2 DEF Walk, Walking, InRegex
  <2> QED BY <1>4, <2>3, <2>4, <2>5, OneWalk
<1>7. CASE ~holds
  <2>1. /\ next' = [next EXCEPT ![t] = 1] /\ pc' = [pc EXCEPT ![t] = "idle"]
        /\ verdict' = [verdict EXCEPT ![t] = "fail"]
    BY <1>7 DEF Decide, Goto
  <2>2. ~AllMean(predicates, match[t], metadata[t], n)
    BY <1>3, <1>7 DEF AllMean
  <2>3. Typed'
    BY <1>4, <2>1 DEF WalkInv, Typed
  <2>4. /\ next'[t] = 1 /\ pc'[t] = "idle" /\ verdict'[t] = "fail"
        /\ \A u \in Thread \ {t} : next'[u] = next[u] /\ pc'[u] = pc[u] /\ verdict'[u] = verdict[u]
    BY <2>1 DEF WalkInv, Typed
  <2>5. Walk(Place, predicates, match[t], metadata[t], 1, "idle", "fail")
    BY <1>1, <1>3, <2>2 DEF Walk, Walking, InRegex
  <2> QED BY <1>4, <2>3, <2>4, <2>5, OneWalk
<1> QED BY <1>6, <1>7

\* A walk inside the loop stands at the end of the array or at a predicate.
LEMMA AtSome ==
  ASSUME WalkInv, NEW t \in Thread, pc[t] \in Walking
  PROVE  \E k \in 1 .. Len(predicates) + 1 :
            /\ next[t] = Place[k] /\ AllMean(predicates, match[t], metadata[t], k - 1)
            /\ k > Len(predicates) => next[t] > Len(steps) /\ pc[t] = "loop"
            /\ k <= Len(predicates) => k \in 1 .. Len(predicates) /\ LooksAt(t, k)
            /\ pc[t] \in InRegex => /\ k <= Len(predicates) /\ Usable(predicates[k])
                                    /\ predicates[k].name \in {"match?", "not-match?"}
<1> DEFINE n == Len(predicates)
<1>1. PICK k \in 1 .. n + 1 :
         /\ next[t] = Place[k] /\ AllMean(predicates, match[t], metadata[t], k - 1)
         /\ pc[t] \in InRegex => /\ k <= n /\ Usable(predicates[k])
                                 /\ predicates[k].name \in {"match?", "not-match?"}
  BY DEF WalkInv, Walks, Walk
<1>2. n \in Nat /\ Place[n + 1] = Len(steps) + 1 /\ Len(steps) \in Nat
  <2>1. steps \in Seq(Step)
    BY Places DEF WalkInv
  <2> QED BY <2>1, Standing
<1>3. \A l \in 1 .. n : next[t] = Place[l] => LooksAt(t, l)
  BY Standing
<1> HIDE DEF n
<1>4. k > n => k = n + 1
  BY <1>2
<1>5. k <= n => k \in 1 .. n
  BY <1>2
<1>6. Len(steps) + 1 > Len(steps)
  BY <1>2
<1> QED BY <1>1, <1>2, <1>3, <1>4, <1>5, <1>6 DEF n, Walking

\* Inside the loop, at a predicate.
LEMMA AtPredicate ==
  ASSUME WalkInv, NEW t \in Thread,
         pc[t] \in InRegex \/ (pc[t] = "loop" /\ next[t] <= Len(steps))
  PROVE  \E k \in 1 .. Len(predicates) :
            /\ LooksAt(t, k) /\ next[t] = Place[k]
            /\ AllMean(predicates, match[t], metadata[t], k - 1)
            /\ pc[t] \in InRegex => /\ Usable(predicates[k])
                                    /\ predicates[k].name \in {"match?", "not-match?"}
<1>1. pc[t] \in Walking
  BY DEF Walking
<1>2. PICK k \in 1 .. Len(predicates) + 1 :
            /\ next[t] = Place[k] /\ AllMean(predicates, match[t], metadata[t], k - 1)
            /\ k > Len(predicates) => next[t] > Len(steps) /\ pc[t] = "loop"
            /\ k <= Len(predicates) => k \in 1 .. Len(predicates) /\ LooksAt(t, k)
            /\ pc[t] \in InRegex => /\ k <= Len(predicates) /\ Usable(predicates[k])
                                    /\ predicates[k].name \in {"match?", "not-match?"}
  BY <1>1, AtSome
<1>3. k \in Nat /\ Len(predicates) \in Nat /\ Len(steps) \in Nat /\ next[t] \in Nat
  <2>1. steps \in Seq(Step)
    BY Places DEF WalkInv
  <2> QED BY <2>1, Standing DEF WalkInv, Typed
<1>4. k <= Len(predicates)
  <2> SUFFICES ASSUME k > Len(predicates) PROVE FALSE
    BY <1>3
  <2>1. next[t] > Len(steps) /\ pc[t] = "loop"
    BY <1>2
  <2> QED BY <1>3, <2>1 DEF InRegex
<1> QED BY <1>2, <1>4

\* A walk moves on inside the loop.
LEMMA MoveStep ==
  ASSUME WalkInv, NEW t \in Thread, UNCHANGED pattern, UNCHANGED call,
         pc[t] \in InRegex \/ (pc[t] = "loop" /\ next[t] <= Len(steps)),
         UNCHANGED <<next, verdict>>,
         NEW s \in Walking, pc' = [pc EXCEPT ![t] = s],
         s \in InRegex /\ pc[t] = "loop" =>
            Named(t, {"match?", "not-match?"}) /\ CaptureThenString(t)
  PROVE  WalkInv'
<1>1. PICK k \in 1 .. Len(predicates) :
            /\ LooksAt(t, k) /\ next[t] = Place[k]
            /\ AllMean(predicates, match[t], metadata[t], k - 1)
            /\ pc[t] \in InRegex => /\ Usable(predicates[k])
                                    /\ predicates[k].name \in {"match?", "not-match?"}
  BY AtPredicate
<1>2. s \in InRegex => Usable(predicates[k]) /\ predicates[k].name \in {"match?", "not-match?"}
  <2> SUFFICES ASSUME s \in InRegex, pc[t] \notin InRegex
               PROVE  Usable(predicates[k]) /\ predicates[k].name \in {"match?", "not-match?"}
    BY <1>1
  <2>1. predicates[k].name \in {"match?", "not-match?"}
    BY <1>1, Looked DEF Named
  <2> QED BY <1>1, <2>1, Usables
<1>3. verdict[t] = "none"
  BY DEF WalkInv, Walks, Walk, Walking
<1>4. k \in 1 .. Len(predicates) + 1 /\ k <= Len(predicates)
  BY Standing
<1>5. Walk(Place, predicates, match[t], metadata[t], Place[k], s, "none")
  BY <1>1, <1>2, <1>4 DEF Walk, Walking, InRegex
<1>6. /\ match' = match /\ metadata' = metadata /\ Typed' /\ pc'[t] = s
      /\ \A u \in Thread \ {t} : pc'[u] = pc[u]
  BY DEF call, WalkInv, Typed
<1> QED BY <1>1, <1>3, <1>5, <1>6, OneWalk

\* The predicates the loop decides, or ignores, without the cache.
LEMMA LoopStep ==
  ASSUME WalkInv, NEW t \in Thread, Ignore(t) \/ Eq(t) \/ AnyOf(t) \/ Is(t)
  PROVE  WalkInv'
<1>1. /\ UNCHANGED pattern /\ UNCHANGED call
      /\ \E names : Named(t, names)
  BY DEF Ignore, Eq, AnyOf, Is
<1>2. pc[t] = "loop" /\ next[t] <= Len(steps) /\ pc[t] \in Walking
  BY <1>1 DEF Named, At, Walking
<1>3. PICK k \in 1 .. Len(predicates) :
            /\ LooksAt(t, k) /\ next[t] = Place[k]
            /\ AllMean(predicates, match[t], metadata[t], k - 1)
  BY <1>2, AtPredicate
<1> DEFINE says == Means(predicates[k], match[t], metadata[t])
<1>4. \E holds : Decide(t, holds) /\ (holds <=> says)
  <2>1. CASE Ignore(t)
    <3>1. says
      BY <1>3, <2>1, IgnoreMeans
    <3>2. Advance(t) /\ pc' = pc /\ verdict' = verdict
      BY <2>1 DEF Ignore, result
    <3>3. Goto(t, "loop")
      BY <1>2, <3>2 DEF Goto, WalkInv, Typed
    <3>4. Decide(t, TRUE)
      BY <3>2, <3>3 DEF Decide
    <3> QED BY <3>1, <3>4
  <2>2. CASE Eq(t)
    <3> DEFINE holds == (ValueOf(t, Args(t)[1]) = ValueOf(t, Args(t)[2])) = Named(t, {"eq?"})
    <3>1. Decide(t, holds)
      BY <2>2 DEF Eq
    <3>2. holds <=> says
      BY <1>3, <2>2, EqMeans DEF Eq
    <3> HIDE DEF holds, says
    <3> QED BY <3>1, <3>2
  <2>3. CASE AnyOf(t)
    <3> DEFINE holds == (\E j \in 2 .. Len(Args(t)) : ValueOf(t, Args(t)[1]) = ValueOf(t, Args(t)[j]))
                          = Named(t, {"any-of?"})
    <3>1. Decide(t, holds)
      BY <2>3 DEF AnyOf
    <3>2. holds <=> says
      BY <1>3, <2>3, AnyOfMeans DEF AnyOf
    <3> HIDE DEF holds, says
    <3> QED BY <3>1, <3>2
  <2>4. CASE Is(t)
    <3> DEFINE property == IF Kinds(t)[1] = "capture" THEN Args(t)[2] ELSE Args(t)[1]
               captures == {Args(t)[j].value : j \in {l \in {1, 2} \cap DOMAIN Args(t) :
                                                        Kinds(t)[l] = "capture"}}
               found == \E c \in captures :
                          /\ Captured(t, c) # 0
                          /\ RangeOf[match[t][Captured(t, c)].node] \in metadata[t][property.value]
               holds == found = Named(t, {"is?"})
    <3>1. Decide(t, holds)
      BY <2>4 DEF Is
    <3>2. holds <=> says
      BY <1>3, <2>4, IsMeans DEF Is
    <3> HIDE DEF holds, says
    <3> QED BY <3>1, <3>2
  <2> QED BY <2>1, <2>2, <2>3, <2>4
<1> HIDE DEF says
<1>5. PICK holds : Decide(t, holds) /\ (holds <=> says)
  BY <1>4
<1> QED BY <1>1, <1>2, <1>3, <1>5, DecideStep DEF says

\* The steps of #match? and #not-match?.
LEMMA MatchStep ==
  ASSUME WalkInv, NEW t \in Thread,
         LockRegex(t) \/ FindRegex(t) \/ Compile(t) \/ InvalidRegex(t) \/ Search(t)
  PROVE  WalkInv'
<1>1. UNCHANGED pattern /\ UNCHANGED call
  BY DEF LockRegex, FindRegex, Compile, InvalidRegex, Search
<1>2. CASE LockRegex(t) \/ FindRegex(t) \/ Compile(t)
  <2>1. UNCHANGED <<next, verdict>>
    BY <1>2 DEF LockRegex, FindRegex, Compile, result
  <2>2. /\ pc[t] \in InRegex \/ (pc[t] = "loop" /\ next[t] <= Len(steps))
        /\ pc[t] = "loop" => Named(t, {"match?", "not-match?"}) /\ CaptureThenString(t)
    BY <1>2 DEF LockRegex, FindRegex, Compile, Named, At, InRegex
  <2>3. \E s \in Walking : pc' = [pc EXCEPT ![t] = s]
    BY <1>2 DEF LockRegex, FindRegex, Compile, Goto, Walking, InRegex
  <2> QED BY <1>1, <2>1, <2>2, <2>3, MoveStep
<1>3. CASE InvalidRegex(t) \/ Search(t)
  <2>1. pc[t] \in InRegex /\ pc[t] \in Walking
    BY <1>3 DEF InvalidRegex, Search, At, InRegex, Walking
  <2>2. PICK k \in 1 .. Len(predicates) :
            /\ LooksAt(t, k) /\ next[t] = Place[k]
            /\ AllMean(predicates, match[t], metadata[t], k - 1)
            /\ Usable(predicates[k])
            /\ predicates[k].name \in {"match?", "not-match?"}
    BY <2>1, AtPredicate
  <2> DEFINE found == <<Regex(t), ValueOf(t, Args(t)[1])>> \in Found
             holds == found = (steps[next[t]].value = "match?")
             says == Means(predicates[k], match[t], metadata[t])
  <2>3. (holds <=> says) /\ (Regex(t) \in Invalid => ~found)
    BY <2>2, MatchMeans
  <2>4. Decide(t, holds)
    <3>1. CASE InvalidRegex(t)
      <4>1. Decide(t, FALSE = (steps[next[t]].value = "match?")) /\ Regex(t) \in Invalid
        BY <3>1 DEF InvalidRegex, Matched
      <4>2. found = FALSE
        BY <2>3, <4>1
      <4> HIDE DEF found
      <4> QED BY <4>1, <4>2
    <3>2. CASE Search(t)
      BY <3>2 DEF Search, Matched
    <3> QED BY <1>3, <3>1, <3>2
  <2>5. Regex(t) \in Pattern
    BY <2>2, MatchMeans
  <2> HIDE DEF holds
  <2> QED BY <1>1, <2>1, <2>2, <2>3, <2>4, DecideStep
<1> QED BY <1>2, <1>3

\* A call begins, ends with a match that passes, or hands out its directives.
LEMMA CallStep ==
  ASSUME WalkInv, NEW t \in Thread,
         Pass(t) \/ Collect(t) \/ \E m \in Matches, md \in Metadata : Call(t, m, md)
  PROVE  WalkInv'
<1> DEFINE n == Len(predicates)
<1>1. n \in Nat /\ Place[1] = 1 /\ 1 \in 1 .. n + 1 /\ n + 1 \in 1 .. n + 1 /\ (n + 1) - 1 = n
      /\ Place[n + 1] = Len(steps) + 1
  BY Standing
<1>2. UNCHANGED pattern
  BY DEF Pass, Collect, Call
<1>3. CASE Pass(t)
  <2>1. /\ pc[t] = "loop" /\ next[t] > Len(steps) /\ match' = match /\ metadata' = metadata
        /\ verdict' = [verdict EXCEPT ![t] = "pass"] /\ next' = [next EXCEPT ![t] = 1]
        /\ pc' = [pc EXCEPT ![t] = "collect"]
    BY <1>3 DEF Pass, At, Goto, call
  <2>2. PICK k \in 1 .. n + 1 :
            /\ AllMean(predicates, match[t], metadata[t], k - 1)
            /\ k <= n => k \in 1 .. n /\ LooksAt(t, k)
    BY <2>1, AtSome DEF Walking
  <2>3. ~(k <= n)
    <3> SUFFICES ASSUME k <= n PROVE FALSE
      OBVIOUS
    <3>1. next[t] <= Len(steps)
      BY <2>2, Looked
    <3>2. steps \in Seq(Step)
      BY Places DEF WalkInv
    <3>3. Len(steps) \in Nat /\ next[t] \in Nat
      BY <3>2 DEF WalkInv, Typed
    <3> QED BY <2>1, <3>1, <3>3
  <2>4. AllMean(predicates, match[t], metadata[t], n)
    <3> HIDE DEF n
    <3>1. k - 1 = n
      BY <1>1, <2>3
    <3> QED BY <2>2, <3>1
  <2>5. Walk(Place, predicates, match[t], metadata[t], 1, "collect", "pass")
    BY <1>1, <2>4 DEF Walk, Walking, InRegex
  <2>6. Typed' /\ pc'[t] = "collect" /\ next'[t] = 1 /\ verdict'[t] = "pass"
        /\ \A u \in Thread \ {t} : pc'[u] = pc[u] /\ next'[u] = next[u] /\ verdict'[u] = verdict[u]
    BY <2>1 DEF WalkInv, Typed
  <2> QED BY <1>2, <2>1, <2>5, <2>6, OneWalk
<1>4. CASE Collect(t)
  <2>1. /\ pc[t] = "collect" /\ match' = match /\ metadata' = metadata /\ next' = next
        /\ verdict' = verdict /\ pc' = [pc EXCEPT ![t] = "idle"]
    BY <1>4 DEF Collect, At, Goto, call
  <2>2. Walk(Place, predicates, match[t], metadata[t], next[t], "idle", verdict[t])
    BY <2>1 DEF Walk, Walks, WalkInv, Walking, InRegex
  <2>3. Typed' /\ pc'[t] = "idle" /\ \A u \in Thread \ {t} : pc'[u] = pc[u]
    BY <2>1 DEF WalkInv, Typed
  <2> QED BY <1>2, <2>1, <2>2, <2>3, OneWalk
<1>5. CASE \E m \in Matches, md \in Metadata : Call(t, m, md)
  <2>1. PICK m \in Matches, md \in Metadata : Call(t, m, md)
    BY <1>5
  <2>2. /\ pc[t] = "idle" /\ match' = [match EXCEPT ![t] = m]
        /\ metadata' = [metadata EXCEPT ![t] = md] /\ verdict' = [verdict EXCEPT ![t] = "none"]
        /\ pc' = [pc EXCEPT ![t] = "loop"] /\ next' = next
    BY <2>1 DEF Call, At, Goto
  <2>3. next[t] = 1
    BY <2>2 DEF WalkInv, Walks, Walk
  <2>4. AllMean(predicates, m, md, 1 - 1)
    BY DEF AllMean
  <2>5. Walk(Place, predicates, m, md, 1, "loop", "none")
    BY <1>1, <2>4 DEF Walk, Walking, InRegex
  <2>6. Typed' /\ match'[t] = m /\ metadata'[t] = md /\ pc'[t] = "loop" /\ verdict'[t] = "none"
        /\ \A u \in Thread \ {t} : /\ match'[u] = match[u] /\ metadata'[u] = metadata[u]
                                   /\ pc'[u] = pc[u] /\ verdict'[u] = verdict[u]
    BY <2>2 DEF WalkInv, Typed, Walking
  <2> QED BY <1>2, <2>2, <2>3, <2>5, <2>6, OneWalk
<1> QED BY <1>3, <1>4, <1>5

LEMMA InitWalk == Init => WalkInv
<1> SUFFICES ASSUME Init PROVE WalkInv
  OBVIOUS
<1>1. Arrays
  BY DEF Init, Arrays
<1>2. Typed
  BY DEF Init, Typed
<1>3. Laid(Place, predicates, steps) /\ predicates \in Seq(Predicate)
  BY <1>1, Places
<1>4. Place[1] = 1 /\ 1 \in 1 .. Len(predicates) + 1
  BY <1>3 DEF Laid
<1>5. \A t \in Thread : next[t] = 1 /\ pc[t] = "idle" /\ verdict[t] = "none"
  BY DEF Init
<1>6. \A t \in Thread : Walks(t)
  BY <1>4, <1>5 DEF Walks, Walk, Walking, InRegex
<1> QED BY <1>1, <1>2, <1>6 DEF WalkInv

\* Every step keeps the walks.
LEMMA NextWalk == WalkInv /\ [Next]_vars => WalkInv'
<1> SUFFICES ASSUME WalkInv, [Next]_vars PROVE WalkInv'
  OBVIOUS
<1>1. ASSUME NEW t \in Thread,
             Evaluate(t) \/ \E m \in Matches, md \in Metadata : Call(t, m, md)
      PROVE  WalkInv'
  BY <1>1, LoopStep, MatchStep, CallStep DEF Evaluate
<1>2. CASE UNCHANGED vars
  <2>1. UNCHANGED <<predicates, steps, match, metadata, next, pc, verdict>>
    BY <1>2 DEF vars, pattern, call, result
  <2> QED BY <2>1, Zenon DEF WalkInv, Arrays, Typed, Walks, Place
<1> QED BY <1>1, <1>2 DEF Next

-----------------------------------------------------------------------------
(* The directives *)

\* collectDirectives() defines what it collects from the end of the array.
Collecting(f, i) == IF i > Len(steps) THEN <<>> ELSE Over(f[DoneAfter(i) + 1], DirectiveAt(i))
Collected(f) == f = [i \in 1 .. Len(steps) + 1 |-> Collecting(f, i)]
collected == CHOOSE f : Collected(f)

\* Every predicate of the array ends.
LEMMA Ends ==
  ASSUME Arrays, NEW i \in 1 .. Len(steps)
  PROVE  DoneAfter(i) \in i .. Len(steps)
<1> DEFINE N == Len(steps)
           n == Len(predicates)
           Dones == {d \in i .. N : steps[d].kind = "done"}
           End(d) == steps[d].kind = "done" /\ \A e \in i .. d - 1 : steps[e].kind # "done"
<1>1. predicates \in Seq(Predicate) /\ steps \in Seq(Step) /\ Laid(Place, predicates, steps)
  BY Places
<1>2. n \in Nat /\ N \in Nat /\ Place[1] = 1 /\ Place[n + 1] = N + 1
  BY <1>1 DEF Laid
<1>3. steps[N].kind = "done"
  <2>1. n # 0
    <3> SUFFICES ASSUME n = 0 PROVE FALSE
      OBVIOUS
    <3>1. N + 1 = 1
      BY <1>2
    <3> QED BY <1>2, <3>1
  <2> DEFINE a == Len(predicates[n].args)
  <2>2. n \in 1 .. n /\ predicates[n] \in Predicate
    <3>1. n \in 1 .. n
      BY <1>2, <2>1
    <3> QED BY <1>1, <3>1
  <2>3. a \in Nat
    BY <2>2, PartOf
  <2>4. Place[n + 1] = Place[n] + a + 2 /\ steps[Place[n] + a + 1] = Done
    BY <1>1, <2>2 DEF Laid
  <2>5. Place[n] \in Nat
    <3>1. n \in 1 .. n + 1
      BY <1>2, <2>2
    <3> QED BY <1>1, <3>1 DEF Laid
  <2> HIDE DEF n, N, a
  <2>6. Place[n] + a + 1 = N
    BY <1>2, <2>3, <2>4, <2>5
  <2> QED BY <2>4, <2>6 DEF Done
<1> HIDE DEF N
<1>4. N \in Dones /\ Dones \in SUBSET Nat
  BY <1>2, <1>3 DEF N
<1>5. PICK d \in Dones : \A e \in Dones : d <= e
  BY <1>4, Least
<1>6. End(d)
  <2> SUFFICES ASSUME NEW e \in i .. d - 1, steps[e].kind = "done" PROVE FALSE
    BY <1>5
  <2>1. d \in Nat /\ d <= N /\ i \in Nat
    BY <1>2, <1>5 DEF N
  <2>2. e \in Dones /\ e < d
    BY <1>2, <2>1
  <2> QED BY <1>5, <2>1, <2>2
<1>7. DoneAfter(i) = CHOOSE e \in i .. N : End(e)
  BY DEF DoneAfter, N
<1>8. d \in i .. N
  BY <1>5
<1> HIDE DEF End
<1> QED BY <1>6, <1>7, <1>8 DEF N

LEMMA Collects ==
  ASSUME Arrays
  PROVE  Collected(collected)
<1> DEFINE N == Len(steps)
           From(m, f) == f = [i \in m .. N + 1 |-> Collecting(f, i)]
           Some(m) == \E f : From(m, f)
           Bad == {j \in 0 .. N : ~Some(N + 1 - j)}
<1>1. N \in Nat
  <2>1. steps \in Seq(Step)
    BY Places
  <2> QED BY <2>1
<1>2. \A i \in 1 .. N : DoneAfter(i) + 1 \in i + 1 .. N + 1
  BY <1>1, Ends
<1> HIDE DEF N
<1>3. Some(N + 1)
  <2> DEFINE f == [i \in N + 1 .. N + 1 |-> <<>>]
  <2>1. \A i \in N + 1 .. N + 1 : Collecting(f, i) = <<>>
    BY <1>1 DEF Collecting, N
  <2>2. From(N + 1, f)
    <3>1. [i \in N + 1 .. N + 1 |-> Collecting(f, i)] = [i \in N + 1 .. N + 1 |-> <<>>]
      BY <2>1
    <3> QED BY <3>1
  <2> HIDE DEF From, f
  <2> QED BY <2>2
<1>4. ASSUME NEW m \in 1 .. N, Some(m + 1)
      PROVE  Some(m)
  <2>1. PICK f : From(m + 1, f)
    BY <1>4
  <2> DEFINE g == [i \in m .. N + 1 |-> IF i = m THEN Collecting(f, m) ELSE f[i]]
  <2>2. ASSUME NEW i \in 1 .. N, m <= i
        PROVE  Collecting(g, i) = Collecting(f, i)
    <3>1. DoneAfter(i) + 1 \in m .. N + 1 /\ DoneAfter(i) + 1 # m
      BY <1>1, <1>2, <2>2
    <3>2. g[DoneAfter(i) + 1] = f[DoneAfter(i) + 1]
      BY <3>1
    <3> QED BY <3>2 DEF Collecting
  <2>3. ASSUME NEW i \in m .. N + 1
        PROVE  g[i] = Collecting(g, i)
    <3>1. CASE i = m
      <4>1. m \in 1 .. N /\ m <= m
        BY <1>1
      <4>2. g[m] = Collecting(f, m)
        BY <3>1
      <4> QED BY <2>2, <3>1, <4>1, <4>2
    <3>2. CASE i # m /\ i <= N
      <4>1. i \in 1 .. N /\ m <= i /\ i \in m + 1 .. N + 1
        BY <1>1, <3>2
      <4>2. f[i] = Collecting(f, i) /\ g[i] = f[i]
        <5> HIDE DEF Collecting
        <5>1. f[i] = Collecting(f, i)
          BY <2>1, <4>1
        <5> QED BY <3>2, <5>1
      <4> QED BY <2>2, <4>1, <4>2
    <3>3. CASE i # m /\ ~(i <= N)
      <4>1. i > N /\ i \in m + 1 .. N + 1
        BY <1>1, <3>3
      <4>2. f[i] = Collecting(f, i)
        BY <2>1, <4>1
      <4>3. g[i] = f[i]
        BY <3>3
      <4> QED BY <4>1, <4>2, <4>3 DEF Collecting, N
    <3> QED BY <3>1, <3>2, <3>3
  <2>4. From(m, g)
    <3> DEFINE h == [i \in m .. N + 1 |-> Collecting(g, i)]
    <3>1. h = g
      BY <2>3, Zenon
    <3> QED BY <3>1
  <2> HIDE DEF From
  <2> QED BY <2>4
<1>5. Some(1)
  <2> HIDE DEF Some
  <2> SUFFICES ASSUME ~Some(1) PROVE FALSE
    OBVIOUS
  <2>1. N \in Bad /\ Bad \in SUBSET Nat
    <3>1. N + 1 - N = 1 /\ N \in 0 .. N
      BY <1>1
    <3> QED BY <1>1, <3>1
  <2>2. PICK j \in Bad : \A l \in Bad : j <= l
    BY <2>1, Least
  <2>3. j # 0
    <3>1. N + 1 - 0 = N + 1
      BY <1>1
    <3> QED BY <1>3, <2>2, <3>1
  <2>4. j - 1 \notin Bad /\ j - 1 \in 0 .. N /\ N + 1 - (j - 1) = (N + 1 - j) + 1
        /\ N + 1 - j \in 1 .. N
    BY <1>1, <2>2, <2>3
  <2> QED BY <1>4, <2>2, <2>4
<1>6. \E f : Collected(f)
  BY <1>5 DEF Collected, N
<1> HIDE DEF Some
<1> QED BY <1>6 DEF collected

\* The k-th predicate sets a property to a value.
Sets(k) == /\ predicates[k].name = "set!"
           /\ Len(predicates[k].args) >= 1 /\ Shape(predicates[k])[1] = "string"
property(k) == predicates[k].args[1].value
valued(k) == Len(predicates[k].args) >= 2 /\ Shape(predicates[k])[2] = "string"
value(k) == IF valued(k) THEN predicates[k].args[2].value ELSE True

\* d is what the predicates from the k-th on set.
SetFrom(k, d) ==
    LET set == {j \in k .. Len(predicates) : Sets(j)}
    IN  /\ DOMAIN d = {property(j) : j \in set}
        /\ DOMAIN d \subseteq Text /\ \A x \in DOMAIN d : d[x] \in Text \cup {True}
        /\ \A j \in set : (\A l \in set : property(l) = property(j) => l <= j) =>
              d[property(j)] = value(j)

LEMMA DirectiveOf ==
  ASSUME Arrays, NEW k \in 1 .. Len(predicates)
  PROVE  /\ DirectiveAt(Place[k]) = IF Sets(k) THEN [x \in {property(k)} |-> value(k)] ELSE <<>>
         /\ Sets(k) => property(k) \in Text /\ value(k) \in Text \cup {True}
<1> DEFINE p == predicates[k]
           args == p.args
           n == Len(args)
           sub == SubSeq(steps, Place[k] + 1, DoneAfter(Place[k]) - 1)
<1>1. p \in Predicate /\ steps[Place[k]].value = p.name /\ sub = args
  BY AtPlace
<1>2. args \in Seq(Argument) /\ n \in Nat /\ DOMAIN args = 1 .. n
  <2>1. args \in Seq(Argument)
    BY <1>1 DEF Predicate
  <2> HIDE DEF args
  <2> QED BY <2>1
<1>3. \A j \in 1 .. n : Shape(p)[j] = args[j].kind /\ args[j] \in Argument
  BY <1>2 DEF Shape
<1> DEFINE string(j) == j \in DOMAIN args /\ args[j].kind = "string"
<1>4. DirectiveAt(Place[k]) =
        IF p.name # "set!" \/ ~string(1) THEN <<>>
        ELSE [x \in {args[1].value} |-> IF string(2) THEN args[2].value ELSE True]
  <2> HIDE DEF args, p
  <2>1. DirectiveAt(Place[k]) =
          IF steps[Place[k]].value # "set!" \/ ~(1 \in DOMAIN sub /\ sub[1].kind = "string") THEN <<>>
          ELSE [x \in {sub[1].value} |->
                  IF 2 \in DOMAIN sub /\ sub[2].kind = "string" THEN sub[2].value ELSE True]
    BY DEF DirectiveAt
  <2> HIDE DEF sub
  <2> QED BY <1>1, <2>1
<1>5. string(1) <=> n >= 1 /\ Shape(p)[1] = "string"
  BY <1>2, <1>3
<1>6. string(2) <=> n >= 2 /\ Shape(p)[2] = "string"
  BY <1>2, <1>3
<1>7. /\ string(1) => args[1].value \in Text
      /\ string(2) => args[2].value \in Text
  BY <1>2, <1>3 DEF Argument
<1>8. Sets(k) <=> p.name = "set!" /\ string(1)
  BY <1>5 DEF Sets
<1>9. value(k) = IF string(2) THEN args[2].value ELSE True
  BY <1>6 DEF value, valued
<1>10. property(k) = args[1].value
  BY DEF property
<1> HIDE DEF args, p, string
<1>11. Sets(k) => property(k) \in Text /\ value(k) \in Text \cup {True}
  BY <1>7, <1>8, <1>9, <1>10
<1> QED BY <1>4, <1>8, <1>9, <1>10, <1>11

\* A predicate before others adds what they do not set.
LEMMA SetMore ==
  ASSUME Arrays, NEW k \in 1 .. Len(predicates), NEW d, SetFrom(k + 1, d)
  PROVE  SetFrom(k, Over(d, DirectiveAt(Place[k])))
<1> DEFINE n == Len(predicates)
           after == {j \in k + 1 .. n : Sets(j)}
           set == {j \in k .. n : Sets(j)}
           mine == DirectiveAt(Place[k])
           e == Over(d, mine)
<1>1. /\ mine = (IF Sets(k) THEN [x \in {property(k)} |-> value(k)] ELSE <<>>)
      /\ Sets(k) => property(k) \in Text /\ value(k) \in Text \cup {True}
  BY DirectiveOf
<1>2. n \in Nat
  <2>1. predicates \in Seq(Predicate)
    BY Places
  <2> QED BY <2>1
<1>3. set = after \cup (IF Sets(k) THEN {k} ELSE {}) /\ k \notin after /\ \A j \in after : k < j
  BY <1>2
<1>4. /\ DOMAIN d = {property(j) : j \in after}
      /\ DOMAIN d \subseteq Text /\ \A x \in DOMAIN d : d[x] \in Text \cup {True}
      /\ \A j \in after : (\A l \in after : property(l) = property(j) => l <= j) =>
            d[property(j)] = value(j)
  BY DEF SetFrom
<1>5. DOMAIN mine = (IF Sets(k) THEN {property(k)} ELSE {}) /\ (Sets(k) => mine[property(k)] = value(k))
  BY <1>1
<1> HIDE DEF mine, set, after, n
<1>6. /\ DOMAIN e = DOMAIN d \cup DOMAIN mine
      /\ \A x \in DOMAIN d : e[x] = d[x]
      /\ \A x \in DOMAIN mine : x \notin DOMAIN d => e[x] = mine[x]
  BY DEF Over
<1> HIDE DEF e
<1>7. DOMAIN e = {property(j) : j \in set}
  BY <1>3, <1>4, <1>5, <1>6
<1>8. DOMAIN e \subseteq Text /\ \A x \in DOMAIN e : e[x] \in Text \cup {True}
  BY <1>1, <1>4, <1>5, <1>6
<1>9. ASSUME NEW j \in set, \A l \in set : property(l) = property(j) => l <= j
      PROVE  e[property(j)] = value(j)
  <2>1. CASE j \in after
    <3>1. property(j) \in DOMAIN d /\ \A l \in after : property(l) = property(j) => l <= j
      BY <1>3, <1>4, <1>9, <2>1
    <3> QED BY <1>4, <1>6, <2>1, <3>1
  <2>2. CASE j \notin after
    <3>1. Sets(k) /\ j = k
      BY <1>3, <2>2
    <3>2. property(k) \notin DOMAIN d
      <4> SUFFICES ASSUME NEW l \in after, property(l) = property(k) PROVE FALSE
        BY <1>4
      <4>1. l \in set /\ k < l /\ l \in Nat
        BY <1>2, <1>3 DEF after, n
      <4>2. l <= k
        BY <1>9, <3>1, <4>1
      <4> QED BY <4>1, <4>2
    <3> QED BY <1>5, <1>6, <3>1, <3>2
  <2> QED BY <2>1, <2>2
<1> QED BY <1>7, <1>8, <1>9 DEF SetFrom, set, n, e, mine

\* All directives are collected, and the last value of each property.
LEMMA CollectsAll ==
  ASSUME Arrays
  PROVE  SetFrom(1, collected[1])
<1> DEFINE N == Len(steps)
           n == Len(predicates)
           Good(k) == SetFrom(k, collected[Place[k]])
           Bad == {j \in 0 .. n : ~Good(n + 1 - j)}
<1>1. predicates \in Seq(Predicate) /\ steps \in Seq(Step) /\ Laid(Place, predicates, steps)
  BY Places
<1>2. n \in Nat /\ N \in Nat /\ Place[1] = 1 /\ Place[n + 1] = N + 1
  BY <1>1 DEF Laid
<1>3. \A i \in 1 .. N + 1 : collected[i] = Collecting(collected, i)
  BY Collects DEF Collected
<1>4. Good(n + 1)
  <2>1. N + 1 \in 1 .. N + 1 /\ N + 1 > N
    BY <1>2
  <2>2. collected[N + 1] = <<>>
    BY <1>3, <2>1 DEF Collecting
  <2>3. {j \in n + 1 .. n : Sets(j)} = {}
    BY <1>2
  <2>4. DOMAIN <<>> = {}
    OBVIOUS
  <2>5. SetFrom(n + 1, <<>>)
    BY <2>3, <2>4 DEF SetFrom
  <2> QED BY <1>2, <2>2, <2>5
<1>5. ASSUME NEW k \in 1 .. n, Good(k + 1)
      PROVE  Good(k)
  <2>1. Place[k] \in 1 .. N /\ DoneAfter(Place[k]) + 1 = Place[k + 1]
    BY AtPlace
  <2>2. Place[k] \in 1 .. N + 1 /\ ~(Place[k] > N)
    BY <1>2, <2>1
  <2>3. collected[Place[k]] = Over(collected[Place[k + 1]], DirectiveAt(Place[k]))
    BY <1>3, <2>1, <2>2 DEF Collecting
  <2> QED BY <1>5, <2>3, SetMore
<1>6. Good(1)
  <2> HIDE DEF Good, n
  <2> SUFFICES ASSUME ~Good(1) PROVE FALSE
    OBVIOUS
  <2>1. n \in Bad /\ Bad \in SUBSET Nat
    <3>1. n + 1 - n = 1 /\ n \in 0 .. n
      BY <1>2
    <3> QED BY <1>2, <3>1
  <2>2. PICK j \in Bad : \A l \in Bad : j <= l
    BY <2>1, Least
  <2>3. j # 0
    <3>1. n + 1 - 0 = n + 1
      BY <1>2
    <3> QED BY <1>4, <2>2, <3>1
  <2>4. j - 1 \notin Bad /\ j - 1 \in 0 .. n /\ n + 1 - (j - 1) = (n + 1 - j) + 1
        /\ n + 1 - j \in 1 .. n
    BY <1>2, <2>2, <2>3
  <2> QED BY <1>5, <2>2, <2>4
<1> QED BY <1>2, <1>6

\* The directives a match comes with once it has passed.
Collection ==
    \A t \in Thread : /\ SetFrom(1, directives[t]) \/ directives[t] = <<>>
                      /\ At(t, "idle") /\ verdict[t] = "pass" => SetFrom(1, directives[t])

DirectivesInv == WalkInv /\ DOMAIN directives = Thread /\ Collection

LEMMA NextDirectives == DirectivesInv /\ [Next]_vars => DirectivesInv'
<1> SUFFICES ASSUME DirectivesInv, [Next]_vars PROVE DirectivesInv'
  OBVIOUS
<1>1. WalkInv /\ WalkInv'
  BY NextWalk DEF DirectivesInv
<1>2. UNCHANGED pattern
  BY DEF Next, Evaluate, Pass, Ignore, Eq, AnyOf, Is, LockRegex, FindRegex, Compile,
         InvalidRegex, Search, Collect, Call, vars
<1>3. \A d : SetFrom(1, d)' <=> SetFrom(1, d)
  BY <1>2 DEF pattern, SetFrom, Sets, property, value, valued
<1>4. ASSUME NEW t \in Thread, Collect(t)
      PROVE  DirectivesInv'
  <2>1. directives' = [directives EXCEPT ![t] = collected[1]] /\ UNCHANGED verdict
        /\ pc' = [pc EXCEPT ![t] = "idle"]
    BY <1>4 DEF Collect, collectDirectives, collected, Collected, Collecting, Goto
  <2>2. SetFrom(1, collected[1])
    BY <1>1, CollectsAll DEF WalkInv
  <2>3. /\ directives'[t] = collected[1] /\ DOMAIN directives' = Thread
        /\ \A u \in Thread \ {t} : directives'[u] = directives[u] /\ pc'[u] = pc[u]
    BY <1>1, <2>1 DEF DirectivesInv, WalkInv, Typed
  <2>4. Collection'
    BY <1>3, <2>1, <2>2, <2>3 DEF DirectivesInv, Collection, At
  <2> QED BY <1>1, <2>3, <2>4 DEF DirectivesInv
<1>5. ASSUME NEW t \in Thread, \E m \in Matches, md \in Metadata : Call(t, m, md)
      PROVE  DirectivesInv'
  <2>1. /\ directives' = [directives EXCEPT ![t] = <<>>]
        /\ verdict' = [verdict EXCEPT ![t] = "none"] /\ pc' = [pc EXCEPT ![t] = "loop"]
    BY <1>5 DEF Call, Goto
  <2>2. /\ directives'[t] = <<>> /\ DOMAIN directives' = Thread /\ pc'[t] = "loop"
        /\ \A u \in Thread \ {t} : /\ directives'[u] = directives[u] /\ pc'[u] = pc[u]
                                   /\ verdict'[u] = verdict[u]
    BY <1>1, <2>1 DEF DirectivesInv, WalkInv, Typed
  <2>3. Collection'
    BY <1>3, <2>2 DEF DirectivesInv, Collection, At
  <2> QED BY <1>1, <2>2, <2>3 DEF DirectivesInv
<1>6. ASSUME UNCHANGED directives,
             \A t \in Thread : pc'[t] = "idle" /\ verdict'[t] = "pass" =>
                                  pc[t] = "idle" /\ verdict[t] = "pass"
      PROVE  DirectivesInv'
  BY <1>1, <1>3, <1>6 DEF DirectivesInv, Collection, At
<1>7. ASSUME NEW t \in Thread, UNCHANGED directives,
             \/ Pass(t) \/ Ignore(t) \/ LockRegex(t) \/ FindRegex(t) \/ Compile(t)
             \/ \E holds : Decide(t, holds)
      PROVE  \A u \in Thread : pc'[u] = "idle" /\ verdict'[u] = "pass" =>
                                  pc[u] = "idle" /\ verdict[u] = "pass"
  <2>1. /\ \A u \in Thread \ {t} : pc'[u] = pc[u] /\ verdict'[u] = verdict[u]
        /\ \/ pc'[t] # "idle" \/ verdict'[t] = "fail"
           \/ pc'[t] = pc[t] /\ verdict'[t] = verdict[t]
    BY <1>1, <1>7 DEF Pass, Ignore, LockRegex, FindRegex, Compile, Decide, Goto, result, WalkInv, Typed
  <2> QED BY <2>1
<1>8. ASSUME NEW t \in Thread, Evaluate(t), ~Collect(t)
      PROVE  DirectivesInv'
  <2>1. /\ UNCHANGED directives
        /\ \/ Pass(t) \/ Ignore(t) \/ LockRegex(t) \/ FindRegex(t) \/ Compile(t)
           \/ \E holds : Decide(t, holds)
    BY <1>8 DEF Evaluate, Pass, Ignore, Eq, AnyOf, Is, LockRegex, FindRegex, Compile,
                InvalidRegex, Search, Matched, result
  <2> QED BY <1>6, <1>7, <2>1
<1>9. CASE UNCHANGED vars
  BY <1>6, <1>9 DEF vars, result
<1> QED BY <1>4, <1>5, <1>8, <1>9 DEF Next

-----------------------------------------------------------------------------
(* The cache of regular expressions *)

\* The cache is looked at, extended and searched inside its mutex ...
Locks == \A t \in Thread : pc[t] \in InRegex => mutex = {t}

\* ... so what a call did not find is still not there when it compiles it.
Missing == \A t \in Thread : At(t, "compile") => Regex(t) \notin regex_cache

Counted == \A p \in Pattern : compiled[p] = IF p \in regex_cache THEN 1 ELSE 0

CacheInv ==
    /\ DOMAIN next = Thread
    /\ pc \in [Thread -> {"idle", "loop", "find", "compile", "search", "collect"}]
    /\ DOMAIN compiled = Pattern
    /\ Locks /\ Missing /\ Counted

\* What #match? of a thread looks for stays while its call is at one place.
LEMMA RegexStays ==
  ASSUME NEW t \in Thread, steps' = steps, next'[t] = next[t]
  PROVE  Regex(t)' = Regex(t)
BY DEF Regex, Args, DoneAfter

\* A predicate is decided: the call is at none of the steps inside the mutex.
LEMMA Decided ==
  ASSUME CacheInv, NEW t \in Thread, NEW holds, Decide(t, holds)
  PROVE  /\ pc' \in [Thread -> {"idle", "loop", "find", "compile", "search", "collect"}]
         /\ DOMAIN next' = Thread
         /\ pc'[t] \notin InRegex
         /\ \A u \in Thread : u # t => pc'[u] = pc[u] /\ next'[u] = next[u]
BY DEF CacheInv, Decide, Advance, Goto, InRegex

\* A step of a call that leaves the cache alone.
LEMMA OutsideRegex ==
  ASSUME CacheInv, NEW t \in Thread, UNCHANGED <<steps, regex_cache, compiled>>,
         pc' \in [Thread -> {"idle", "loop", "find", "compile", "search", "collect"}],
         DOMAIN next' = Thread, pc'[t] \notin InRegex,
         \A u \in Thread : u # t => pc'[u] = pc[u] /\ next'[u] = next[u],
         \/ mutex' = mutex
         \/ mutex' = mutex \ {t} /\ mutex = {t}
  PROVE  CacheInv'
<1>1. Locks'
  BY DEF CacheInv, Locks, InRegex
<1>2. Missing'
  <2> SUFFICES ASSUME NEW u \in Thread, pc'[u] = "compile"
               PROVE  Regex(u)' \notin regex_cache
    BY DEF Missing, At
  <2>1. u # t /\ pc[u] = "compile" /\ next'[u] = next[u]
    BY DEF InRegex
  <2> QED BY <2>1, RegexStays DEF CacheInv, Missing, At
<1>3. Counted'
  BY DEF CacheInv, Counted
<1> QED BY <1>1, <1>2, <1>3 DEF CacheInv

\* A pattern that is not found is compiled before the mutex is given up.
LEMMA CompileStep ==
  ASSUME CacheInv, NEW t \in Thread, Compile(t)
  PROVE  CacheInv'
<1>1. /\ pc[t] = "compile" /\ pc' = [pc EXCEPT ![t] = "search"]
      /\ regex_cache' = regex_cache \cup {Regex(t)}
      /\ compiled' = [compiled EXCEPT ![Regex(t)] = @ + 1]
      /\ UNCHANGED <<steps, next, mutex>>
  BY DEF Compile, At, Goto, pattern
<1>2. Regex(t) \notin regex_cache /\ \A u \in Thread : u # t => pc[u] \notin InRegex
  BY <1>1 DEF CacheInv, Missing, Locks, InRegex, At
<1>3. pc' \in [Thread -> {"idle", "loop", "find", "compile", "search", "collect"}]
      /\ \A u \in Thread : pc'[u] # "compile"
  BY <1>1, <1>2 DEF CacheInv, InRegex
<1>4. Locks'
  BY <1>1, <1>2 DEF CacheInv, Locks, InRegex
<1>5. DOMAIN compiled' = Pattern
  BY <1>1 DEF CacheInv
<1>6. Counted'
  BY <1>1, <1>2 DEF CacheInv, Counted
<1> QED BY <1>1, <1>3, <1>4, <1>5, <1>6 DEF CacheInv, Missing, At

\* The cache is looked at inside the mutex.
LEMMA RegexStep ==
  ASSUME CacheInv, NEW t \in Thread, LockRegex(t) \/ FindRegex(t)
  PROVE  CacheInv'
<1>1. /\ UNCHANGED <<steps, next, regex_cache, compiled>>
      /\ \/ mutex = {} /\ mutex' = {t} /\ pc' = [pc EXCEPT ![t] = "find"]
         \/ /\ mutex' = mutex /\ pc[t] = "find"
            /\ pc' = [pc EXCEPT ![t] = IF Regex(t) \in regex_cache THEN "search" ELSE "compile"]
  BY DEF LockRegex, FindRegex, At, Goto, pattern, regex
<1>2. pc' \in [Thread -> {"idle", "loop", "find", "compile", "search", "collect"}]
  BY <1>1 DEF CacheInv
<1>3. Locks'
  BY <1>1 DEF CacheInv, Locks, InRegex
<1>4. Missing'
  <2> SUFFICES ASSUME NEW u \in Thread, pc'[u] = "compile"
               PROVE  Regex(u) \notin regex_cache
    BY <1>1, RegexStays DEF Missing, At
  <2> QED BY <1>1 DEF CacheInv, Missing, At
<1>5. Counted'
  BY <1>1 DEF CacheInv, Counted
<1> QED BY <1>1, <1>2, <1>3, <1>4, <1>5 DEF CacheInv

\* Every other step of an evaluation.
LEMMA OtherStep ==
  ASSUME CacheInv, NEW t \in Thread,
         \/ Pass(t) \/ Ignore(t) \/ Eq(t) \/ AnyOf(t) \/ Is(t) \/ Collect(t)
         \/ InvalidRegex(t) \/ Search(t)
         \/ \E m \in Matches, md \in Metadata : Call(t, m, md)
  PROVE  CacheInv'
<1>1. CASE Pass(t) \/ Collect(t) \/ \E m \in Matches, md \in Metadata : Call(t, m, md)
  <2>1. /\ UNCHANGED <<steps, regex_cache, compiled, mutex>>
        /\ next' = next \/ next' = [next EXCEPT ![t] = 1]
        /\ \E s \in {"idle", "loop", "collect"} : pc' = [pc EXCEPT ![t] = s]
    BY <1>1 DEF Pass, Collect, Call, Goto, pattern, regex
  <2>2. /\ pc' \in [Thread -> {"idle", "loop", "find", "compile", "search", "collect"}]
        /\ DOMAIN next' = Thread /\ pc'[t] \notin InRegex
        /\ \A u \in Thread : u # t => pc'[u] = pc[u] /\ next'[u] = next[u]
    BY <2>1 DEF CacheInv, InRegex
  <2> QED BY <2>1, <2>2, OutsideRegex
<1>2. CASE Ignore(t)
  <2>1. UNCHANGED <<steps, pc, regex_cache, compiled, mutex>> /\ pc[t] = "loop"
        /\ next' = [next EXCEPT ![t] = DoneAfter(next[t]) + 1]
    BY <1>2 DEF Ignore, Named, At, Advance, pattern, regex
  <2>2. DOMAIN next' = Thread /\ pc[t] \notin InRegex
        /\ \A u \in Thread : u # t => next'[u] = next[u]
    BY <2>1 DEF CacheInv, InRegex
  <2> QED BY <2>1, <2>2, OutsideRegex DEF CacheInv
<1>3. CASE Eq(t) \/ AnyOf(t) \/ Is(t)
  <2>1. UNCHANGED <<steps, regex_cache, compiled, mutex>> /\ \E holds : Decide(t, holds)
    BY <1>3 DEF Eq, AnyOf, Is, pattern, regex
  <2> QED BY <2>1, Decided, OutsideRegex
<1>4. CASE InvalidRegex(t) \/ Search(t)
  <2>1. /\ UNCHANGED <<steps, regex_cache, compiled>> /\ mutex' = mutex \ {t}
        /\ pc[t] \in InRegex /\ \E holds : Decide(t, holds)
    BY <1>4 DEF InvalidRegex, Search, Matched, At, InRegex, pattern
  <2>2. mutex = {t}
    BY <2>1 DEF CacheInv, Locks
  <2> QED BY <2>1, <2>2, Decided, OutsideRegex
<1> QED BY <1>1, <1>2, <1>3, <1>4

\* Every step keeps the invariant.
LEMMA NextCache == CacheInv /\ [Next]_vars => CacheInv'
<1> SUFFICES ASSUME CacheInv, [Next]_vars PROVE CacheInv'
  OBVIOUS
<1>1. ASSUME NEW t \in Thread,
             Evaluate(t) \/ \E m \in Matches, md \in Metadata : Call(t, m, md)
      PROVE  CacheInv'
  BY <1>1, RegexStep, CompileStep, OtherStep DEF Evaluate
<1>2. CASE UNCHANGED vars
  <2>1. UNCHANGED <<steps, next, pc, regex_cache, mutex, compiled>>
    BY <1>2 DEF vars, pattern, regex
  <2>2. \A t \in Thread : Regex(t)' = Regex(t)
    BY <2>1, RegexStays
  <2> QED BY <2>1, <2>2 DEF CacheInv, Locks, Missing, Counted, At
<1> QED BY <1>1, <1>2 DEF Next

-----------------------------------------------------------------------------
(* What the walks and the cache amount to *)

\* Only patterns that compile are in the cache.
Cached ==
    /\ regex_cache \subseteq Pattern \ Invalid
    /\ mutex \subseteq Thread
    /\ compiled \in [Pattern -> Nat]

LEMMA NextCached == WalkInv /\ Cached /\ [Next]_vars => Cached'
<1> SUFFICES ASSUME WalkInv, Cached, [Next]_vars PROVE Cached'
  OBVIOUS
<1>1. ASSUME NEW t \in Thread, Compile(t)
      PROVE  Cached'
  <2>1. pc[t] \in InRegex
    BY <1>1 DEF Compile, At, InRegex
  <2>2. PICK k \in 1 .. Len(predicates) :
            /\ LooksAt(t, k) /\ Usable(predicates[k])
            /\ predicates[k].name \in {"match?", "not-match?"}
    BY <2>1, AtPredicate
  <2>3. Regex(t) \in Pattern
    BY <2>2, MatchMeans
  <2>4. /\ Regex(t) \notin Invalid /\ regex_cache' = regex_cache \cup {Regex(t)} /\ mutex' = mutex
        /\ compiled' = [compiled EXCEPT ![Regex(t)] = @ + 1]
    BY <1>1 DEF Compile
  <2> QED BY <2>3, <2>4 DEF Cached
<1>2. ASSUME UNCHANGED <<regex_cache, compiled>>, mutex' \subseteq mutex \/ \E t \in Thread : mutex' = {t}
      PROVE  Cached'
  BY <1>2 DEF Cached
<1>3. ASSUME NEW t \in Thread, \/ Evaluate(t) /\ ~Compile(t)
                               \/ \E m \in Matches, md \in Metadata : Call(t, m, md)
      PROVE  Cached'
  <2>1. /\ UNCHANGED <<regex_cache, compiled>>
        /\ mutex' = mutex \/ mutex' = {t} \/ mutex' = mutex \ {t}
    BY <1>3 DEF Evaluate, Pass, Ignore, Eq, AnyOf, Is, LockRegex, FindRegex, InvalidRegex,
                Search, Matched, Collect, Call, regex
  <2> QED BY <1>2, <2>1
<1>4. CASE UNCHANGED vars
  BY <1>2, <1>4 DEF vars, regex
<1> QED BY <1>1, <1>3, <1>4 DEF Next

LEMMA Typing == DirectivesInv /\ Cached => TypeOK
<1> SUFFICES ASSUME DirectivesInv, Cached PROVE TypeOK
  OBVIOUS
<1>1. WalkInv
  BY DEF DirectivesInv
<1>2. ASSUME NEW t \in Thread
      PROVE  next[t] \in 1 .. Len(steps) + 1 /\ (next[t] <= Len(steps) => steps[next[t]].kind = "name")
  <2>1. PICK k \in 1 .. Len(predicates) + 1 : next[t] = Place[k]
    BY <1>1 DEF WalkInv, Walks, Walk
  <2>2. /\ Len(predicates) \in Nat /\ Place[Len(predicates) + 1] = Len(steps) + 1
        /\ \A l \in 1 .. Len(predicates) : next[t] = Place[l] => LooksAt(t, l)
    BY <1>1, Standing
  <2>3. steps \in Seq(Step)
    BY <1>1, Places DEF WalkInv
  <2>4. Len(steps) \in Nat
    BY <2>3
  <2>5. CASE k = Len(predicates) + 1
    <3>1. next[t] = Len(steps) + 1
      BY <2>1, <2>2, <2>5
    <3> QED BY <2>4, <3>1
  <2>6. CASE k # Len(predicates) + 1
    <3>1. k \in 1 .. Len(predicates)
      BY <2>2, <2>6
    <3>2. LooksAt(t, k)
      BY <2>1, <2>2, <3>1
    <3>3. steps[next[t]].kind = "name"
      BY <3>2, Looked
    <3>4. next[t] \in 1 .. Len(steps)
      BY <1>1, <2>1, <3>1, AtPlace DEF WalkInv
    <3> QED BY <2>4, <3>3, <3>4
  <2> QED BY <2>5, <2>6
<1>3. next \in [Thread -> 1 .. Len(steps) + 1]
  BY <1>1, <1>2 DEF WalkInv, Typed
<1>4. ASSUME NEW t \in Thread
      PROVE  DOMAIN directives[t] \subseteq Text /\ Range(directives[t]) \subseteq Text \cup {True}
  <2> DEFINE d == directives[t]
  <2>1. SetFrom(1, d) \/ d = <<>>
    BY DEF DirectivesInv, Collection
  <2>2. DOMAIN d \subseteq Text /\ \A x \in DOMAIN d : d[x] \in Text \cup {True}
    <3>1. CASE SetFrom(1, d)
      BY <3>1 DEF SetFrom
    <3>2. CASE d = <<>>
      <4>1. DOMAIN d = {}
        BY <3>2
      <4> QED BY <4>1
    <3> QED BY <2>1, <3>1, <3>2
  <2> QED BY <2>2 DEF Range
<1>5. pc \in [Thread -> {"idle", "loop", "find", "compile", "search", "collect"}]
  BY <1>1 DEF WalkInv, Typed, Walking, InRegex
<1> QED BY <1>1, <1>2, <1>3, <1>4, <1>5 DEF TypeOK, WalkInv, Typed, Cached

\* The invariants of the module, from those of the walks and of the cache.
LEMMA Invariants == Spec => [](DirectivesInv /\ Cached)
<1>1. Init => DirectivesInv /\ Cached
  <2> SUFFICES ASSUME Init PROVE DirectivesInv /\ Cached
    OBVIOUS
  <2>1. WalkInv
    BY InitWalk
  <2>2. DOMAIN directives = Thread /\ \A t \in Thread : directives[t] = <<>> /\ verdict[t] = "none"
    BY DEF Init
  <2>3. Cached
    BY DEF Init, Cached
  <2> QED BY <2>1, <2>2, <2>3 DEF DirectivesInv, Collection
<1>2. DirectivesInv /\ Cached /\ [Next]_vars => (DirectivesInv /\ Cached)'
  BY NextDirectives, NextCached DEF DirectivesInv
<1> QED BY <1>1, <1>2, PTL DEF Spec

\* Every walk stands at a predicate, or at the end of the array, and only
\* patterns that compile are in regex_cache.
THEOREM TypeCorrect == Spec => []TypeOK
BY Invariants, Typing, PTL

\* evaluatePredicates() walks through the flat array, skips what it does not
\* understand and shares its regular expressions with other threads: a match
\* passes exactly when every predicate of the pattern, as written, holds of it.
THEOREM VerdictsAreConjunctions == Spec => []VerdictIsConjunction
<1>1. DirectivesInv /\ Cached => VerdictIsConjunction
  <2> SUFFICES ASSUME DirectivesInv, NEW t \in Thread, At(t, "idle"), verdict[t] # "none"
               PROVE  verdict[t] = "pass" <=>
                        \A k \in DOMAIN predicates : Means(predicates[k], match[t], metadata[t])
    BY DEF VerdictIsConjunction
  <2>1. WalkInv
    BY DEF DirectivesInv
  <2>2. predicates \in Seq(Predicate)
    BY <2>1, Standing
  <2>3. DOMAIN predicates = 1 .. Len(predicates)
    BY <2>2
  <2>4. /\ verdict[t] = "pass" => AllMean(predicates, match[t], metadata[t], Len(predicates))
        /\ verdict[t] = "fail" => ~AllMean(predicates, match[t], metadata[t], Len(predicates))
        /\ verdict[t] \in {"none", "pass", "fail"}
    BY <2>1 DEF WalkInv, Walks, Walk, Typed
  <2> QED BY <2>3, <2>4 DEF AllMean
<1> QED BY <1>1, Invariants, PTL

\* collectDirectives() hands out every property that the pattern sets, with its
\* last value, whatever other predicates stand between them.
THEOREM DirectivesComplete == Spec => []DirectivesAsWritten
<1>1. DirectivesInv /\ Cached => DirectivesAsWritten
  <2> SUFFICES ASSUME DirectivesInv, NEW t \in Thread, At(t, "idle"), verdict[t] = "pass"
               PROVE  /\ DOMAIN directives[t] = {property(k) : k \in {j \in DOMAIN predicates : Sets(j)}}
                      /\ \A k \in {j \in DOMAIN predicates : Sets(j)} :
                            (\A l \in {j \in DOMAIN predicates : Sets(j)} :
                                property(l) = property(k) => l <= k) =>
                            directives[t][property(k)] = value(k)
    BY DEF DirectivesAsWritten, Sets, property, value, valued
  <2>1. predicates \in Seq(Predicate)
    BY Standing DEF DirectivesInv
  <2>2. DOMAIN predicates = 1 .. Len(predicates)
    BY <2>1
  <2>3. SetFrom(1, directives[t])
    BY DEF DirectivesInv, Collection
  <2> QED BY <2>2, <2>3, Zenon DEF SetFrom
<1> QED BY <1>1, Invariants, PTL

\* regex_cache_mutex makes finding and compiling a pattern one step: however
\* many threads evaluate #match?, no pattern is compiled twice.
THEOREM RegexCompiledOnce == Spec => []CompiledOnce
<1>1. Init => CacheInv
  BY DEF Init, CacheInv, Locks, Missing, Counted, InRegex, At
<1>2. CacheInv => CompiledOnce
  BY DEF CacheInv, Counted, CompiledOnce
<1> QED BY <1>1, <1>2, NextCache, PTL DEF Spec
=============================================================================
