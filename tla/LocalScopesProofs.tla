--------------------------- MODULE LocalScopesProofs ---------------------------
(***************************************************************************)
(* Proofs about LocalScopes, for sources of any length with any number of  *)
(* nested scopes and any names.                                            *)
(*                                                                         *)
(* The argument.  Before() orders the captures of a source totally, and a  *)
(* capture's rank in that order is its place in the list (Sorted).  Scopes *)
(* nest, so of the scopes around a place the last one in the list is the   *)
(* smallest: Around() finds ScopeOf().  The invariant says of each place   *)
(* in the pass which scopes the list has and which definitions each of     *)
(* them has been given (ListOf), and what of the references is waiting and *)
(* what was answered (Waiting).  At the end of the pass a scope of the     *)
(* list around a reference has its name exactly if a definition is in      *)
(* force there (LocalMeans).                                               *)
(***************************************************************************)
EXTENDS LocalScopes, FiniteSetTheorems, WellFoundedInduction, TLAPS

Scopish(c) == c.kind = "local.scope"

\* The captures of one source.
Source(C) ==
    /\ C \subseteq Scope \cup Token
    /\ \A s \in C : Scopish(s) => s.start_byte < s.end_byte
    /\ Nested({s \in C : Scopish(s)})
    /\ \A t, u \in C : ~Scopish(t) /\ ~Scopish(u) /\ t.start_byte = u.start_byte => t.name = u.name

\* A set of numbers has a least one.
LEMMA LeastOf ==
  ASSUME NEW S \in SUBSET Nat, S # {}
  PROVE  \E k \in S : \A l \in S : k <= l
<1>1. PICK k \in S : \A l \in S : ~(<<l, k>> \in OpToRel(<, Nat))
  BY NatLessThanWellFounded, WFMin
<1>2. ASSUME NEW l \in S, l < k
      PROVE  FALSE
  <2>1. <<l, k>> \in Nat \X Nat /\ <<l, k>>[1] < <<l, k>>[2]
    BY <1>2
  <2>2. <<l, k>> \in OpToRel(<, Nat)
    BY <2>1, Zenon DEF OpToRel
  <2> QED BY <1>1, <2>2
<1> QED BY <1>2

-----------------------------------------------------------------------------
(* Captures in source order *)

LEMMA Fields ==
  ASSUME NEW c \in Scope \cup Token
  PROVE  /\ c.start_byte \in Byte /\ c.end_byte \in 1 .. Size
         /\ c.start_byte \in Nat /\ c.end_byte \in Nat /\ Size \in Nat
         /\ c.kind \in Kind /\ Rank(c) \in 0 .. 2 /\ (Scopish(c) <=> Rank(c) = 0)
         /\ ~Scopish(c) => c \in Token /\ c.end_byte = c.start_byte + 1
         /\ c \in Scope => Scopish(c) /\ c.name = Anonymous
         /\ Scopish(c) => c \in Scope
<1>1. Size \in Nat
  BY Bounds
<1>2. CASE c \in Scope
  <2>1. PICK s \in Byte, e \in 1 .. Size :
           c = [kind |-> "local.scope", start_byte |-> s, end_byte |-> e, name |-> Anonymous]
    BY <1>2 DEF Scope
  <2>2. s \in Nat /\ e \in Nat
    BY <1>1 DEF Byte
  <2> QED BY <1>1, <1>2, <2>1, <2>2 DEF Kind, Rank, Scopish
<1>3. CASE c \in Token
  <2>1. PICK k \in Kind \ {"local.scope"}, s \in Byte, n \in Name :
           c = [kind |-> k, start_byte |-> s, end_byte |-> s + 1, name |-> n]
    BY <1>3 DEF Token
  <2>2. s \in Nat /\ s + 1 \in 1 .. Size /\ k # "local.scope" /\ k \in Kind
    BY <1>1 DEF Byte
  <2>3. c.kind # "local.scope"
    BY <2>1, <2>2
  <2>4. c \notin Scope
    BY <2>3 DEF Scope
  <2> QED BY <1>1, <1>3, <2>1, <2>2, <2>4 DEF Kind, Rank, Scopish
<1> QED BY <1>2, <1>3

\* Captures of a source at one place, of one kind, are the same.
LEMMA Distinct ==
  ASSUME NEW C, Source(C), NEW c \in C, NEW d \in C,
         c.start_byte = d.start_byte, c.end_byte = d.end_byte, Rank(c) = Rank(d)
  PROVE  c = d
<1>1. c \in Scope \cup Token /\ d \in Scope \cup Token
  BY DEF Source
<1>2. CASE Scopish(c)
  <2>1. c \in Scope /\ d \in Scope
    BY <1>1, <1>2, Fields
  <2>2. PICK s \in Byte, e \in 1 .. Size :
           c = [kind |-> "local.scope", start_byte |-> s, end_byte |-> e, name |-> Anonymous]
    BY <2>1 DEF Scope
  <2>3. PICK u \in Byte, f \in 1 .. Size :
           d = [kind |-> "local.scope", start_byte |-> u, end_byte |-> f, name |-> Anonymous]
    BY <2>1 DEF Scope
  <2> QED BY <2>2, <2>3
<1>3. CASE ~Scopish(c)
  <2>1. c \in Token /\ d \in Token /\ ~Scopish(d) /\ c.name = d.name
    BY <1>1, <1>3, Fields DEF Source
  <2>2. PICK k \in Kind \ {"local.scope"}, s \in Byte, n \in Name :
           c = [kind |-> k, start_byte |-> s, end_byte |-> s + 1, name |-> n]
    BY <2>1 DEF Token
  <2>3. PICK l \in Kind \ {"local.scope"}, u \in Byte, m \in Name :
           d = [kind |-> l, start_byte |-> u, end_byte |-> u + 1, name |-> m]
    BY <2>1 DEF Token
  <2>4. k = l
    BY <2>2, <2>3 DEF Rank, Kind
  <2> QED BY <2>1, <2>2, <2>3, <2>4
<1> QED BY <1>2, <1>3

\* Before() is a strict total order on them.
LEMMA Total ==
  ASSUME NEW C, Source(C)
  PROVE  /\ \A c \in C : ~Before(c, c)
         /\ \A c, d \in C : c = d \/ Before(c, d) \/ Before(d, c)
         /\ \A c, d, e \in C : Before(c, d) /\ Before(d, e) => Before(c, e)
         /\ \A c, d \in C : ~(Before(c, d) /\ Before(d, c))
<1>1. \A c \in C : c.start_byte \in Nat /\ c.end_byte \in Nat /\ Rank(c) \in Nat
  BY Fields DEF Source
<1>2. \A c \in C : ~Before(c, c)
  BY <1>1 DEF Before
<1>3. \A c, d \in C : c = d \/ Before(c, d) \/ Before(d, c)
  BY <1>1, Distinct DEF Before
<1>4. \A c, d, e \in C : Before(c, d) /\ Before(d, e) => Before(c, e)
  BY <1>1 DEF Before
<1>5. \A c, d \in C : ~(Before(c, d) /\ Before(d, c))
  BY <1>2, <1>4
<1> QED BY <1>2, <1>3, <1>4, <1>5

LEMMA Finite ==
  ASSUME NEW C, Source(C)
  PROVE  IsFiniteSet(C)
<1> DEFINE key == [c \in C |-> <<c.start_byte, <<c.end_byte, Rank(c)>> >>]
           Keys == Byte \X ((1 .. Size) \X (0 .. 2))
<1>1. \A c \in C : c.start_byte \in Byte /\ c.end_byte \in 1 .. Size /\ Rank(c) \in 0 .. 2
  BY Fields DEF Source
<1>2. key \in [C -> Keys]
  BY <1>1
<1>3. \A c, d \in C : key[c] = key[d] => c = d
  BY Distinct
<1>4. key \in Injection(C, Keys)
  BY <1>2, <1>3 DEF Injection, IsInjective
<1>5. IsFiniteSet(Byte) /\ IsFiniteSet(1 .. Size) /\ IsFiniteSet(0 .. 2)
  <2>1. 0 \in Int /\ 1 \in Int /\ 2 \in Int /\ Size \in Int /\ Size - 1 \in Int
    BY Bounds
  <2> QED BY <2>1, FS_Interval DEF Byte
<1>6. IsFiniteSet((1 .. Size) \X (0 .. 2))
  BY <1>5, FS_Product
<1>7. IsFiniteSet(Keys)
  BY <1>5, <1>6, FS_Product
<1> HIDE DEF key, Keys
<1> QED BY <1>4, <1>7, FS_Injection

\* What the cursor hands out: every capture once, in source order.
Ordered(q) ==
    /\ q \in Seq(Scope \cup Token) /\ Source(ToSet(q))
    /\ \A i, j \in DOMAIN q : i < j => Before(q[i], q[j])

LEMMA Sorted ==
  ASSUME NEW C, Source(C)
  PROVE  Ordered(InSourceOrder(C)) /\ ToSet(InSourceOrder(C)) = C
<1> DEFINE n == Cardinality(C)
           Below(c) == {d \in C : Before(d, c)}
           rank == [c \in C |-> Cardinality(Below(c))]
           q == InSourceOrder(C)
<1>1. IsFiniteSet(C) /\ n \in Nat
  BY Finite, FS_CardinalityType
<1>2. \A c \in C : IsFiniteSet(Below(c)) /\ Cardinality(Below(c)) \in Nat
  <2> TAKE c \in C
  <2>1. Below(c) \in SUBSET C
    OBVIOUS
  <2> HIDE DEF Below
  <2> QED BY <1>1, <2>1, FS_Subset, FS_CardinalityType
<1>3. \A c, d \in C : Before(c, d) => rank[c] < rank[d]
  <2> SUFFICES ASSUME NEW c \in C, NEW d \in C, Before(c, d)
               PROVE  Cardinality(Below(c)) < Cardinality(Below(d))
    OBVIOUS
  <2>1. Below(c) \in SUBSET Below(d) /\ c \in Below(d) /\ c \notin Below(c)
    BY Total
  <2> HIDE DEF Below
  <2>2. Below(c) # Below(d)
    BY <2>1
  <2>3. Cardinality(Below(c)) <= Cardinality(Below(d)) /\ Cardinality(Below(c)) # Cardinality(Below(d))
    BY <1>2, <2>1, <2>2, FS_Subset
  <2> QED BY <1>2, <2>3
<1>4. \A c \in C : rank[c] \in 0 .. n - 1
  <2> TAKE c \in C
  <2>1. Below(c) \in SUBSET C /\ Below(c) # C
    BY Total
  <2>2. rank[c] = Cardinality(Below(c))
    OBVIOUS
  <2> HIDE DEF Below, rank
  <2>3. Cardinality(Below(c)) <= n /\ Cardinality(Below(c)) # n
    BY <1>1, <2>1, FS_Subset
  <2> HIDE DEF n
  <2> QED BY <1>1, <1>2, <2>2, <2>3
<1>5. \A c, d \in C : rank[c] = rank[d] => c = d
  <2> HIDE DEF rank
  <2> SUFFICES ASSUME NEW c \in C, NEW d \in C, rank[c] = rank[d], c # d PROVE FALSE
    OBVIOUS
  <2>1. rank[c] < rank[d] \/ rank[d] < rank[c]
    BY <1>3, Total
  <2>2. rank[c] \in Nat
    BY <1>1, <1>4
  <2> QED BY <2>1, <2>2
<1>6. \A k \in 0 .. n - 1 : \E c \in C : rank[c] = k
  <2>1. rank \in [C -> 0 .. n - 1]
    BY <1>4
  <2> HIDE DEF rank, n
  <2>2. rank \in Injection(C, 0 .. n - 1)
    BY <1>5, <2>1 DEF Injection, IsInjective
  <2>3. IsFiniteSet(0 .. n - 1) /\ Cardinality(0 .. n - 1) = n
    <3>1. /\ IsFiniteSet(0 .. n - 1)
          /\ Cardinality(0 .. n - 1) = IF 0 > n - 1 THEN 0 ELSE (n - 1) - 0 + 1
      BY <1>1, FS_Interval
    <3> QED BY <1>1, <3>1
  <2>4. rank \in Surjection(C, 0 .. n - 1)
    BY <2>2, <2>3, FS_Injection DEF n
  <2> QED BY <2>4 DEF Surjection
<1>7. \A k \in 1 .. n : q[k] \in C /\ rank[q[k]] = k - 1
  <2> TAKE k \in 1 .. n
  <2>1. k - 1 \in 0 .. n - 1
    BY <1>1
  <2>2. PICK c \in C : rank[c] = k - 1
    BY <1>6, <2>1
  <2>3. q[k] = CHOOSE d \in C : Cardinality(Below(d)) = k - 1
    BY DEF InSourceOrder
  <2> DEFINE Is(d) == Cardinality(Below(d)) = k - 1
  <2>4. Is(c)
    BY <2>2
  <2>5. q[k] \in C /\ Is(q[k])
    <3> HIDE DEF Below, q, rank
    <3> QED BY <2>3, <2>4
  <2> QED BY <2>5
<1>8. DOMAIN q = 1 .. n /\ q = [k \in 1 .. n |-> q[k]]
  <2> DEFINE nth(k) == CHOOSE c \in C : Cardinality({d \in C : Before(d, c)}) = k - 1
  <2>1. q = [k \in 1 .. n |-> nth(k)]
    BY DEF InSourceOrder
  <2> HIDE DEF q, nth, n
  <2> QED BY <2>1
<1> HIDE DEF q, rank, n
<1>9. C \subseteq Scope \cup Token
  BY DEF Source
<1>10. q \in Seq(Scope \cup Token)
  <2>1. q \in [1 .. n -> Scope \cup Token]
    BY <1>7, <1>8, <1>9
  <2> QED BY <1>1, <2>1
<1>11. ToSet(q) = C
  <2>1. ASSUME NEW c \in C
        PROVE  \E k \in 1 .. n : q[k] = c
    <3>1. rank[c] + 1 \in 1 .. n /\ (rank[c] + 1) - 1 = rank[c]
      BY <1>1, <1>4
    <3>2. q[rank[c] + 1] = c
      BY <1>5, <1>7, <3>1
    <3> QED BY <3>1, <3>2
  <2> QED BY <1>7, <1>8, <2>1 DEF ToSet
<1>12. ASSUME NEW i \in 1 .. n, NEW j \in 1 .. n, i < j
       PROVE  Before(q[i], q[j])
  <2>1. q[i] \in C /\ q[j] \in C /\ rank[q[i]] = i - 1 /\ rank[q[j]] = j - 1
    BY <1>7
  <2>2. ~(rank[q[j]] < rank[q[i]]) /\ rank[q[i]] # rank[q[j]]
    BY <1>1, <1>12, <2>1
  <2> QED BY <1>3, <2>1, <2>2, Total
<1> QED BY <1>8, <1>10, <1>11, <1>12 DEF Ordered, q

-----------------------------------------------------------------------------
(* Scopes and what they enclose *)

SameRange(s, c) == s.start_byte = c.start_byte /\ s.end_byte = c.end_byte
StartsIn(c, s) == s.start_byte <= c.start_byte /\ c.start_byte < s.end_byte

LEMMA Capture ==
  ASSUME Ordered(stream), NEW c \in ToSet(stream)
  PROVE  /\ c \in Scope \cup Token
         /\ c.start_byte \in Nat /\ c.end_byte \in Nat
         /\ (Scopish(c) <=> Rank(c) = 0) /\ Rank(c) \in 0 .. 2
         /\ ~Scopish(c) => c \in Token /\ c.end_byte = c.start_byte + 1
         /\ c \in Captures(c.kind) /\ (c \in Captures("local.scope") <=> Scopish(c))
<1>1. c \in Scope \cup Token
  BY DEF Ordered, Source
<1> QED BY <1>1, Fields DEF Captures, Scopish

\* A scope encloses an identifier when the identifier starts in it.
LEMMA Enclosing ==
  ASSUME Ordered(stream), NEW s \in ToSet(stream), NEW c \in ToSet(stream), ~Scopish(c)
  PROVE  Encloses(s, c) <=> StartsIn(c, s)
BY Capture DEF Encloses, StartsIn

\* Scopes around one identifier are nested, in the order of the cursor.
LEMMA Nesting ==
  ASSUME Ordered(stream), NEW c \in ToSet(stream), ~Scopish(c),
         NEW s \in ScopesOf(c), NEW u \in ScopesOf(c), s = u \/ Before(s, u)
  PROVE  Encloses(s, u)
<1>1. s \in ToSet(stream) /\ u \in ToSet(stream) /\ Scopish(s) /\ Scopish(u)
  BY DEF ScopesOf, Captures, Scopish
<1>2. StartsIn(c, s) /\ StartsIn(c, u)
  BY <1>1, Enclosing DEF ScopesOf
<1>3. /\ s.start_byte \in Nat /\ u.start_byte \in Nat /\ s.end_byte \in Nat /\ u.end_byte \in Nat
      /\ c.start_byte \in Nat /\ Rank(s) = 0 /\ Rank(u) = 0
  BY <1>1, Capture
<1>4. \/ s.end_byte <= u.start_byte \/ u.end_byte <= s.start_byte
      \/ s.start_byte <= u.start_byte /\ u.end_byte <= s.end_byte
      \/ u.start_byte <= s.start_byte /\ s.end_byte <= u.end_byte
  BY <1>1 DEF Ordered, Source, Nested
<1> QED BY <1>2, <1>3, <1>4 DEF Encloses, StartsIn, Before

\* The last of the scopes around a definition is the smallest.
LEMMA Innermost ==
  ASSUME Ordered(stream), NEW d \in ToSet(stream), ~Scopish(d),
         NEW m \in ScopesOf(d), \A u \in ScopesOf(d) : u = m \/ Before(u, m)
  PROVE  ScopesOf(d) # {} /\ SameRange(ScopeOf(d), m)
<1> DEFINE Least(s) == \A u \in ScopesOf(d) : Encloses(u, s)
<1>1. Least(m)
  BY Nesting
<1>2. ScopeOf(d) \in ScopesOf(d) /\ Least(ScopeOf(d))
  <2>1. ScopeOf(d) = CHOOSE s \in ScopesOf(d) : Least(s)
    BY DEF ScopeOf
  <2> HIDE DEF Least
  <2> QED BY <1>1, <2>1
<1>3. Encloses(m, ScopeOf(d)) /\ Encloses(ScopeOf(d), m)
  BY <1>1, <1>2
<1>4. m \in ToSet(stream) /\ ScopeOf(d) \in ToSet(stream)
  BY <1>2 DEF ScopesOf, Captures
<1>5. /\ m.start_byte \in Nat /\ m.end_byte \in Nat
      /\ ScopeOf(d).start_byte \in Nat /\ ScopeOf(d).end_byte \in Nat
  BY <1>4, Capture
<1> QED BY <1>3, <1>5 DEF Encloses, SameRange

\* The scopes around an identifier come before it.
LEMMA ScopesFirst ==
  ASSUME Ordered(stream), NEW d \in ToSet(stream), ~Scopish(d), NEW s \in ScopesOf(d)
  PROVE  Before(s, d)
<1>1. s \in ToSet(stream) /\ Scopish(s)
  BY DEF ScopesOf, Captures, Scopish
<1>2. StartsIn(d, s) /\ Rank(s) = 0 /\ Rank(d) # 0 /\ Rank(d) \in 0 .. 2
  BY <1>1, Enclosing, Capture DEF ScopesOf
<1>3. /\ s.start_byte \in Nat /\ s.end_byte \in Nat /\ d.start_byte \in Nat
      /\ d.end_byte = d.start_byte + 1
  BY <1>1, Capture
<1> QED BY <1>2, <1>3 DEF StartsIn, Before

\* Among the scopes around an identifier one is the last.
LEMMA LastScope ==
  ASSUME Ordered(stream), NEW d \in ToSet(stream), ScopesOf(d) # {}
  PROVE  \E m \in ScopesOf(d) : \A u \in ScopesOf(d) : u = m \/ Before(u, m)
<1> DEFINE n == Len(stream)
           Is(j) == stream[j] \in ScopesOf(d)
           Ends == {j \in 0 .. n : n - j >= 1 /\ Is(n - j)}
<1>1. /\ stream \in Seq(Scope \cup Token) /\ n \in Nat /\ DOMAIN stream = 1 .. n
      /\ \A u \in ScopesOf(d) : \E j \in 1 .. n : stream[j] = u
  BY DEF Ordered, ScopesOf, Captures, ToSet
<1> HIDE DEF n
<1>2. Ends \in SUBSET Nat
  BY <1>1
<1>3. \A u \in ScopesOf(d) : \E j \in 1 .. n : stream[j] = u /\ n - j \in Ends
  <2> TAKE u \in ScopesOf(d)
  <2>1. PICK j \in 1 .. n : stream[j] = u
    BY <1>1
  <2>2. n - j \in 0 .. n /\ n - (n - j) = j /\ j >= 1
    BY <1>1
  <2> QED BY <2>1, <2>2
<1>4. PICK i \in Ends : \A j \in Ends : i <= j
  <2>1. Ends # {}
    BY <1>3
  <2> HIDE DEF Ends
  <2> QED BY <1>2, <2>1, LeastOf
<1> DEFINE m == n - i
<1>5. m \in 1 .. n /\ stream[m] \in ScopesOf(d)
  BY <1>1, <1>4
<1>6. ASSUME NEW u \in ScopesOf(d)
      PROVE  u = stream[m] \/ Before(u, stream[m])
  <2>1. PICK j \in 1 .. n : stream[j] = u /\ n - j \in Ends
    BY <1>3
  <2>2. j <= m
    <3>1. i <= n - j /\ i \in Nat
      BY <1>2, <1>4, <2>1
    <3> QED BY <1>1, <2>1, <3>1
  <2>3. CASE j = m
    BY <2>1, <2>3
  <2>4. CASE j # m
    <3>1. j < m
      BY <1>5, <2>2, <2>4
    <3> QED BY <1>1, <1>5, <2>1, <3>1 DEF Ordered
  <2> QED BY <2>3, <2>4
<1> QED BY <1>5, <1>6

LEMMA ScopeIn ==
  ASSUME Ordered(stream), NEW d \in ToSet(stream), ~Scopish(d), ScopesOf(d) # {}
  PROVE  ScopeOf(d) \in ScopesOf(d)
<1>1. PICK m \in ScopesOf(d) : \A u \in ScopesOf(d) : u = m \/ Before(u, m)
  BY LastScope
<1>2. \A u \in ScopesOf(d) : Encloses(u, m)
  BY <1>1, Nesting
<1> QED BY <1>2 DEF ScopeOf

\* Where a scope stands that an identifier does not come after.
LEMMA ScopesLater ==
  ASSUME Ordered(stream), NEW d \in ToSet(stream), ~Scopish(d),
         NEW s \in ToSet(stream), Scopish(s), Before(d, s), NEW u \in ScopesOf(d)
  PROVE  ~SameRange(u, s)
<1>1. Before(u, d) /\ u \in ToSet(stream) /\ Scopish(u)
  BY ScopesFirst DEF ScopesOf, Captures, Scopish
<1>2. Before(u, s)
  BY <1>1, Total DEF Ordered
<1>3. Rank(u) = 0 /\ Rank(s) = 0 /\ s.start_byte \in Nat /\ s.end_byte \in Nat
  BY <1>1, Capture
<1> QED BY <1>2, <1>3 DEF Before, SameRange

-----------------------------------------------------------------------------
(* What the pass has seen *)

Seen(p) == {stream[j] : j \in 1 .. p - 1}
Own(p, s) == {c \in Captures("local.definition") :
                 c \in Seen(p) /\ ScopesOf(c) # {} /\ SameRange(ScopeOf(c), s)}
Earlier(s, u) ==
    s.start_byte < u.start_byte \/ (s.start_byte = u.start_byte /\ s.end_byte > u.end_byte)

\* The list of scopes after the captures before p.
ListOf(p, list) ==
    /\ list \in Seq([start_byte : Byte, end_byte : 1 .. Size, definitions : SUBSET Name])
    /\ \A k \in DOMAIN list : \E c \in Seen(p) : Scopish(c) /\ SameRange(list[k], c)
    /\ \A c \in Seen(p) : Scopish(c) => \E k \in DOMAIN list : SameRange(list[k], c)
    /\ \A k, l \in DOMAIN list : k < l => Earlier(list[k], list[l])
    /\ \A k \in DOMAIN list : list[k].definitions = {d.name : d \in Own(p, list[k])}

LEMMA KnowTheirOwn ==
  ASSUME ListOf(pos, scopes)
  PROVE  ScopesKnowTheirOwn
<1> DEFINE Known(s) == {c \in Captures("local.definition") :
                          /\ \E j \in 1 .. pos - 1 : stream[j] = c
                          /\ ScopesOf(c) # {}
                          /\ ScopeOf(c).start_byte = s.start_byte
                          /\ ScopeOf(c).end_byte = s.end_byte}
<1>1. \A s : Own(pos, s) = Known(s)
  BY DEF Own, Seen, SameRange
<1>2. \A k \in DOMAIN scopes : scopes[k].definitions = {d.name : d \in Own(pos, scopes[k])}
  BY DEF ListOf
<1>3. \A k \in DOMAIN scopes : scopes[k].definitions = {d.name : d \in Known(scopes[k])}
  <2> HIDE DEF Known
  <2> QED BY <1>1, <1>2
<1> QED BY <1>3 DEF ScopesKnowTheirOwn

\* One more capture is seen.
LEMMA SeeOne ==
  ASSUME Ordered(stream), NEW p \in 1 .. Len(stream)
  PROVE  /\ stream[p] \in ToSet(stream) /\ Seen(p + 1) = Seen(p) \cup {stream[p]}
         /\ Seen(p) \subseteq ToSet(stream) /\ \A c \in Seen(p) : Before(c, stream[p])
         /\ \A c \in ToSet(stream) : Before(c, stream[p]) => c \in Seen(p)
         /\ Len(stream) \in Nat /\ p \in Nat /\ p + 1 \in 1 .. Len(stream) + 1
<1>1. stream \in Seq(Scope \cup Token) /\ Len(stream) \in Nat /\ DOMAIN stream = 1 .. Len(stream)
  BY DEF Ordered
<1>2. stream[p] \in ToSet(stream) /\ Seen(p) \subseteq ToSet(stream)
  BY <1>1 DEF ToSet, Seen
<1>3. Seen(p + 1) = Seen(p) \cup {stream[p]}
  <2>1. 1 .. (p + 1) - 1 = (1 .. p - 1) \cup {p}
    BY <1>1
  <2> QED BY <2>1 DEF Seen
<1>4. ASSUME NEW j \in 1 .. p - 1
      PROVE  Before(stream[j], stream[p])
  <2>1. j \in DOMAIN stream /\ p \in DOMAIN stream /\ j < p
    BY <1>1
  <2> QED BY <2>1 DEF Ordered
<1>5. \A c \in ToSet(stream) : Before(c, stream[p]) => c \in Seen(p)
  <2> SUFFICES ASSUME NEW j \in 1 .. Len(stream), Before(stream[j], stream[p])
               PROVE  stream[j] \in Seen(p)
    BY <1>1 DEF ToSet
  <2>1. stream[j] \in ToSet(stream)
    BY <1>1 DEF ToSet
  <2>2. j # p
    BY <1>2, <2>1, Total DEF Ordered
  <2>3. ~(p < j)
    <3> SUFFICES ASSUME p < j PROVE FALSE
      OBVIOUS
    <3>1. Before(stream[p], stream[j])
      BY <1>1 DEF Ordered
    <3> QED BY <1>2, <2>1, <3>1, Total DEF Ordered
  <2>4. j \in 1 .. p - 1
    BY <1>1, <2>2, <2>3
  <2> QED BY <2>4 DEF Seen
<1>6. \A c \in Seen(p) : Before(c, stream[p])
  BY <1>4 DEF Seen
<1> QED BY <1>1, <1>2, <1>3, <1>5, <1>6

LEMMA SeenAll ==
  ASSUME Ordered(stream)
  PROVE  Seen(Len(stream) + 1) = ToSet(stream)
<1>1. Len(stream) \in Nat /\ DOMAIN stream = 1 .. Len(stream)
  BY DEF Ordered
<1>2. (Len(stream) + 1) - 1 = Len(stream)
  BY <1>1
<1> QED BY <1>1, <1>2 DEF Seen, ToSet

ScopeInfo == [start_byte : Byte, end_byte : 1 .. Size, definitions : SUBSET Name]

LEMMA Appended ==
  ASSUME NEW S, NEW q \in Seq(S), NEW e \in S
  PROVE  LET r == Append(q, e)
         IN  /\ r \in Seq(S) /\ Len(q) \in Nat /\ Len(r) = Len(q) + 1
             /\ DOMAIN q = 1 .. Len(q) /\ DOMAIN r = DOMAIN q \cup {Len(q) + 1}
             /\ \A i \in DOMAIN q : r[i] = q[i] /\ i < Len(q) + 1
             /\ r[Len(q) + 1] = e
             /\ ToSet(r) = ToSet(q) \cup {e}
<1> DEFINE r == Append(q, e)
           n == Len(q)
<1>1. r \in Seq(S) /\ n \in Nat /\ Len(r) = n + 1 /\ DOMAIN q = 1 .. n /\ DOMAIN r = 1 .. n + 1
      /\ r[n + 1] = e /\ \A i \in 1 .. n : r[i] = q[i]
  OBVIOUS
<1> HIDE DEF r, n
<1>2. 1 .. n + 1 = (1 .. n) \cup {n + 1} /\ \A i \in 1 .. n : i < n + 1
  BY <1>1
<1>3. ToSet(r) = ToSet(q) \cup {e}
  BY <1>1, <1>2 DEF ToSet
<1> QED BY <1>1, <1>2, <1>3 DEF r, n

\* A capture that is no definition changes no set of definitions.
LEMMA OwnStays ==
  ASSUME Ordered(stream), NEW p \in 1 .. Len(stream), stream[p].kind # "local.definition", NEW s
  PROVE  Own(p + 1, s) = Own(p, s)
<1>1. Seen(p + 1) = Seen(p) \cup {stream[p]}
  BY SeeOne
<1>2. stream[p] \notin Captures("local.definition")
  BY DEF Captures
<1> QED BY <1>1, <1>2 DEF Own

LEMMA ReferenceSeen ==
  ASSUME Ordered(stream), NEW p \in 1 .. Len(stream), stream[p].kind = "local.reference",
         NEW list, ListOf(p, list)
  PROVE  ListOf(p + 1, list)
<1>1. Seen(p + 1) = Seen(p) \cup {stream[p]} /\ ~Scopish(stream[p])
  BY SeeOne DEF Scopish
<1>2. \A s : Own(p + 1, s) = Own(p, s)
  BY OwnStays
<1> QED BY <1>1, <1>2 DEF ListOf

\* A scope that begins has no definition yet, for all those before it are in
\* scopes that begin before it.
LEMMA ScopeAdded ==
  ASSUME Ordered(stream), NEW p \in 1 .. Len(stream), Scopish(stream[p]),
         NEW list, ListOf(p, list)
  PROVE  ListOf(p + 1, Append(list, [start_byte |-> stream[p].start_byte,
                                     end_byte |-> stream[p].end_byte, definitions |-> {}]))
<1> DEFINE s == stream[p]
           e == [start_byte |-> s.start_byte, end_byte |-> s.end_byte, definitions |-> {}]
           n == Len(list)
           r == Append(list, e)
<1>1. /\ s \in ToSet(stream) /\ Seen(p + 1) = Seen(p) \cup {s}
      /\ Seen(p) \subseteq ToSet(stream) /\ \A c \in Seen(p) : Before(c, s)
  BY SeeOne
<1>2. e \in ScopeInfo /\ SameRange(e, s) /\ e.definitions = {}
  <2>1. s \in Scope \cup Token
    BY <1>1, Capture
  <2>2. s.start_byte \in Byte /\ s.end_byte \in 1 .. Size
    BY <2>1, Fields
  <2> QED BY <2>2 DEF ScopeInfo, SameRange
<1>3. list \in Seq(ScopeInfo)
  BY DEF ListOf, ScopeInfo
<1> HIDE DEF e
<1>4. /\ r \in Seq(ScopeInfo) /\ n \in Nat /\ Len(r) = n + 1
      /\ DOMAIN list = 1 .. n /\ DOMAIN r = DOMAIN list \cup {n + 1}
      /\ \A i \in DOMAIN list : r[i] = list[i] /\ i < n + 1
      /\ r[n + 1] = e
  BY <1>2, <1>3, Appended
<1>5. \A x : Own(p + 1, x) = Own(p, x)
  BY OwnStays DEF Scopish
<1>6. Own(p, e) = {}
  <2> SUFFICES ASSUME NEW d \in Captures("local.definition"), d \in Seen(p),
                      ScopesOf(d) # {}, SameRange(ScopeOf(d), e)
               PROVE  FALSE
    BY DEF Own
  <2>1. d \in ToSet(stream) /\ ~Scopish(d) /\ Before(d, s)
    BY <1>1 DEF Captures, Scopish
  <2>2. ScopeOf(d) \in ScopesOf(d)
    BY <2>1, ScopeIn
  <2>3. ~SameRange(ScopeOf(d), s)
    BY <1>1, <2>1, <2>2, ScopesLater
  <2> QED BY <1>2, <2>3 DEF SameRange
<1> HIDE DEF r, n, s
<1>7. \A k \in DOMAIN r : \E c \in Seen(p + 1) : Scopish(c) /\ SameRange(r[k], c)
  BY <1>1, <1>2, <1>4 DEF ListOf, s
<1>8. \A c \in Seen(p + 1) : Scopish(c) => \E k \in DOMAIN r : SameRange(r[k], c)
  BY <1>1, <1>2, <1>4 DEF ListOf
<1>9. ASSUME NEW k \in DOMAIN list
      PROVE  Earlier(list[k], e)
  <2>1. PICK c \in Seen(p) : Scopish(c) /\ SameRange(list[k], c)
    BY DEF ListOf
  <2>2. Before(c, s) /\ Rank(c) = 0 /\ Rank(s) = 0
    BY <1>1, <2>1, Capture DEF s
  <2> QED BY <1>2, <2>1, <2>2 DEF Before, SameRange, Earlier
<1>10. \A k, l \in DOMAIN r : k < l => Earlier(r[k], r[l])
  <2> SUFFICES ASSUME NEW k \in DOMAIN r, NEW l \in DOMAIN r, k < l
               PROVE  Earlier(r[k], r[l])
    OBVIOUS
  <2>1. k \in DOMAIN list
    BY <1>4
  <2>2. CASE l \in DOMAIN list
    BY <1>4, <2>1, <2>2 DEF ListOf
  <2>3. CASE l = n + 1
    BY <1>4, <1>9, <2>1, <2>3
  <2> QED BY <1>4, <2>2, <2>3
<1>11. \A k \in DOMAIN r : r[k].definitions = {d.name : d \in Own(p + 1, r[k])}
  <2> SUFFICES ASSUME NEW k \in DOMAIN r
               PROVE  r[k].definitions = {d.name : d \in Own(p, r[k])}
    BY <1>5
  <2>1. CASE k \in DOMAIN list
    BY <1>4, <2>1 DEF ListOf
  <2>2. CASE k = n + 1
    BY <1>2, <1>4, <1>6, <2>2
  <2> QED BY <1>4, <2>1, <2>2
<1> QED BY <1>4, <1>7, <1>8, <1>10, <1>11 DEF ListOf, ScopeInfo, r, s, e

\* The search from the end of the list finds the smallest scope around a
\* definition, if there is one.
LEMMA AroundFinds ==
  ASSUME Ordered(stream), NEW p \in 1 .. Len(stream), ~Scopish(stream[p]), ListOf(p, scopes)
  PROVE  /\ ScopesOf(stream[p]) = {} => Around(stream[p]) = 0
         /\ ScopesOf(stream[p]) # {} =>
               /\ Around(stream[p]) # 0 /\ Around(stream[p]) \in DOMAIN scopes
               /\ SameRange(ScopeOf(stream[p]), scopes[Around(stream[p])])
<1> DEFINE d == stream[p]
           n == Len(scopes)
           I == {i \in 1 .. n : StartsIn(d, scopes[i])}
<1>1. /\ d \in ToSet(stream) /\ Seen(p) \subseteq ToSet(stream)
      /\ \A c \in ToSet(stream) : Before(c, d) => c \in Seen(p)
  BY SeeOne
<1>2. Around(d) = IF I # {} THEN Max(I) ELSE 0
  BY DEF Around, SelectLastInSeq, StartsIn
<1>3. n \in Nat /\ DOMAIN scopes = 1 .. n
  BY DEF ListOf
<1> HIDE DEF d, n
<1>4. ASSUME NEW i \in I
      PROVE  \E c \in ScopesOf(d) : SameRange(scopes[i], c)
  <2>1. PICK c \in Seen(p) : Scopish(c) /\ SameRange(scopes[i], c)
    BY <1>3 DEF ListOf
  <2>2. c \in ToSet(stream) /\ StartsIn(d, c)
    BY <1>1, <2>1 DEF SameRange, StartsIn
  <2>3. c \in Captures("local.scope") /\ Encloses(c, d)
    BY <1>1, <2>1, <2>2, Capture, Enclosing DEF d
  <2> QED BY <2>1, <2>3 DEF ScopesOf
<1>5. ASSUME NEW u \in ScopesOf(d)
      PROVE  \E k \in I : SameRange(scopes[k], u)
  <2>1. u \in ToSet(stream) /\ Scopish(u) /\ Encloses(u, d)
    BY DEF ScopesOf, Captures, Scopish
  <2>2. u \in Seen(p) /\ StartsIn(d, u)
    BY <1>1, <2>1, ScopesFirst, Enclosing DEF d
  <2>3. PICK k \in DOMAIN scopes : SameRange(scopes[k], u)
    BY <2>1, <2>2 DEF ListOf
  <2> QED BY <1>3, <2>2, <2>3 DEF SameRange, StartsIn
<1>6. ASSUME ScopesOf(d) = {}
      PROVE  Around(d) = 0
  BY <1>2, <1>4, <1>6
<1>7. ASSUME ScopesOf(d) # {}
      PROVE  Around(d) # 0 /\ Around(d) \in DOMAIN scopes /\ SameRange(ScopeOf(d), scopes[Around(d)])
  <2>1. I # {}
    BY <1>5, <1>7
  <2> DEFINE x == Max(I)
  <2>2. x \in I /\ \A k \in I : x >= k
    <3> DEFINE Ends == {j \in 0 .. n : n - j \in I}
    <3>1. \A k \in I : n - k \in Ends /\ n - (n - k) = k
      BY <1>3
    <3>2. Ends \in SUBSET Nat /\ Ends # {}
      <4>1. PICK i \in I : TRUE
        BY <2>1
      <4>2. n - i \in Ends
        BY <3>1
      <4>3. 0 .. n \subseteq Nat
        BY <1>3
      <4> QED BY <4>2, <4>3
    <3>3. PICK j \in Ends : \A l \in Ends : j <= l
      <4> HIDE DEF Ends
      <4> QED BY <3>2, LeastOf
    <3>4. n - j \in I /\ \A k \in I : n - j >= k
      <4>1. \A k \in I : k \in 1 .. n
        OBVIOUS
      <4>2. j \in 0 .. n /\ n - j \in I
        BY <3>3
      <4> HIDE DEF I, Ends
      <4>3. \A k \in I : j <= n - k
        BY <3>1, <3>3
      <4> QED BY <1>3, <4>1, <4>2, <4>3
    <3> HIDE DEF I
    <3> QED BY <3>4 DEF Max
  <2> HIDE DEF x
  <2>3. Around(d) = x /\ x \in DOMAIN scopes /\ x # 0
    BY <1>2, <1>3, <2>1, <2>2 DEF x
  <2>4. PICK m \in ScopesOf(d) : SameRange(scopes[x], m)
    BY <1>4, <2>2
  <2>5. ASSUME NEW u \in ScopesOf(d)
        PROVE  u = m \/ Before(u, m)
    <3>1. PICK k \in I : SameRange(scopes[k], u)
      BY <1>5
    <3>2. /\ u \in ToSet(stream) /\ m \in ToSet(stream) /\ Scopish(u) /\ Scopish(m)
      BY DEF ScopesOf, Captures, Scopish
    <3>3. Rank(u) = 0 /\ Rank(m) = 0
      BY <3>2, Capture
    <3>4. CASE k = x
      <4>1. SameRange(u, m)
        BY <2>4, <3>1, <3>4 DEF SameRange
      <4> QED BY <3>2, <3>3, <4>1, Distinct DEF Ordered, SameRange
    <3>5. CASE k # x
      <4>1. k < x /\ k \in DOMAIN scopes
        BY <1>3, <2>2, <3>5
      <4>2. Earlier(scopes[k], scopes[x])
        BY <2>3, <4>1 DEF ListOf
      <4> QED BY <2>4, <3>1, <4>2 DEF Earlier, SameRange, Before
    <3> QED BY <3>4, <3>5
  <2>6. SameRange(ScopeOf(d), m)
    BY <1>1, <2>5, Innermost DEF d
  <2> QED BY <2>3, <2>4, <2>6 DEF SameRange
<1> QED BY <1>6, <1>7 DEF d

\* A definition is given to the scope it is in force in.
LEMMA DefinitionAdded ==
  ASSUME Ordered(stream), NEW p \in 1 .. Len(stream), stream[p].kind = "local.definition",
         ListOf(p, scopes)
  PROVE  ListOf(p + 1, IF Around(stream[p]) = 0 THEN scopes
                       ELSE [scopes EXCEPT ![Around(stream[p])].definitions = @ \cup {stream[p].name}])
<1> DEFINE d == stream[p]
           m == Around(d)
           list == IF m = 0 THEN scopes ELSE [scopes EXCEPT ![m].definitions = @ \cup {d.name}]
           mine(s) == ScopesOf(d) # {} /\ SameRange(ScopeOf(d), s)
<1>1. d \in ToSet(stream) /\ ~Scopish(d) /\ Seen(p + 1) = Seen(p) \cup {d}
      /\ d \in Captures("local.definition")
  BY SeeOne DEF Scopish, Captures
<1>2. d.name \in Name
  <2>1. d \in Token
    BY <1>1, Capture
  <2> QED BY <2>1 DEF Token
<1>3. /\ ScopesOf(d) = {} => m = 0
      /\ ScopesOf(d) # {} => m # 0 /\ m \in DOMAIN scopes /\ SameRange(ScopeOf(d), scopes[m])
  BY <1>1, AroundFinds
<1>4. scopes \in Seq(ScopeInfo) /\ DOMAIN scopes = 1 .. Len(scopes)
  BY DEF ListOf, ScopeInfo
<1> HIDE DEF d, m
<1>5. \A s : Own(p + 1, s) = Own(p, s) \cup (IF mine(s) THEN {d} ELSE {})
  BY <1>1 DEF Own
<1>6. /\ DOMAIN list = DOMAIN scopes
      /\ \A k \in DOMAIN scopes :
            /\ SameRange(list[k], scopes[k])
            /\ list[k] \in ScopeInfo
            /\ list[k].definitions = scopes[k].definitions \cup
                                        (IF m # 0 /\ k = m THEN {d.name} ELSE {})
  <2>1. \A k \in DOMAIN scopes : scopes[k] \in ScopeInfo
    BY <1>4
  <2> QED BY <1>2, <2>1 DEF ScopeInfo, SameRange
<1>7. list \in Seq(ScopeInfo)
  <2> HIDE DEF list
  <2>1. DOMAIN list = 1 .. Len(scopes) /\ Len(scopes) \in Nat
    BY <1>4, <1>6
  <2>2. list = [k \in DOMAIN list |-> list[k]]
    <3>1. scopes = [k \in DOMAIN scopes |-> scopes[k]]
      BY <1>4
    <3>2. CASE m = 0
      BY <3>1, <3>2 DEF list
    <3>3. CASE m # 0
      <4>1. list = [scopes EXCEPT ![m].definitions = @ \cup {d.name}]
        BY <3>3 DEF list
      <4> QED BY <4>1, Zenon
    <3> QED BY <3>2, <3>3
  <2> QED BY <1>4, <1>6, <2>1, <2>2
<1> HIDE DEF list
<1>8. ASSUME NEW k \in DOMAIN scopes
      PROVE  mine(scopes[k]) <=> m # 0 /\ k = m
  <2>1. ASSUME mine(scopes[k]), k # m
        PROVE  FALSE
    <3>1. SameRange(scopes[k], scopes[m]) /\ m \in DOMAIN scopes
      BY <1>3, <2>1 DEF SameRange
    <3>2. k < m \/ m < k
      BY <1>4, <2>1, <3>1
    <3>3. Earlier(scopes[k], scopes[m]) \/ Earlier(scopes[m], scopes[k])
      BY <3>1, <3>2 DEF ListOf
    <3>4. scopes[k] \in ScopeInfo /\ scopes[m] \in ScopeInfo
      BY <1>4, <3>1
    <3>5. scopes[k].start_byte \in Nat /\ scopes[k].end_byte \in Nat
      <4>1. scopes[k].start_byte \in Byte /\ scopes[k].end_byte \in 1 .. Size
        BY <3>4 DEF ScopeInfo
      <4> QED BY <4>1, Bounds DEF Byte
    <3> QED BY <3>1, <3>3, <3>5 DEF Earlier, SameRange
  <2>2. mine(scopes[k]) => m # 0
    BY <1>3
  <2>3. m # 0 => mine(scopes[m])
    BY <1>3
  <2> HIDE DEF mine
  <2> QED BY <2>1, <2>2, <2>3
<1>9. \A k \in DOMAIN list : \A s : SameRange(list[k], s) <=> SameRange(scopes[k], s)
  BY <1>6 DEF SameRange
<1>10. \A k \in DOMAIN list : Own(p, list[k]) = Own(p, scopes[k]) /\ (mine(list[k]) <=> mine(scopes[k]))
  BY <1>6 DEF SameRange, Own
<1>11. ASSUME NEW k \in DOMAIN list
       PROVE  list[k].definitions = {c.name : c \in Own(p + 1, list[k])}
  <2>1. Own(p + 1, list[k]) = Own(p, scopes[k]) \cup (IF m # 0 /\ k = m THEN {d} ELSE {})
    BY <1>5, <1>6, <1>8, <1>10
  <2>2. scopes[k].definitions = {c.name : c \in Own(p, scopes[k])}
    BY <1>6 DEF ListOf
  <2> QED BY <1>6, <2>1, <2>2
<1>12. \A k \in DOMAIN list : \E c \in Seen(p + 1) : Scopish(c) /\ SameRange(list[k], c)
  BY <1>1, <1>6, <1>9 DEF ListOf
<1>13. \A c \in Seen(p + 1) : Scopish(c) => \E k \in DOMAIN list : SameRange(list[k], c)
  BY <1>1, <1>6, <1>9 DEF ListOf
<1>14. \A k, l \in DOMAIN list : k < l => Earlier(list[k], list[l])
  BY <1>6 DEF ListOf, Earlier, SameRange
<1> QED BY <1>7, <1>11, <1>12, <1>13, <1>14 DEF ListOf, ScopeInfo, list, m, d

-----------------------------------------------------------------------------
(* The call *)

Rising(q) == \A i, j \in DOMAIN q : i < j => q[i].start_byte < q[j].start_byte
Range2 == [start_byte : Byte, end_byte : 1 .. Size]
Refs == Captures("local.reference")

\* In a pass the references seen wait; then they are resolved in their order.
Waiting ==
    /\ references \in Seq(Token) /\ Rising(references) /\ ToSet(references) \subseteq Refs
    /\ local_ranges \in Seq(Range2) /\ Rising(local_ranges)
    /\ \A a \in ToSet(local_ranges), r \in ToSet(references) : a.start_byte < r.start_byte
    /\ pc = "scan" =>
          local_ranges = <<>> /\ ToSet(references) = {c \in Refs : c \in Seen(pos)}
    /\ pc # "scan" =>
          ToSet(local_ranges) = {RangeOf(r) : r \in {c \in Refs \ ToSet(references) : IsLocal(c)}}
    /\ pc = "returned" => references = <<>>

Inv ==
    /\ Ordered(stream)
    /\ pos \in 1 .. Len(stream) + 1
    /\ pc \in {"scan", "resolve", "returned"}
    /\ pc # "scan" => pos = Len(stream) + 1
    /\ ListOf(pos, scopes)
    /\ Waiting

LEMMA InitInv == Init => Inv
<1> SUFFICES ASSUME Init PROVE Inv
  OBVIOUS
<1>1. PICK S \in Sources, T \in Identifiers : stream = InSourceOrder(S \cup T)
  BY DEF Init
<1>2. S \subseteq {s \in Scope : s.start_byte < s.end_byte} /\ Nested(S)
  BY DEF Sources, kSubset
<1>3. T \subseteq Token /\ \A t, u \in T : t.start_byte = u.start_byte => t.name = u.name
  BY DEF Identifiers
<1>4. \A s \in S : Scopish(s)
  BY <1>2, Fields
<1>5. \A t \in T : ~Scopish(t)
  BY <1>3 DEF Token, Scopish
<1>6. Source(S \cup T)
  <2>1. {s \in S \cup T : Scopish(s)} = S
    BY <1>4, <1>5
  <2>2. \A s \in S \cup T : Scopish(s) => s.start_byte < s.end_byte
    BY <1>2, <1>5
  <2>3. S \cup T \subseteq Scope \cup Token
    BY <1>2, <1>3
  <2>4. \A t, u \in S \cup T :
           ~Scopish(t) /\ ~Scopish(u) /\ t.start_byte = u.start_byte => t.name = u.name
    BY <1>3, <1>4
  <2> QED BY <1>2, <2>1, <2>2, <2>3, <2>4 DEF Source
<1>7. Ordered(stream)
  BY <1>1, <1>6, Sorted
<1>8. pos \in 1 .. Len(stream) + 1 /\ pc = "scan" /\ pos = 1
  <2>1. Len(stream) \in Nat
    BY <1>7 DEF Ordered
  <2> QED BY <2>1 DEF Init
<1>9. Seen(1) = {}
  BY DEF Seen
<1>10. ListOf(1, <<>>)
  BY <1>9 DEF ListOf
<1>11. ToSet(<<>>) = {}
  BY DEF ToSet
<1>12. references = <<>> /\ local_ranges = <<>> /\ scopes = <<>>
  BY DEF Init
<1>13. Waiting
  BY <1>8, <1>9, <1>11, <1>12 DEF Waiting, Rising
<1> QED BY <1>7, <1>8, <1>10, <1>12, <1>13 DEF Inv

\* Steps that leave the source alone say the same of it.
LEMMA SameSource ==
  ASSUME stream' = stream
  PROVE  /\ Ordered(stream)' <=> Ordered(stream)
         /\ Refs' = Refs
         /\ Seen(pos)' = Seen(pos')
         /\ ListOf(pos, scopes)' <=> ListOf(pos', scopes')
<1>1. \A c : ScopesOf(c)' = ScopesOf(c)
  BY DEF ScopesOf, Captures
<1>2. \A c : ScopeOf(c)' = ScopeOf(c)
  BY <1>1 DEF ScopeOf
<1>3. \A p : Seen(p)' = Seen(p)
  BY DEF Seen
<1>4. \A p, s : Own(p, s)' = Own(p, s)
  BY <1>1, <1>2, <1>3 DEF Own, Captures
<1>5. Seen(pos)' = Seen(pos')
  BY DEF Seen
<1>6. ListOf(pos, scopes)' <=> ListOf(pos', scopes')
  BY <1>3, <1>4 DEF ListOf
<1> QED BY <1>5, <1>6 DEF Refs, Captures

\* One step of the pass over the captures.
LEMMA ScanStep ==
  ASSUME Inv, SeeScope \/ SeeDefinition \/ SeeReference
  PROVE  Inv'
<1> DEFINE c == stream[pos]
<1>1. /\ pc = "scan" /\ pos \in 1 .. Len(stream) /\ pos' = pos + 1
      /\ UNCHANGED <<stream, local_ranges, pc>>
  <2>1. pos <= Len(stream) /\ pc = "scan" /\ pos' = pos + 1 /\ UNCHANGED <<stream, local_ranges, pc>>
    BY DEF SeeScope, SeeDefinition, SeeReference, Sees
  <2> QED BY <2>1 DEF Inv
<1>2. /\ Ordered(stream) /\ ListOf(pos, scopes) /\ Waiting
      /\ c \in ToSet(stream) /\ Seen(pos + 1) = Seen(pos) \cup {c}
      /\ \A b \in Seen(pos) : Before(b, c)
      /\ pos + 1 \in 1 .. Len(stream) + 1
  BY <1>1, SeeOne DEF Inv
<1>3. ListOf(pos + 1, scopes')
  <2>1. CASE SeeScope
    BY <1>1, <1>2, <2>1, ScopeAdded DEF SeeScope, Sees, Scopish
  <2>2. CASE SeeDefinition
    BY <1>1, <1>2, <2>2, DefinitionAdded DEF SeeDefinition, Sees
  <2>3. CASE SeeReference
    BY <1>1, <1>2, <2>3, ReferenceSeen DEF SeeReference, Sees
  <2> QED BY <2>1, <2>2, <2>3
<1>4. /\ references' \in Seq(Token) /\ Rising(references')
      /\ ToSet(references') = {b \in Refs : b \in Seen(pos + 1)}
  <2>1. CASE SeeScope \/ SeeDefinition
    <3>1. references' = references /\ c.kind # "local.reference"
      BY <2>1 DEF SeeScope, SeeDefinition, Sees
    <3>2. c \notin Refs
      BY <3>1 DEF Refs, Captures
    <3> QED BY <1>1, <1>2, <3>1, <3>2 DEF Waiting
  <2>2. CASE SeeReference
    <3>1. references' = Append(references, c) /\ c.kind = "local.reference"
      BY <2>2 DEF SeeReference, Sees
    <3>2. c \in Refs /\ c \in Token /\ ~Scopish(c)
      BY <1>2, <3>1, Capture DEF Refs, Scopish
    <3>3. references \in Seq(Token) /\ Rising(references)
          /\ ToSet(references) = {b \in Refs : b \in Seen(pos)}
      BY <1>1, <1>2 DEF Waiting
    <3> HIDE DEF c
    <3>4. /\ references' \in Seq(Token)
          /\ DOMAIN references' = DOMAIN references \cup {Len(references) + 1}
          /\ \A i \in DOMAIN references : references'[i] = references[i] /\ i < Len(references) + 1
          /\ references'[Len(references) + 1] = c
          /\ ToSet(references') = ToSet(references) \cup {c}
          /\ Len(references) \in Nat /\ DOMAIN references = 1 .. Len(references)
      BY <3>1, <3>2, <3>3, Appended
    <3>5. ASSUME NEW i \in DOMAIN references
          PROVE  references[i].start_byte < c.start_byte
      <4>1. references[i] \in Refs /\ references[i] \in Seen(pos)
        BY <3>3 DEF ToSet
      <4>2. references[i] \in ToSet(stream) /\ references[i].kind = "local.reference"
        BY <4>1 DEF Refs, Captures
      <4>3. Before(references[i], c) /\ ~Scopish(references[i])
        BY <1>2, <4>1, <4>2 DEF Scopish
      <4>4. /\ references[i].start_byte \in Nat /\ c.start_byte \in Nat
            /\ references[i].end_byte = references[i].start_byte + 1
            /\ c.end_byte = c.start_byte + 1
        BY <1>2, <3>2, <4>2, <4>3, Capture
      <4>5. Rank(references[i]) = 2 /\ Rank(c) = 2
        BY <3>2, <4>2 DEF Rank, Refs, Captures
      <4> QED BY <4>3, <4>4, <4>5 DEF Before
    <3>6. Rising(references')
      <4> SUFFICES ASSUME NEW i \in DOMAIN references', NEW j \in DOMAIN references', i < j
                   PROVE  references'[i].start_byte < references'[j].start_byte
        BY DEF Rising
      <4>1. i \in DOMAIN references
        BY <3>4
      <4>2. CASE j \in DOMAIN references
        BY <3>3, <3>4, <4>1, <4>2 DEF Rising
      <4>3. CASE j = Len(references) + 1
        BY <3>4, <3>5, <4>1, <4>3
      <4> QED BY <3>4, <4>2, <4>3
    <3>7. ToSet(references') = {b \in Refs : b \in Seen(pos + 1)}
      BY <1>2, <3>2, <3>3, <3>4
    <3> QED BY <3>4, <3>6, <3>7
  <2> QED BY <2>1, <2>2
<1>5. local_ranges = <<>> /\ ToSet(<<>>) = {}
  BY <1>1, <1>2 DEF Waiting, ToSet
<1>6. Waiting'
  <2>1. Refs' = Refs /\ Seen(pos)' = Seen(pos + 1)
    BY <1>1, SameSource
  <2> QED BY <1>1, <1>2, <1>4, <1>5, <2>1 DEF Waiting
<1>7. Ordered(stream)' /\ ListOf(pos, scopes)'
  BY <1>1, <1>2, <1>3, SameSource
<1> QED BY <1>1, <1>2, <1>6, <1>7 DEF Inv

\* The end of the pass: every capture has been seen.
LEMMA EndStep ==
  ASSUME Inv, EndOfScan
  PROVE  Inv'
<1>1. /\ pc = "scan" /\ pc' = "resolve" /\ pos > Len(stream)
      /\ UNCHANGED <<stream, pos, scopes, references, local_ranges>>
  BY DEF EndOfScan
<1>2. /\ Ordered(stream) /\ pos \in 1 .. Len(stream) + 1 /\ ListOf(pos, scopes) /\ Waiting
  BY DEF Inv
<1>3. pos = Len(stream) + 1
  <2>1. Len(stream) \in Nat
    BY <1>2 DEF Ordered
  <2> QED BY <1>1, <1>2, <2>1
<1>4. Seen(pos) = ToSet(stream)
  BY <1>2, SeenAll, <1>3
<1>5. ToSet(references) = Refs /\ local_ranges = <<>>
  BY <1>1, <1>2, <1>4 DEF Waiting, Refs, Captures
<1>6. ToSet(local_ranges) = {}
  BY <1>5 DEF ToSet
<1>7. Refs' = Refs /\ Ordered(stream)' /\ ListOf(pos, scopes)'
  BY <1>1, <1>2, SameSource
<1>8. {c \in Refs \ ToSet(references) : IsLocal(c)'} = {}
  BY <1>5
<1>9. Waiting'
  <2>1. ToSet(local_ranges)' = {RangeOf(r) : r \in {c \in Refs \ ToSet(references) : IsLocal(c)'}}
    BY <1>1, <1>6, <1>8 DEF ToSet
  <2> QED BY <1>1, <1>2, <1>7, <2>1 DEF Waiting, Rising, ToSet
<1> QED BY <1>1, <1>2, <1>3, <1>7, <1>9 DEF Inv

LEMMA Headed ==
  ASSUME NEW S, NEW q \in Seq(S), q # <<>>, Rising(q), \A x \in S : x.start_byte \in Nat
  PROVE  /\ Head(q) \in S /\ Tail(q) \in Seq(S) /\ Rising(Tail(q))
         /\ ToSet(Tail(q)) = ToSet(q) \ {Head(q)} /\ Head(q) \in ToSet(q)
         /\ \A x \in ToSet(Tail(q)) : Head(q).start_byte < x.start_byte
<1> DEFINE n == Len(q)
           r == Tail(q)
<1>1. /\ n \in Nat /\ n >= 1 /\ DOMAIN q = 1 .. n /\ Head(q) = q[1] /\ r \in Seq(S)
      /\ DOMAIN r = 1 .. n - 1 /\ \A i \in 1 .. n - 1 : r[i] = q[i + 1]
      /\ \A i \in 1 .. n : q[i] \in S
  OBVIOUS
<1> HIDE DEF n, r
<1>2. \A i \in 1 .. n - 1 : i + 1 \in 1 .. n /\ 1 < i + 1
  BY <1>1
<1>3. \A i \in 1 .. n : i = 1 \/ (i - 1 \in 1 .. n - 1 /\ (i - 1) + 1 = i)
  BY <1>1
<1>4. 1 \in 1 .. n
  BY <1>1
<1>5. \A i \in 1 .. n - 1 : q[1].start_byte < r[i].start_byte
  BY <1>1, <1>2, <1>4 DEF Rising
<1>6. \A i, j \in 1 .. n - 1 : i < j => r[i].start_byte < r[j].start_byte
  <2> SUFFICES ASSUME NEW i \in 1 .. n - 1, NEW j \in 1 .. n - 1, i < j
               PROVE  q[i + 1].start_byte < q[j + 1].start_byte
    BY <1>1
  <2>1. i + 1 < j + 1 /\ i + 1 \in 1 .. n /\ j + 1 \in 1 .. n
    BY <1>1, <1>2
  <2> QED BY <1>1, <2>1 DEF Rising
<1>7. ToSet(r) = {q[i] : i \in 1 .. n} \ {q[1]}
  <2>1. \A i \in 1 .. n - 1 : r[i] # q[1]
    <3> TAKE i \in 1 .. n - 1
    <3>1. q[1].start_byte < r[i].start_byte /\ q[1].start_byte \in Nat
      BY <1>1, <1>4, <1>5
    <3> QED BY <3>1
  <2>2. ToSet(r) = {q[i + 1] : i \in 1 .. n - 1}
    BY <1>1 DEF ToSet
  <2>3. ASSUME NEW x \in ToSet(r)
        PROVE  x \in {q[i] : i \in 1 .. n} \ {q[1]}
    <3>1. PICK i \in 1 .. n - 1 : x = q[i + 1]
      BY <2>2, <2>3
    <3>2. x # q[1] /\ i + 1 \in 1 .. n
      BY <1>1, <1>2, <2>1, <3>1
    <3> QED BY <3>1, <3>2
  <2>4. ASSUME NEW i \in 1 .. n, q[i] # q[1]
        PROVE  q[i] \in ToSet(r)
    <3>1. i - 1 \in 1 .. n - 1 /\ (i - 1) + 1 = i
      BY <1>3, <2>4
    <3>2. q[(i - 1) + 1] \in ToSet(r)
      BY <2>2, <3>1
    <3> QED BY <3>1, <3>2
  <2> QED BY <2>3, <2>4
<1> QED BY <1>1, <1>4, <1>5, <1>6, <1>7 DEF ToSet, Rising, r

\* A reference is resolved: its range is added, or it is left out.
LEMMA ResolveStep ==
  ASSUME Inv, Resolve
  PROVE  Inv'
<1> DEFINE r == Head(references)
           rest == Tail(references)
           Found(set) == {RangeOf(x) : x \in {c \in Refs \ set : IsLocal(c)}}
<1>1. /\ pc = "resolve" /\ references # <<>> /\ references' = rest
      /\ local_ranges' = IF IsLocal(r) THEN Append(local_ranges, RangeOf(r)) ELSE local_ranges
      /\ UNCHANGED <<stream, pos, scopes, pc>>
  BY DEF Resolve, RangeOf
<1>2. /\ Ordered(stream) /\ ListOf(pos, scopes) /\ Waiting
  BY DEF Inv
<1>3. /\ references \in Seq(Token) /\ Rising(references) /\ ToSet(references) \subseteq Refs
      /\ local_ranges \in Seq(Range2) /\ Rising(local_ranges)
      /\ \A a \in ToSet(local_ranges), x \in ToSet(references) : a.start_byte < x.start_byte
      /\ ToSet(local_ranges) = Found(ToSet(references))
  BY <1>1, <1>2 DEF Waiting
<1>4. \A x \in Token : x.start_byte \in Nat /\ x.start_byte \in Byte /\ x.end_byte \in 1 .. Size
  BY Fields
<1>5. /\ r \in Token /\ rest \in Seq(Token) /\ Rising(rest)
      /\ ToSet(rest) = ToSet(references) \ {r} /\ r \in ToSet(references)
      /\ \A x \in ToSet(rest) : r.start_byte < x.start_byte
  BY <1>1, <1>3, <1>4, Headed
<1> HIDE DEF r, rest
<1>6. RangeOf(r) \in Range2 /\ RangeOf(r).start_byte = r.start_byte
  BY <1>4, <1>5 DEF RangeOf, Range2
<1>7. {c \in Refs \ ToSet(rest) : IsLocal(c)} =
         {c \in Refs \ ToSet(references) : IsLocal(c)} \cup (IF IsLocal(r) THEN {r} ELSE {})
  BY <1>3, <1>5
<1>8. Found(ToSet(rest)) = Found(ToSet(references)) \cup (IF IsLocal(r) THEN {RangeOf(r)} ELSE {})
  BY <1>7
<1> HIDE DEF Found
<1>9. /\ local_ranges' \in Seq(Range2) /\ Rising(local_ranges')
      /\ ToSet(local_ranges') = Found(ToSet(rest))
      /\ \A a \in ToSet(local_ranges'), x \in ToSet(rest) : a.start_byte < x.start_byte
  <2>1. CASE ~IsLocal(r)
    BY <1>1, <1>3, <1>5, <1>8, <2>1
  <2>2. CASE IsLocal(r)
    <3> DEFINE n == Len(local_ranges)
               q == local_ranges'
    <3>1. q = Append(local_ranges, RangeOf(r))
      BY <1>1, <2>2
    <3>2. /\ q \in Seq(Range2) /\ DOMAIN q = DOMAIN local_ranges \cup {n + 1}
          /\ \A i \in DOMAIN local_ranges : q[i] = local_ranges[i] /\ i < n + 1
          /\ q[n + 1] = RangeOf(r) /\ n \in Nat /\ DOMAIN local_ranges = 1 .. n
          /\ ToSet(q) = ToSet(local_ranges) \cup {RangeOf(r)}
      BY <1>3, <1>6, <3>1, Appended
    <3> HIDE DEF q, n
    <3>3. \A i \in DOMAIN local_ranges : local_ranges[i].start_byte < r.start_byte
      BY <1>3, <1>5 DEF ToSet
    <3>4. Rising(q)
      <4> SUFFICES ASSUME NEW i \in DOMAIN q, NEW j \in DOMAIN q, i < j
                   PROVE  q[i].start_byte < q[j].start_byte
        BY DEF Rising
      <4>1. i \in DOMAIN local_ranges
        BY <3>2
      <4>2. CASE j \in DOMAIN local_ranges
        BY <1>3, <3>2, <4>1, <4>2 DEF Rising
      <4>3. CASE j = n + 1
        BY <1>6, <3>2, <3>3, <4>1, <4>3
      <4> QED BY <3>2, <4>2, <4>3
    <3>5. \A a \in ToSet(q), x \in ToSet(rest) : a.start_byte < x.start_byte
      BY <1>3, <1>5, <1>6, <3>2
    <3> QED BY <1>3, <1>8, <2>2, <3>2, <3>4, <3>5 DEF q
  <2> QED BY <2>1, <2>2
<1>10. Refs' = Refs /\ Ordered(stream)' /\ ListOf(pos, scopes)'
  BY <1>1, <1>2, SameSource
<1>11. \A c : IsLocal(c)' <=> IsLocal(c)
  BY <1>1 DEF IsLocal
<1>12. ToSet(local_ranges') = {RangeOf(x) : x \in {c \in Refs \ ToSet(rest) : IsLocal(c)'}}
  <2>1. {c \in Refs \ ToSet(rest) : IsLocal(c)'} = {c \in Refs \ ToSet(rest) : IsLocal(c)}
    BY <1>11
  <2> QED BY <1>9, <2>1 DEF Found
<1>13. ToSet(rest) \subseteq Refs
  BY <1>3, <1>5
<1>14. Waiting'
  BY <1>1, <1>5, <1>9, <1>10, <1>12, <1>13 DEF Waiting
<1> QED BY <1>1, <1>10, <1>14 DEF Inv

LEMMA ReturnStep ==
  ASSUME Inv, Return
  PROVE  Inv'
<1>1. /\ pc = "resolve" /\ references = <<>> /\ pc' = "returned"
      /\ UNCHANGED <<stream, pos, scopes, references, local_ranges>>
  BY DEF Return
<1>2. Refs' = Refs /\ Ordered(stream)' /\ ListOf(pos, scopes)'
  BY <1>1, SameSource DEF Inv
<1>3. \A c : IsLocal(c)' <=> IsLocal(c)
  BY <1>1 DEF IsLocal
<1>4. Waiting'
  BY <1>1, <1>2, <1>3 DEF Inv, Waiting
<1> QED BY <1>1, <1>2, <1>4 DEF Inv

LEMMA NextInv == Inv /\ [Next]_vars => Inv'
<1> SUFFICES ASSUME Inv, [Next]_vars PROVE Inv'
  OBVIOUS
<1>1. CASE UNCHANGED vars
  <2>1. UNCHANGED <<stream, pos, scopes, references, local_ranges, pc>>
    BY <1>1 DEF vars
  <2>2. /\ Refs' = Refs /\ Ordered(stream)' /\ ListOf(pos, scopes)' /\ Seen(pos)' = Seen(pos)
    BY <2>1, SameSource DEF Inv
  <2>3. \A c : IsLocal(c)' <=> IsLocal(c)
    BY <2>1 DEF IsLocal
  <2>4. Waiting'
    BY <2>1, <2>2, <2>3 DEF Inv, Waiting
  <2> QED BY <2>1, <2>2, <2>4 DEF Inv
<1> QED BY <1>1, ScanStep, EndStep, ResolveStep, ReturnStep DEF Next

LEMMA Invariant == Spec => []Inv
BY InitInv, NextInv, PTL DEF Spec

\* What a search in the list of scopes finds is what lexical scoping says.
LEMMA LocalMeans ==
  ASSUME Ordered(stream), ListOf(Len(stream) + 1, scopes), NEW r \in Refs
  PROVE  IsLocal(r) <=> \E d \in Captures("local.definition") : InForce(d, r)
<1> DEFINE e == Len(stream) + 1
<1>1. Seen(e) = ToSet(stream)
  BY SeenAll
<1>2. ASSUME IsLocal(r)
      PROVE  \E d \in Captures("local.definition") : InForce(d, r)
  <2>1. PICK k \in DOMAIN scopes :
            /\ scopes[k].start_byte <= r.start_byte /\ r.end_byte <= scopes[k].end_byte
            /\ r.name \in scopes[k].definitions
    BY <1>2 DEF IsLocal
  <2>2. scopes[k].definitions = {d.name : d \in Own(e, scopes[k])}
    BY DEF ListOf
  <2>3. PICK d \in Own(e, scopes[k]) : d.name = r.name
    BY <2>1, <2>2
  <2> QED BY <2>1, <2>3 DEF Own, InForce, SameRange, Encloses
<1>3. ASSUME NEW d \in Captures("local.definition"), InForce(d, r)
      PROVE  IsLocal(r)
  <2>1. d \in ToSet(stream) /\ ~Scopish(d)
    BY DEF Captures, Scopish
  <2>2. ScopeOf(d) \in ScopesOf(d)
    BY <1>3, <2>1, ScopeIn DEF InForce
  <2>3. ScopeOf(d) \in Seen(e) /\ Scopish(ScopeOf(d))
    BY <1>1, <2>2 DEF ScopesOf, Captures, Scopish
  <2>4. PICK k \in DOMAIN scopes : SameRange(scopes[k], ScopeOf(d))
    BY <2>3 DEF ListOf
  <2>5. d \in Own(e, scopes[k])
    BY <1>1, <1>3, <2>1, <2>4 DEF Own, InForce, SameRange
  <2>6. d.name \in scopes[k].definitions
    BY <2>5 DEF ListOf
  <2> QED BY <1>3, <2>4, <2>6 DEF IsLocal, InForce, SameRange, Encloses
<1> QED BY <1>2, <1>3

\* Scopes, references and ranges keep their types.
THEOREM TypeCorrect == Spec => []TypeOK
<1>1. Inv => TypeOK
  BY DEF Inv, Ordered, ListOf, Waiting, Range2, TypeOK
<1> QED BY <1>1, Invariant, PTL

\* At each moment of the pass a scope has the definitions seen so far that are
\* in force in it and in none around it.
THEOREM OwnDefinitions == Spec => []ScopesKnowTheirOwn
<1>1. Inv => ScopesKnowTheirOwn
  BY KnowTheirOwn DEF Inv
<1> QED BY <1>1, Invariant, PTL

\* resolveLocals() returns the ranges of exactly the references that lexical
\* scoping makes local, in source order.
THEOREM LocalsAreLexical == Spec => []LexicalScoping
<1>1. Inv => LexicalScoping
  <2> SUFFICES ASSUME Inv, pc = "returned" PROVE LexicalScoping
    BY DEF LexicalScoping
  <2>1. /\ Ordered(stream) /\ ListOf(Len(stream) + 1, scopes) /\ Rising(local_ranges)
        /\ references = <<>>
        /\ ToSet(local_ranges) = {RangeOf(r) : r \in {c \in Refs \ ToSet(references) : IsLocal(c)}}
    BY DEF Inv, Waiting
  <2>2. ToSet(references) = {}
    BY <2>1 DEF ToSet
  <2>3. {c \in Refs \ ToSet(references) : IsLocal(c)} =
            {c \in Refs : \E d \in Captures("local.definition") : InForce(d, c)}
    BY <2>1, <2>2, LocalMeans
  <2> QED BY <2>1, <2>3 DEF LexicalScoping, Rising, Refs
<1> QED BY <1>1, Invariant, PTL
=============================================================================
