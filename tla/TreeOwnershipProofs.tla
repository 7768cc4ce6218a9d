------------------------- MODULE TreeOwnershipProofs -------------------------
(***************************************************************************)
(* Proofs about TreeOwnership, for every number of trees, owners, nodes,   *)
(* cursors, queries and threads.                                           *)
(*                                                                         *)
(* The argument: reference counts agree with the pointers that exist       *)
(* (PointerSet says how setting one pointer changes how often each cell is *)
(* pointed to).  So a pointed-to cell is allocated, a cell with count one  *)
(* has one pointer, and a fresh cell has none (Counting).  With that, each *)
(* action preserves Inv.                                                   *)
(***************************************************************************)
EXTENDS TreeOwnership, FiniteSetTheorems, TLAPS

-----------------------------------------------------------------------------
(* Counting pointers *)

\* Counting the places of a finite function that point to c works.
LEMMA PointingType ==
  ASSUME NEW D, IsFiniteSet(D), NEW f, DOMAIN f = D, NEW c
  PROVE  /\ Pointing(f, c) \in Nat
         /\ \A x \in D : f[x] = c => Pointing(f, c) >= 1
         /\ \A x \in D, y \in D :
               f[x] = c /\ f[y] = c /\ x # y => Pointing(f, c) >= 2
<1> DEFINE P == {x \in D : f[x] = c}
<1>1. Pointing(f, c) = Cardinality(P)
  BY DEF Pointing
<1>2. P \subseteq D
  OBVIOUS
<1>3. \A x \in D : x \in P <=> f[x] = c
  OBVIOUS
<1> HIDE DEF P
<1>4. IsFiniteSet(P) /\ Cardinality(P) \in Nat
  BY <1>2, FS_Subset, FS_CardinalityType
<1>5. ASSUME NEW x \in P PROVE Cardinality(P) >= 1
  BY <1>4, <1>5, FS_EmptySet
<1>6. ASSUME NEW x \in P, NEW y \in P, x # y PROVE Cardinality(P) >= 2
  <2>1. IsFiniteSet(P \ {x}) /\ Cardinality(P \ {x}) = Cardinality(P) - 1
    BY <1>4, FS_RemoveElement
  <2>2. P \ {x} # {}
    BY <1>6
  <2>3. Cardinality(P \ {x}) # 0 /\ Cardinality(P \ {x}) \in Nat
    BY <2>1, <2>2, FS_EmptySet, FS_CardinalityType
  <2> QED BY <1>4, <2>1, <2>3
<1> QED BY <1>1, <1>3, <1>4, <1>5, <1>6

One(c, d) == IF c = d THEN 1 ELSE 0

\* Setting one pointer takes one from what it pointed to and gives one to
\* what it points to now.
LEMMA PointerSet ==
  ASSUME NEW D, IsFiniteSet(D), NEW f, DOMAIN f = D, NEW g, DOMAIN g = D,
         NEW s \in D, \A x \in D : x # s => g[x] = f[x], NEW c
  PROVE  Pointing(g, c) = Pointing(f, c) - One(f[s], c) + One(g[s], c)
<1> DEFINE P == {x \in D : f[x] = c}
           Q == {x \in D : g[x] = c}
<1>1. Pointing(f, c) = Cardinality(P) /\ Pointing(g, c) = Cardinality(Q)
  BY DEF Pointing
<1>2. P \subseteq D /\ (s \in P <=> f[s] = c)
  OBVIOUS
<1>3. (s \in Q <=> g[s] = c) /\ Q \ {s} = P \ {s}
  OBVIOUS
<1> HIDE DEF P, Q
<1>4. IsFiniteSet(P)
  BY <1>2, FS_Subset
<1>5. IsFiniteSet(P \ {s}) /\ Cardinality(P \ {s}) = Cardinality(P) - One(f[s], c)
      /\ Cardinality(P) \in Nat
  BY <1>2, <1>4, FS_RemoveElement, FS_CardinalityType DEF One
<1>6. Cardinality(Q) = Cardinality(P \ {s}) + One(g[s], c)
  <2>1. CASE s \in Q
    <3>1. Q = (P \ {s}) \cup {s}
      BY <1>3, <2>1
    <3> QED BY <1>3, <1>5, <2>1, <3>1, FS_AddElement, FS_CardinalityType DEF One
  <2>2. CASE s \notin Q
    <3>1. Q = P \ {s}
      BY <1>3, <2>2
    <3> QED BY <1>3, <1>5, <2>2, <3>1, FS_CardinalityType DEF One
  <2> QED BY <2>1, <2>2
<1>7. CASE f[s] = c /\ g[s] = c
  BY <1>1, <1>2, <1>3, <1>5, <1>6, <1>7 DEF One
<1>8. CASE f[s] = c /\ g[s] # c
  BY <1>1, <1>2, <1>3, <1>5, <1>6, <1>8 DEF One
<1>9. CASE f[s] # c /\ g[s] = c
  BY <1>1, <1>2, <1>3, <1>5, <1>6, <1>9 DEF One
<1>10. CASE f[s] # c /\ g[s] # c
  BY <1>1, <1>2, <1>3, <1>5, <1>6, <1>10 DEF One
<1> QED BY <1>7, <1>8, <1>9, <1>10

LEMMA FiniteDomains ==
  IsFiniteSet(Borrower \cup Owner) /\ IsFiniteSet(QueryCursor) /\ IsFiniteSet(Thread)
<1>1. Borrower \cup Owner \subseteq Cell /\ QueryCursor \subseteq Cell
  BY DEF Cell, Object, Borrower
<1> QED BY <1>1, FiniteKinds, FS_Subset

Counts(c) ==
    /\ refs[c] \in Nat
    /\ Pointing(tree, c) \in Nat /\ Pointing(query, c) \in Nat
    /\ Pointing(self, c) \in Nat /\ Pointing(arg, c) \in Nat
    /\ Pointing(old, c) \in Nat /\ Pointing(oldQuery, c) \in Nat
    /\ refs[c] = (IF c \in objects THEN 1 ELSE 0) + Pointing(tree, c) + Pointing(query, c)
                 + Pointing(self, c) + Pointing(arg, c) + Pointing(old, c)
                 + Pointing(oldQuery, c)

\* The counts are natural numbers, so they can be added and compared.
LEMMA CountsAreNat ==
  ASSUME TypeOK, CountsExact, NEW c \in Cell
  PROVE  Counts(c)
<1>1. DOMAIN tree = Borrower \cup Owner /\ DOMAIN query = QueryCursor
      /\ DOMAIN self = Thread /\ DOMAIN arg = Thread /\ DOMAIN old = Thread
      /\ DOMAIN oldQuery = Thread /\ refs[c] \in Nat
  BY DEF TypeOK
<1>2. Pointing(tree, c) \in Nat /\ Pointing(query, c) \in Nat
  BY <1>1, FiniteDomains, PointingType
<1>3. Pointing(self, c) \in Nat /\ Pointing(arg, c) \in Nat
      /\ Pointing(old, c) \in Nat /\ Pointing(oldQuery, c) \in Nat
  BY <1>1, FiniteDomains, PointingType
<1>4. refs[c] = Referrers(c)
  BY DEF CountsExact
<1> QED BY <1>1, <1>2, <1>3, <1>4 DEF Counts, Referrers, One

\* No kind of pointer is counted more often than the cell.
LEMMA Parts ==
  ASSUME NEW c, Counts(c)
  PROVE  /\ c \in objects => refs[c] >= 1
         /\ refs[c] >= Pointing(tree, c) /\ refs[c] >= Pointing(query, c)
         /\ refs[c] >= Pointing(self, c) /\ refs[c] >= Pointing(arg, c)
         /\ refs[c] >= Pointing(old, c) /\ refs[c] >= Pointing(oldQuery, c)
BY DEF Counts, One

\* What a counted pointer points to is allocated.
LEMMA Held ==
  ASSUME TypeOK, CountsExact, NEW c \in Cell, refs[c] = 0
  PROVE  /\ c \notin objects
         /\ \A b \in Borrower \cup Owner : tree[b] # c
         /\ \A qc \in QueryCursor : query[qc] # c
         /\ \A th \in Thread : self[th] # c /\ arg[th] # c /\ old[th] # c
                               /\ oldQuery[th] # c
<1>1. Counts(c)
  BY CountsAreNat
<1>2. Pointing(tree, c) = 0 /\ Pointing(query, c) = 0 /\ Pointing(self, c) = 0
      /\ Pointing(arg, c) = 0 /\ Pointing(old, c) = 0 /\ Pointing(oldQuery, c) = 0
      /\ c \notin objects
  <2>1. /\ c \in objects => refs[c] >= 1
        /\ refs[c] >= Pointing(tree, c) /\ refs[c] >= Pointing(query, c)
        /\ refs[c] >= Pointing(self, c) /\ refs[c] >= Pointing(arg, c)
        /\ refs[c] >= Pointing(old, c) /\ refs[c] >= Pointing(oldQuery, c)
    BY <1>1, Parts DEF Counts
  <2> QED BY <1>1, <2>1 DEF Counts
<1>3. \A b \in Borrower \cup Owner : tree[b] # c
  BY <1>2, FiniteDomains, PointingType DEF TypeOK
<1>4. \A qc \in QueryCursor : query[qc] # c
  BY <1>2, FiniteDomains, PointingType DEF TypeOK
<1>5. \A th \in Thread : self[th] # c /\ arg[th] # c
  BY <1>2, FiniteDomains, PointingType DEF TypeOK
<1>6. \A th \in Thread : old[th] # c /\ oldQuery[th] # c
  BY <1>2, FiniteDomains, PointingType DEF TypeOK
<1> QED BY <1>2, <1>3, <1>4, <1>5, <1>6

\* Nothing else points to a cell when the reference being given back is its
\* last one.
LEMMA LastOne ==
  ASSUME TypeOK, CountsExact, NEW th \in Thread, old[th] \in Cell, refs[old[th]] = 1
  PROVE  /\ old[th] \notin objects
         /\ \A b \in Borrower \cup Owner : tree[b] # old[th]
         /\ \A qc \in QueryCursor : query[qc] # old[th]
         /\ \A u \in Thread : self[u] # old[th] /\ arg[u] # old[th]
                              /\ oldQuery[u] # old[th]
         /\ \A u \in Thread : old[u] = old[th] => u = th
<1> DEFINE c == old[th]
<1>1. Counts(c) /\ refs[c] = 1
  BY CountsAreNat
<1>2. Pointing(old, c) >= 1
  BY FiniteDomains, PointingType DEF TypeOK
<1>3. Pointing(tree, c) = 0 /\ Pointing(query, c) = 0 /\ Pointing(self, c) = 0
      /\ Pointing(arg, c) = 0 /\ Pointing(old, c) = 1 /\ Pointing(oldQuery, c) = 0
      /\ c \notin objects
  BY <1>1, <1>2 DEF Counts, One
<1> HIDE DEF c
<1>4. \A b \in Borrower \cup Owner : tree[b] # c
  BY <1>3, FiniteDomains, PointingType DEF TypeOK
<1>5. \A qc \in QueryCursor : query[qc] # c
  BY <1>3, FiniteDomains, PointingType DEF TypeOK
<1>6. \A u \in Thread : self[u] # c /\ arg[u] # c
  BY <1>3, FiniteDomains, PointingType DEF TypeOK
<1>7. \A u \in Thread : oldQuery[u] # c
  BY <1>3, FiniteDomains, PointingType DEF TypeOK
<1>8. \A u \in Thread : old[u] = c => u = th
  BY <1>3, FiniteDomains, PointingType DEF TypeOK, c
<1> QED BY <1>3, <1>4, <1>5, <1>6, <1>7, <1>8 DEF c

\* PointerSet for each of the counted pointers.
LEMMA SetSelf ==
  ASSUME TypeOK, TypeOK', NEW s \in Thread, NEW c,
         \A x \in Thread : x # s => self'[x] = self[x]
  PROVE  Pointing(self', c) = Pointing(self, c) - One(self[s], c) + One(self'[s], c)
<1>1. DOMAIN self = Thread /\ DOMAIN self' = Thread
  BY DEF TypeOK
<1> QED BY <1>1, FiniteDomains, PointerSet

LEMMA SetArg ==
  ASSUME TypeOK, TypeOK', NEW s \in Thread, NEW c,
         \A x \in Thread : x # s => arg'[x] = arg[x]
  PROVE  Pointing(arg', c) = Pointing(arg, c) - One(arg[s], c) + One(arg'[s], c)
<1>1. DOMAIN arg = Thread /\ DOMAIN arg' = Thread
  BY DEF TypeOK
<1> QED BY <1>1, FiniteDomains, PointerSet

LEMMA SetOld ==
  ASSUME TypeOK, TypeOK', NEW s \in Thread, NEW c,
         \A x \in Thread : x # s => old'[x] = old[x]
  PROVE  Pointing(old', c) = Pointing(old, c) - One(old[s], c) + One(old'[s], c)
<1>1. DOMAIN old = Thread /\ DOMAIN old' = Thread
  BY DEF TypeOK
<1> QED BY <1>1, FiniteDomains, PointerSet

LEMMA SetOldQuery ==
  ASSUME TypeOK, TypeOK', NEW s \in Thread, NEW c,
         \A x \in Thread : x # s => oldQuery'[x] = oldQuery[x]
  PROVE  Pointing(oldQuery', c) = Pointing(oldQuery, c) - One(oldQuery[s], c) + One(oldQuery'[s], c)
<1>1. DOMAIN oldQuery = Thread /\ DOMAIN oldQuery' = Thread
  BY DEF TypeOK
<1> QED BY <1>1, FiniteDomains, PointerSet

LEMMA SetQuery ==
  ASSUME TypeOK, TypeOK', NEW s \in QueryCursor, NEW c,
         \A x \in QueryCursor : x # s => query'[x] = query[x]
  PROVE  Pointing(query', c) = Pointing(query, c) - One(query[s], c) + One(query'[s], c)
<1>1. DOMAIN query = QueryCursor /\ DOMAIN query' = QueryCursor
  BY DEF TypeOK
<1> QED BY <1>1, FiniteDomains, PointerSet

LEMMA SetTree ==
  ASSUME TypeOK, TypeOK', NEW s \in Borrower \cup Owner, NEW c,
         \A x \in Borrower \cup Owner : x # s => tree'[x] = tree[x]
  PROVE  Pointing(tree', c) = Pointing(tree, c) - One(tree[s], c) + One(tree'[s], c)
<1>1. DOMAIN tree = Borrower \cup Owner /\ DOMAIN tree' = Borrower \cup Owner
  BY DEF TypeOK
<1> QED BY <1>1, FiniteDomains, PointerSet

\* A live node or traversal cursor retains an owner that is alive.
LEMMA Retained ==
  ASSUME Inv, NEW b \in Node \cup Cursor, refs[b] # 0
  PROVE  tree[b] \in Owner /\ tree[b] \in Cell /\ refs[tree[b]] \in Nat \ {0}
<1> USE DEF Inv
<1>1. b \in Borrower /\ b \in Cell /\ b \notin QueryCursor
  BY DistinctKinds DEF Borrower, Cell, Object, Lockable
<1>2. tree[b] # Null
  BY <1>1 DEF MembersHeld, TypeOK
<1>3. tree[b] \in Owner /\ tree[b] \in Cell
  BY <1>1, <1>2 DEF MembersTyped, Cell
<1> QED BY <1>1, <1>3, Held DEF TypeOK

\* A wrapper made from a live one that nobody is moving keeps the counts, and
\* it borrows the tree its owner retains.
LEMMA Shared ==
  ASSUME Inv, NEW from \in Node \cup Cursor, refs[from] # 0, ~Moving(from),
         NEW new \in Node \cup Cursor, Share(from, new), UNCHANGED <<frame, mutex>>, TypeOK',
         \A b \in Borrower : Moving(b)' <=> Moving(b)
  PROVE  CountsExact' /\ MembersTyped' /\ MembersHeld' /\ BorrowRetained'
<1> USE DEF Inv
<1>1. from \in Borrower /\ new \in Borrower /\ new \in Cell /\ from \notin QueryCursor
      /\ new \notin QueryCursor /\ new \notin Owner
  BY DistinctKinds DEF Borrower, Cell, Object, Lockable
<1>2. refs[new] = 0 /\ new \notin objects /\ tree[new] = Null
  BY <1>1, Held DEF Share, Fresh, MembersHeld
<1>3. tree[from] \in Owner /\ tree[from] \in Cell
  BY Retained
<1>4. tree[from] # Null
  BY <1>3, NullIsNothing
<1>5. refs[tree[from]] \in Nat \ {0}
  BY Retained
<1>6. new # tree[from] /\ new # from
  BY <1>2, <1>5
<1>7. \A x \in Cell : refs'[x] = IF x = new THEN 1 ELSE IF x = tree[from] THEN refs[x] + 1
                                 ELSE refs[x]
  BY <1>1, <1>3, <1>6 DEF TypeOK, Share
<1>8. \A b \in Borrower \cup Owner : tree'[b] = IF b = new THEN tree[from] ELSE tree[b]
  BY <1>1 DEF TypeOK, Share
<1>9. \A b \in Borrower : native'[b] = IF b = new THEN native[from] ELSE native[b]
  BY <1>1 DEF TypeOK, Share
<1>10. CountsExact'
  <2> SUFFICES ASSUME NEW d \in Cell PROVE refs'[d] = Referrers(d)'
    BY DEF CountsExact
  <2>1. Counts(d)
    BY CountsAreNat
  <2>2. Pointing(tree', d) = Pointing(tree, d) - One(tree[new], d) + One(tree[from], d)
    BY <1>1, <1>8, SetTree DEF TypeOK
  <2>3. One(tree[new], d) = 0
    BY <1>2, NullIsNothing DEF One
  <2>4. refs'[d] = refs[d] + One(new, d) + One(tree[from], d)
    BY <1>2, <1>5, <1>6, <1>7, <2>1 DEF One, Counts
  <2>5. UNCHANGED <<query, frame>> /\ (d \in objects' <=> d \in objects \/ d = new)
    BY DEF Share, frame
  <2> QED BY <1>2, <2>1, <2>2, <2>3, <2>4, <2>5 DEF Counts, Referrers, One, frame
<1>11. MembersTyped'
  BY <1>1, <1>3, <1>8 DEF MembersTyped
<1>12. MembersHeld'
  <2>1. \A c \in Borrower \cup Owner : c \in Cell
    BY DEF Cell, Object
  <2>2. \A x \in Cell : x # new => (refs'[x] = 0 <=> refs[x] = 0) /\ refs'[x] \in Nat
                                     /\ refs[x] \in Nat
    BY <1>5, <1>7 DEF TypeOK
  <2>3. refs'[new] = 1 /\ tree'[new] # Null
    BY <1>1, <1>4, <1>7, <1>8
  <2>4. UNCHANGED query /\ \A qc \in QueryCursor : qc \in Borrower /\ qc # new
    BY <1>1 DEF Share, Borrower
  <2> QED BY <1>8, <2>1, <2>2, <2>3, <2>4 DEF MembersHeld
<1>13. BorrowRetained'
  <2> SUFFICES ASSUME NEW b \in Borrower
               PROVE IF Moving(b)' THEN native'[b] = native'[arg'[mutex'[b]]]
                     ELSE IF tree'[b] = Null THEN native'[b] = Null
                     ELSE native'[b] = tree'[tree'[b]]
    BY DEF BorrowRetained, Moving
  <2>1. UNCHANGED <<arg, mutex>> /\ (Moving(b)' <=> Moving(b))
    BY DEF frame
  <2>2. \A o \in Owner : tree'[o] = tree[o]
    BY <1>1, <1>8
  <2>3. CASE b = new
    <3>1. ~Moving(new)
      <4> SUFFICES ASSUME new \in Lockable, mutex[new] \in Thread, pc[mutex[new]] = "adopt"
                   PROVE FALSE
        BY DEF Moving, TypeOK
      <4>1. self[mutex[new]] = new
        BY DEF LocksHeld
      <4> QED BY <1>1, <1>2, <4>1, Held
    <3>2. native[from] = tree[tree[from]]
      BY <1>1, <1>4 DEF BorrowRetained
    <3> QED BY <1>1, <1>4, <1>3, <1>8, <1>9, <2>1, <2>2, <2>3, <3>1, <3>2
  <2>4. CASE b # new
    <3>1. tree[b] \in Owner \cup {Null}
      BY DEF MembersTyped
    <3>2. Moving(b) => arg[mutex[b]] \in Borrower /\ arg[mutex[b]] # new
      <4> SUFFICES ASSUME Moving(b) PROVE arg[mutex[b]] \in Borrower /\ arg[mutex[b]] # new
        OBVIOUS
      <4>1. mutex[b] \in Thread /\ pc[mutex[b]] = "adopt"
        BY DEF Moving, TypeOK
      <4>2. arg[mutex[b]] \in Node
        BY <4>1 DEF FramesTyped, At, Locked
      <4>3. arg[mutex[b]] # new
        BY <1>1, <1>2, <4>1, Held
      <4> QED BY <4>2, <4>3 DEF Borrower
    <3> QED BY <1>8, <1>9, <2>1, <2>2, <2>4, <3>1, <3>2 DEF BorrowRetained
  <2> QED BY <2>3, <2>4
<1> QED BY <1>10, <1>11, <1>12, <1>13

-----------------------------------------------------------------------------
(* One lemma per action *)


LEMMA EnterStep ==
  ASSUME Inv, NEW th \in Thread, NEW c \in Object, Enter(th, c)
  PROVE  Inv'
<1> USE DEF Inv
<1>a. refs[c] \in Nat \ {0}
  BY Held DEF Enter, Visible, TypeOK, Cell
<1>1. TypeOK'
  BY DEF TypeOK, Enter, CallsOn, Goto, Steps, Calls, Locked, Cell
<1>2. CountsExact'
  <2> SUFFICES ASSUME NEW d \in Cell PROVE refs'[d] = Referrers(d)'
    BY DEF CountsExact
  <2>1. Counts(d)
    BY CountsAreNat
  <2>2. Pointing(self', d) = Pointing(self, d) - One(self[th], d) + One(c, d)
    BY <1>1, SetSelf DEF TypeOK, Enter
  <2>3. One(self[th], d) = 0
    BY NullIsNothing DEF FramesTyped, At, Enter, One
  <2>4. refs'[d] = refs[d] + One(c, d)
    BY DEF TypeOK, Enter, One
  <2> QED BY <2>1, <2>2, <2>3, <2>4 DEF Counts, Referrers, One, Enter
<1>3. MembersTyped'
  BY DEF MembersTyped, Enter, CallsOn
<1>4. FramesTyped'
  BY DEF FramesTyped, TypeOK, Enter, CallsOn, At, Goto, Locked, Calls
<1>5. LocksHeld'
  BY DEF LocksHeld, TypeOK, Enter, CallsOn, At, Goto, Locked
<1>6. ListsOwned'
  BY DEF ListsOwned, TypeOK, Enter, CallsOn, At, Goto
<1>7. MembersHeld'
  BY <1>a DEF MembersHeld, TypeOK, Enter, CallsOn
<1>8. BorrowRetained'
  BY DEF BorrowRetained, Moving, TypeOK, Enter, CallsOn, At, Goto
<1> QED BY <1>1, <1>2, <1>3, <1>4, <1>5, <1>6, <1>7, <1>8

LEMMA EnterWithNodeStep ==
  ASSUME Inv, NEW th \in Thread, NEW c \in Lockable, NEW n \in Node, EnterWithNode(th, c, n)
  PROVE  Inv'
<1> USE DEF Inv
<1>a. refs[c] \in Nat \ {0} /\ refs[n] \in Nat \ {0} /\ c # n
  BY Held, DistinctKinds DEF EnterWithNode, Visible, TypeOK, Cell, Object, Borrower, Lockable
<1>b. \A x \in Cell : refs'[x] = 0 <=> refs[x] = 0
  BY <1>a DEF TypeOK, EnterWithNode
<1>1. TypeOK'
  BY DEF TypeOK, EnterWithNode, Goto, Steps, Calls, Locked, Cell, Object, Borrower, Lockable
<1>2. CountsExact'
  <2> SUFFICES ASSUME NEW d \in Cell PROVE refs'[d] = Referrers(d)'
    BY DEF CountsExact
  <2>1. Counts(d)
    BY CountsAreNat
  <2>2. Pointing(self', d) = Pointing(self, d) - One(self[th], d) + One(c, d)
    BY <1>1, SetSelf DEF TypeOK, EnterWithNode
  <2>3. Pointing(arg', d) = Pointing(arg, d) - One(arg[th], d) + One(n, d)
    BY <1>1, SetArg DEF TypeOK, EnterWithNode
  <2>4. One(self[th], d) = 0 /\ One(arg[th], d) = 0
    BY NullIsNothing DEF FramesTyped, At, Locked, EnterWithNode, One
  <2>5. refs'[d] = refs[d] + One(c, d) + One(n, d)
    BY <1>a DEF TypeOK, EnterWithNode, One
  <2> QED BY <2>1, <2>2, <2>3, <2>4, <2>5 DEF Counts, Referrers, One, EnterWithNode
<1>3. MembersTyped'
  BY DEF MembersTyped, EnterWithNode
<1>4. FramesTyped'
  BY DEF FramesTyped, TypeOK, EnterWithNode, At, Goto, Locked, Calls
<1>5. LocksHeld'
  BY DEF LocksHeld, TypeOK, EnterWithNode, At, Goto, Locked
<1>6. ListsOwned'
  BY DEF ListsOwned, TypeOK, EnterWithNode, At, Goto
<1>7. MembersHeld'
  BY <1>b DEF MembersHeld, TypeOK, EnterWithNode, Cell, Object, Borrower
<1>8. BorrowRetained'
  BY DEF BorrowRetained, Moving, TypeOK, EnterWithNode, At, Goto
<1> QED BY <1>1, <1>2, <1>3, <1>4, <1>5, <1>6, <1>7, <1>8

LEMMA DeleteStep ==
  ASSUME Inv, NEW th \in Thread, NEW c \in Object, Delete(th, c)
  PROVE  Inv'
<1> USE DEF Inv
<1>1. TypeOK'
  BY DEF TypeOK, Delete, Visible, Goto, Steps, Calls, Locked, Cell
<1>2. CountsExact'
  <2> SUFFICES ASSUME NEW d \in Cell PROVE refs'[d] = Referrers(d)'
    BY DEF CountsExact
  <2>1. Counts(d)
    BY CountsAreNat
  <2>2. Pointing(old', d) = Pointing(old, d) - One(old[th], d) + One(c, d)
    BY <1>1, SetOld DEF TypeOK, Delete
  <2>3. One(old[th], d) = 0
    BY NullIsNothing DEF FramesTyped, At, Calls, Delete, One
  <2> QED BY <2>1, <2>2, <2>3 DEF Counts, Referrers, One, Delete, Visible
<1>3. MembersTyped'
  BY DEF MembersTyped, Delete, Visible
<1>4. FramesTyped'
  BY DEF FramesTyped, TypeOK, Delete, Visible, At, Goto, Locked, Calls
<1>5. LocksHeld'
  BY DEF LocksHeld, TypeOK, Delete, Visible, At, Goto, Locked
<1>6. ListsOwned'
  BY DEF ListsOwned, TypeOK, Delete, Visible, At, Goto
<1>7. MembersHeld'
  BY DEF MembersHeld, TypeOK, Delete, Visible
<1>8. BorrowRetained'
  BY DEF BorrowRetained, Moving, TypeOK, Delete, Visible, At, Goto
<1> QED BY <1>1, <1>2, <1>3, <1>4, <1>5, <1>6, <1>7, <1>8

LEMMA DropArgStep ==
  ASSUME Inv, NEW th \in Thread, DropArg(th)
  PROVE  Inv'
<1> USE DEF Inv
<1>1. TypeOK'
  BY DEF TypeOK, DropArg, Idle, heap, Goto, Steps, Calls, Locked, Cell, Object, Borrower
<1>2. CountsExact'
  <2> SUFFICES ASSUME NEW d \in Cell PROVE refs'[d] = Referrers(d)'
    BY DEF CountsExact
  <2>1. Counts(d)
    BY CountsAreNat
  <2>2. Pointing(old', d) = Pointing(old, d) - One(Null, d) + One(arg[th], d)
    BY <1>1, SetOld DEF TypeOK, DropArg, Idle
  <2>3. Pointing(arg', d) = Pointing(arg, d) - One(arg[th], d) + One(Null, d)
    BY <1>1, SetArg DEF TypeOK, DropArg
  <2> QED BY <2>1, <2>2, <2>3 DEF Counts, Referrers, One, DropArg, heap
<1>3. MembersTyped'
  BY DEF MembersTyped, DropArg, Idle, heap
<1>4. FramesTyped'
  BY DEF FramesTyped, TypeOK, DropArg, Idle, heap, At, Goto, Locked, Calls
<1>5. LocksHeld'
  BY DEF LocksHeld, TypeOK, DropArg, Idle, heap, At, Goto, Locked
<1>6. ListsOwned'
  BY DEF ListsOwned, TypeOK, DropArg, Idle, heap, At, Goto
<1>7. MembersHeld'
  BY DEF MembersHeld, TypeOK, DropArg, Idle, heap
<1>8. BorrowRetained'
  BY DEF BorrowRetained, Moving, TypeOK, DropArg, Idle, heap, At, Goto
<1> QED BY <1>1, <1>2, <1>3, <1>4, <1>5, <1>6, <1>7, <1>8

LEMMA DropSelfStep ==
  ASSUME Inv, NEW th \in Thread, DropSelf(th)
  PROVE  Inv'
<1> USE DEF Inv
<1>1. TypeOK'
  BY DEF TypeOK, DropSelf, Idle, heap, Goto, Steps, Calls, Locked, Cell, Object, Borrower
<1>2. CountsExact'
  <2> SUFFICES ASSUME NEW d \in Cell PROVE refs'[d] = Referrers(d)'
    BY DEF CountsExact
  <2>1. Counts(d)
    BY CountsAreNat
  <2>2. Pointing(old', d) = Pointing(old, d) - One(Null, d) + One(self[th], d)
    BY <1>1, SetOld DEF TypeOK, DropSelf, Idle
  <2>3. Pointing(self', d) = Pointing(self, d) - One(self[th], d) + One(Null, d)
    BY <1>1, SetSelf DEF TypeOK, DropSelf
  <2> QED BY <2>1, <2>2, <2>3 DEF Counts, Referrers, One, DropSelf, heap
<1>3. MembersTyped'
  BY DEF MembersTyped, DropSelf, Idle, heap
<1>4. FramesTyped'
  BY DEF FramesTyped, TypeOK, DropSelf, Idle, heap, At, Goto, Locked, Calls
<1>5. LocksHeld'
  BY DEF LocksHeld, TypeOK, DropSelf, Idle, heap, At, Goto, Locked
<1>6. ListsOwned'
  BY DEF ListsOwned, TypeOK, DropSelf, Idle, heap, At, Goto
<1>7. MembersHeld'
  BY DEF MembersHeld, TypeOK, DropSelf, Idle, heap
<1>8. BorrowRetained'
  BY DEF BorrowRetained, Moving, TypeOK, DropSelf, Idle, heap, At, Goto
<1> QED BY <1>1, <1>2, <1>3, <1>4, <1>5, <1>6, <1>7, <1>8

LEMMA LeaveStep ==
  ASSUME Inv, NEW th \in Thread, Leave(th)
  PROVE  Inv'
<1> USE DEF Inv
<1>1. TypeOK'
  BY DEF TypeOK, Leave, Idle, heap, frame, Goto, Steps, Calls, Locked
<1>2. CountsExact'
  BY DEF CountsExact, Referrers, Pointing, Leave, Idle, heap, frame, heap, frame
<1>3. MembersTyped'
  BY DEF MembersTyped, Leave, Idle, heap, frame
<1>4. FramesTyped'
  BY DEF FramesTyped, TypeOK, Leave, Idle, heap, frame, At, Goto, Locked, Calls
<1>5. LocksHeld'
  BY DEF LocksHeld, TypeOK, Leave, Idle, heap, frame, At, Goto, Locked
<1>6. ListsOwned'
  BY DEF ListsOwned, TypeOK, Leave, Idle, heap, frame, At, Goto
<1>7. MembersHeld'
  BY DEF MembersHeld, TypeOK, Leave, Idle, heap, frame
<1>8. BorrowRetained'
  BY DEF BorrowRetained, Moving, TypeOK, Leave, Idle, heap, frame, At, Goto
<1> QED BY <1>1, <1>2, <1>3, <1>4, <1>5, <1>6, <1>7, <1>8

LEMMA NoResultStep ==
  ASSUME Inv, NEW th \in Thread, NoResult(th)
  PROVE  Inv'
<1> USE DEF Inv
<1>1. TypeOK'
  BY DEF TypeOK, NoResult, Idle, heap, frame, Goto, Steps, Calls, Locked
<1>2. CountsExact'
  BY DEF CountsExact, Referrers, Pointing, NoResult, Idle, heap, frame, heap, frame
<1>3. MembersTyped'
  BY DEF MembersTyped, NoResult, Idle, heap, frame
<1>4. FramesTyped'
  BY DEF FramesTyped, TypeOK, NoResult, Idle, heap, frame, At, Goto, Locked, Calls
<1>5. LocksHeld'
  BY DEF LocksHeld, TypeOK, NoResult, Idle, heap, frame, At, Goto, Locked
<1>6. ListsOwned'
  BY DEF ListsOwned, TypeOK, NoResult, Idle, heap, frame, At, Goto
<1>7. MembersHeld'
  BY DEF MembersHeld, TypeOK, NoResult, Idle, heap, frame
<1>8. BorrowRetained'
  BY DEF BorrowRetained, Moving, TypeOK, NoResult, Idle, heap, frame, At, Goto
<1> QED BY <1>1, <1>2, <1>3, <1>4, <1>5, <1>6, <1>7, <1>8

LEMMA ReturnChildrenStep ==
  ASSUME Inv, NEW th \in Thread, ReturnChildren(th)
  PROVE  Inv'
<1> USE DEF Inv
<1>1. TypeOK'
  BY DEF TypeOK, ReturnChildren, Idle, heap, frame, Goto, Steps, Calls, Locked
<1>2. CountsExact'
  BY DEF CountsExact, Referrers, Pointing, ReturnChildren, Idle, heap, frame, heap, frame
<1>3. MembersTyped'
  BY DEF MembersTyped, ReturnChildren, Idle, heap, frame
<1>4. FramesTyped'
  BY DEF FramesTyped, TypeOK, ReturnChildren, Idle, heap, frame, At, Goto, Locked, Calls
<1>5. LocksHeld'
  BY DEF LocksHeld, TypeOK, ReturnChildren, Idle, heap, frame, At, Goto, Locked
<1>6. ListsOwned'
  BY DEF ListsOwned, TypeOK, ReturnChildren, Idle, heap, frame, At, Goto
<1>7. MembersHeld'
  BY DEF MembersHeld, TypeOK, ReturnChildren, Idle, heap, frame
<1>8. BorrowRetained'
  BY DEF BorrowRetained, Moving, TypeOK, ReturnChildren, Idle, heap, frame, At, Goto
<1> QED BY <1>1, <1>2, <1>3, <1>4, <1>5, <1>6, <1>7, <1>8

LEMMA CancelChildrenStep ==
  ASSUME Inv, NEW th \in Thread, CancelChildren(th)
  PROVE  Inv'
<1> USE DEF Inv
<1>1. TypeOK'
  BY DEF TypeOK, CancelChildren, Idle, heap, frame, Goto, Steps, Calls, Locked
<1>2. CountsExact'
  BY DEF CountsExact, Referrers, Pointing, CancelChildren, Idle, heap, frame, heap, frame
<1>3. MembersTyped'
  BY DEF MembersTyped, CancelChildren, Idle, heap, frame
<1>4. FramesTyped'
  BY DEF FramesTyped, TypeOK, CancelChildren, Idle, heap, frame, At, Goto, Locked, Calls
<1>5. LocksHeld'
  BY DEF LocksHeld, TypeOK, CancelChildren, Idle, heap, frame, At, Goto, Locked
<1>6. ListsOwned'
  BY DEF ListsOwned, TypeOK, CancelChildren, Idle, heap, frame, At, Goto
<1>7. MembersHeld'
  BY DEF MembersHeld, TypeOK, CancelChildren, Idle, heap, frame
<1>8. BorrowRetained'
  BY DEF BorrowRetained, Moving, TypeOK, CancelChildren, Idle, heap, frame, At, Goto
<1> QED BY <1>1, <1>2, <1>3, <1>4, <1>5, <1>6, <1>7, <1>8

LEMMA UnwoundStep ==
  ASSUME Inv, NEW th \in Thread, Unwound(th)
  PROVE  Inv'
<1> USE DEF Inv
<1>1. TypeOK'
  BY DEF TypeOK, Unwound, Idle, heap, frame, Goto, Steps, Calls, Locked
<1>2. CountsExact'
  BY DEF CountsExact, Referrers, Pointing, Unwound, Idle, heap, frame, heap, frame
<1>3. MembersTyped'
  BY DEF MembersTyped, Unwound, Idle, heap, frame
<1>4. FramesTyped'
  BY DEF FramesTyped, TypeOK, Unwound, Idle, heap, frame, At, Goto, Locked, Calls
<1>5. LocksHeld'
  BY DEF LocksHeld, TypeOK, Unwound, Idle, heap, frame, At, Goto, Locked
<1>6. ListsOwned'
  BY DEF ListsOwned, TypeOK, Unwound, Idle, heap, frame, At, Goto
<1>7. MembersHeld'
  BY DEF MembersHeld, TypeOK, Unwound, Idle, heap, frame
<1>8. BorrowRetained'
  BY DEF BorrowRetained, Moving, TypeOK, Unwound, Idle, heap, frame, At, Goto
<1> QED BY <1>1, <1>2, <1>3, <1>4, <1>5, <1>6, <1>7, <1>8

LEMMA LockStep ==
  ASSUME Inv, NEW th \in Thread, Lock(th)
  PROVE  Inv'
<1> USE DEF Inv
<1>a. self[th] \in Lockable /\ mutex[self[th]] = Null /\ ~At(th, Locked)
  BY DEF FramesTyped, Lock, At, Locked, Unlocked
<1>1. TypeOK'
  BY <1>a DEF TypeOK, Lock, Idle, heap, frame, Unlocked, Goto, Steps, Calls, Locked
<1>2. CountsExact'
  BY DEF CountsExact, Referrers, Pointing, Lock, Idle, heap, frame, Unlocked, heap, frame
<1>3. MembersTyped'
  BY <1>a DEF MembersTyped, Lock, Idle, heap, frame, Unlocked
<1>4. FramesTyped'
  BY <1>a DEF FramesTyped, TypeOK, Lock, Idle, heap, frame, Unlocked, At, Goto, Locked, Calls
<1>5. LocksHeld'
  BY <1>a, NullIsNothing DEF LocksHeld, TypeOK, Lock, Idle, heap, frame, Unlocked, At, Goto, Locked
<1>6. ListsOwned'
  BY <1>a DEF ListsOwned, TypeOK, Lock, Idle, heap, frame, Unlocked, At, Goto
<1>7. MembersHeld'
  BY <1>a DEF MembersHeld, TypeOK, Lock, Idle, heap, frame, Unlocked
<1>8. BorrowRetained'
  BY <1>a DEF BorrowRetained, Moving, TypeOK, Lock, Idle, heap, frame, Unlocked, At, Goto
<1> QED BY <1>1, <1>2, <1>3, <1>4, <1>5, <1>6, <1>7, <1>8

LEMMA UnlockStep ==
  ASSUME Inv, NEW th \in Thread, Unlock(th)
  PROVE  Inv'
<1> USE DEF Inv
<1>a. self[th] \in Lockable /\ mutex[self[th]] = th
  BY DEF FramesTyped, LocksHeld, Unlock, At, Locked
<1>1. TypeOK'
  BY <1>a DEF TypeOK, Unlock, Idle, heap, frame, Goto, Steps, Calls, Locked
<1>2. CountsExact'
  BY DEF CountsExact, Referrers, Pointing, Unlock, Idle, heap, frame, heap, frame
<1>3. MembersTyped'
  BY <1>a DEF MembersTyped, Unlock, Idle, heap, frame
<1>4. FramesTyped'
  BY <1>a DEF FramesTyped, TypeOK, Unlock, Idle, heap, frame, At, Goto, Locked, Calls
<1>5. LocksHeld'
  BY <1>a, NullIsNothing DEF LocksHeld, TypeOK, Unlock, Idle, heap, frame, At, Goto, Locked
<1>6. ListsOwned'
  BY <1>a DEF ListsOwned, TypeOK, Unlock, Idle, heap, frame, At, Goto
<1>7. MembersHeld'
  BY <1>a DEF MembersHeld, TypeOK, Unlock, Idle, heap, frame
<1>8. BorrowRetained'
  BY <1>a DEF BorrowRetained, Moving, TypeOK, Unlock, Idle, heap, frame, At, Goto
<1> QED BY <1>1, <1>2, <1>3, <1>4, <1>5, <1>6, <1>7, <1>8

LEMMA ParseStep ==
  ASSUME Inv, NEW th \in Thread, NEW t \in Tree, Parse(th, t)
  PROVE  Inv'
<1> USE DEF Inv
<1>a. t \in Cell \ (Borrower \cup Owner) /\ t \notin objects
  BY Held, DistinctKinds DEF Parse, NewObject, Fresh, Cell, Object
<1>1. TypeOK'
  BY <1>a DEF TypeOK, Parse, NewObject, frame, Goto, Steps, Calls, Locked, Object, Cell
<1>2. CountsExact'
  <2> SUFFICES ASSUME NEW d \in Cell PROVE refs'[d] = Referrers(d)'
    BY DEF CountsExact
  <2>1. Counts(d) /\ refs[t] = 0
    BY CountsAreNat DEF Parse, NewObject, Fresh
  <2>2. UNCHANGED <<tree, query, frame>>
    BY DEF Parse, NewObject, frame
  <2>3. refs'[d] = refs[d] + One(t, d)
    BY <2>1 DEF TypeOK, Parse, NewObject, One
  <2>4. d \in objects' <=> d \in objects \/ d = t
    BY DEF Parse, NewObject
  <2> QED BY <1>a, <2>1, <2>2, <2>3, <2>4 DEF Counts, Referrers, One, frame
<1>3. MembersTyped'
  BY <1>a DEF MembersTyped, Parse, NewObject, frame
<1>4. FramesTyped'
  BY <1>a DEF FramesTyped, TypeOK, Parse, NewObject, frame, At, Goto, Locked, Calls
<1>5. LocksHeld'
  BY <1>a DEF LocksHeld, TypeOK, Parse, NewObject, frame, At, Goto, Locked
<1>6. ListsOwned'
  BY <1>a DEF ListsOwned, TypeOK, Parse, NewObject, frame, At, Goto
<1>7. MembersHeld'
  BY <1>a, DistinctKinds DEF MembersHeld, TypeOK, Parse, NewObject, frame, Borrower, Cell, Object
<1>8. BorrowRetained'
  BY <1>a DEF BorrowRetained, Moving, TypeOK, Parse, NewObject, frame, At, Goto
<1> QED BY <1>1, <1>2, <1>3, <1>4, <1>5, <1>6, <1>7, <1>8

LEMMA CopyTreeStep ==
  ASSUME Inv, NEW th \in Thread, NEW t \in Tree, CopyTree(th, t)
  PROVE  Inv'
<1> USE DEF Inv
<1>a. t \in Cell \ (Borrower \cup Owner) /\ t \notin objects
  BY Held, DistinctKinds DEF CopyTree, NewObject, Fresh, Cell, Object
<1>1. TypeOK'
  BY <1>a DEF TypeOK, CopyTree, NewObject, frame, Goto, Steps, Calls, Locked, Object, Cell
<1>2. CountsExact'
  <2> SUFFICES ASSUME NEW d \in Cell PROVE refs'[d] = Referrers(d)'
    BY DEF CountsExact
  <2>1. Counts(d) /\ refs[t] = 0
    BY CountsAreNat DEF CopyTree, NewObject, Fresh
  <2>2. UNCHANGED <<tree, query, frame>>
    BY DEF CopyTree, NewObject, frame
  <2>3. refs'[d] = refs[d] + One(t, d)
    BY <2>1 DEF TypeOK, CopyTree, NewObject, One
  <2>4. d \in objects' <=> d \in objects \/ d = t
    BY DEF CopyTree, NewObject
  <2> QED BY <1>a, <2>1, <2>2, <2>3, <2>4 DEF Counts, Referrers, One, frame
<1>3. MembersTyped'
  BY <1>a DEF MembersTyped, CopyTree, NewObject, frame
<1>4. FramesTyped'
  BY <1>a DEF FramesTyped, TypeOK, CopyTree, NewObject, frame, At, Goto, Locked, Calls
<1>5. LocksHeld'
  BY <1>a DEF LocksHeld, TypeOK, CopyTree, NewObject, frame, At, Goto, Locked
<1>6. ListsOwned'
  BY <1>a DEF ListsOwned, TypeOK, CopyTree, NewObject, frame, At, Goto
<1>7. MembersHeld'
  BY <1>a, DistinctKinds DEF MembersHeld, TypeOK, CopyTree, NewObject, frame, Borrower, Cell, Object
<1>8. BorrowRetained'
  BY <1>a DEF BorrowRetained, Moving, TypeOK, CopyTree, NewObject, frame, At, Goto
<1> QED BY <1>1, <1>2, <1>3, <1>4, <1>5, <1>6, <1>7, <1>8

LEMMA NewQueryStep ==
  ASSUME Inv, NEW th \in Thread, NEW q \in Query, NewQuery(th, q)
  PROVE  Inv'
<1> USE DEF Inv
<1>a. q \in Cell \ (Borrower \cup Owner) /\ q \notin objects
  BY Held, DistinctKinds DEF NewQuery, NewObject, Fresh, Cell, Object
<1>1. TypeOK'
  BY <1>a DEF TypeOK, NewQuery, NewObject, frame, Goto, Steps, Calls, Locked, Object, Cell
<1>2. CountsExact'
  <2> SUFFICES ASSUME NEW d \in Cell PROVE refs'[d] = Referrers(d)'
    BY DEF CountsExact
  <2>1. Counts(d) /\ refs[q] = 0
    BY CountsAreNat DEF NewQuery, NewObject, Fresh
  <2>2. UNCHANGED <<tree, query, frame>>
    BY DEF NewQuery, NewObject, frame
  <2>3. refs'[d] = refs[d] + One(q, d)
    BY <2>1 DEF TypeOK, NewQuery, NewObject, One
  <2>4. d \in objects' <=> d \in objects \/ d = q
    BY DEF NewQuery, NewObject
  <2> QED BY <1>a, <2>1, <2>2, <2>3, <2>4 DEF Counts, Referrers, One, frame
<1>3. MembersTyped'
  BY <1>a DEF MembersTyped, NewQuery, NewObject, frame
<1>4. FramesTyped'
  BY <1>a DEF FramesTyped, TypeOK, NewQuery, NewObject, frame, At, Goto, Locked, Calls
<1>5. LocksHeld'
  BY <1>a DEF LocksHeld, TypeOK, NewQuery, NewObject, frame, At, Goto, Locked
<1>6. ListsOwned'
  BY <1>a DEF ListsOwned, TypeOK, NewQuery, NewObject, frame, At, Goto
<1>7. MembersHeld'
  BY <1>a, DistinctKinds DEF MembersHeld, TypeOK, NewQuery, NewObject, frame, Borrower, Cell, Object
<1>8. BorrowRetained'
  BY <1>a DEF BorrowRetained, Moving, TypeOK, NewQuery, NewObject, frame, At, Goto
<1> QED BY <1>1, <1>2, <1>3, <1>4, <1>5, <1>6, <1>7, <1>8

LEMMA NewQueryCursorStep ==
  ASSUME Inv, NEW th \in Thread, NEW qc \in QueryCursor, NewQueryCursor(th, qc)
  PROVE  Inv'
<1> USE DEF Inv
<1>a. qc \in Cell /\ qc \notin objects /\ query[qc] = Null /\ refs[qc] = 0
      /\ tree[qc] = Null
  BY Held DEF NewQueryCursor, Fresh, Cell, Object, Borrower, MembersHeld
<1>b. self[th] \in Query /\ self[th] \in Cell /\ refs[self[th]] \in Nat \ {0}
  BY Held DEF NewQueryCursor, FramesTyped, At, Cell, Object, TypeOK
<1>c. \A x \in Cell : refs'[x] = IF x = qc THEN 1 ELSE IF x = self[th] THEN refs[x] + 1
                                   ELSE refs[x]
  BY <1>a, <1>b DEF TypeOK, NewQueryCursor
<1>1. TypeOK'
  BY <1>a, <1>b DEF TypeOK, NewQueryCursor, frame, Goto, Steps, Calls, Locked, Object, Cell, Borrower
<1>2. CountsExact'
  <2> SUFFICES ASSUME NEW d \in Cell PROVE refs'[d] = Referrers(d)'
    BY DEF CountsExact
  <2>1. Counts(d)
    BY CountsAreNat
  <2>2. Pointing(query', d) = Pointing(query, d) - One(query[qc], d) + One(self[th], d)
    BY <1>1, SetQuery DEF TypeOK, NewQueryCursor
  <2>3. One(query[qc], d) = 0
    BY <1>a, NullIsNothing DEF One
  <2>4. refs'[d] = refs[d] + One(qc, d) + One(self[th], d)
    BY <1>a, <1>b, <1>c, <2>1 DEF One, Counts
  <2>5. UNCHANGED <<tree, frame>> /\ (d \in objects' <=> d \in objects \/ d = qc)
    BY DEF NewQueryCursor, frame
  <2> QED BY <1>a, <2>1, <2>2, <2>3, <2>4, <2>5 DEF Counts, Referrers, One, frame
<1>3. MembersTyped'
  BY <1>a, <1>b DEF MembersTyped, NewQueryCursor, frame
<1>4. FramesTyped'
  BY <1>a, <1>b DEF FramesTyped, TypeOK, NewQueryCursor, frame, At, Goto, Locked, Calls
<1>5. LocksHeld'
  BY <1>a, <1>b DEF LocksHeld, TypeOK, NewQueryCursor, frame, At, Goto, Locked
<1>6. ListsOwned'
  BY <1>a, <1>b DEF ListsOwned, TypeOK, NewQueryCursor, frame, At, Goto
<1>7. MembersHeld'
  BY <1>a, <1>b, <1>c, DistinctKinds, NullIsNothing DEF MembersHeld, TypeOK, NewQueryCursor, frame, Cell, Object, Borrower
<1>8. BorrowRetained'
  BY <1>a, <1>b DEF BorrowRetained, Moving, TypeOK, NewQueryCursor, frame, At, Goto
<1> QED BY <1>1, <1>2, <1>3, <1>4, <1>5, <1>6, <1>7, <1>8

LEMMA RefTreeStep ==
  ASSUME Inv, NEW th \in Thread, RefTree(th)
  PROVE  Inv'
<1> USE DEF Inv
<1>a. self[th] \in Tree /\ self[th] \in Cell /\ refs[self[th]] \in Nat \ {0}
  BY Held DEF RefTree, FramesTyped, At, Cell, Object, TypeOK
<1>b. self[th] \notin Borrower \cup Owner
  BY <1>a, DistinctKinds
<1>1. TypeOK'
  BY <1>a, <1>b DEF TypeOK, RefTree, frame, Goto, Steps, Calls, Locked
<1>2. CountsExact'
  <2> SUFFICES ASSUME NEW d \in Cell PROVE refs'[d] = Referrers(d)'
    BY DEF CountsExact
  <2>1. Counts(d)
    BY CountsAreNat
  <2>2. Pointing(old', d) = Pointing(old, d) - One(old[th], d) + One(self[th], d)
    BY <1>1, SetOld DEF TypeOK, RefTree
  <2>3. One(old[th], d) = 0
    BY NullIsNothing DEF FramesTyped, At, Calls, RefTree, One
  <2>4. refs'[d] = refs[d] + One(self[th], d)
    BY <1>a, <2>1 DEF TypeOK, RefTree, One, Counts
  <2> QED BY <2>1, <2>2, <2>3, <2>4 DEF Counts, Referrers, One, RefTree
<1>3. MembersTyped'
  BY <1>a, <1>b DEF MembersTyped, RefTree, frame
<1>4. FramesTyped'
  BY <1>a, <1>b DEF FramesTyped, TypeOK, RefTree, frame, At, Goto, Locked, Calls
<1>5. LocksHeld'
  BY <1>a, <1>b DEF LocksHeld, TypeOK, RefTree, frame, At, Goto, Locked
<1>6. ListsOwned'
  BY <1>a, <1>b DEF ListsOwned, TypeOK, RefTree, frame, At, Goto
<1>7. MembersHeld'
  BY <1>a, <1>b DEF MembersHeld, TypeOK, RefTree, frame, Borrower
<1>8. BorrowRetained'
  BY <1>a, <1>b DEF BorrowRetained, Moving, TypeOK, RefTree, frame, At, Goto
<1> QED BY <1>1, <1>2, <1>3, <1>4, <1>5, <1>6, <1>7, <1>8

LEMMA ReleaseChildStep ==
  ASSUME Inv, NEW th \in Thread, NEW n \in Node, ReleaseChild(th, n)
  PROVE  Inv'
<1> USE DEF Inv
<1>a. n \in Cell /\ n \in objects /\ old[th] = Null
  BY DEF ReleaseChild, Idle, ListsOwned, Cell, Object, Borrower
<1>1. TypeOK'
  BY <1>a DEF TypeOK, ReleaseChild, Idle, Goto, Steps, Calls, Locked
<1>2. CountsExact'
  <2> SUFFICES ASSUME NEW d \in Cell PROVE refs'[d] = Referrers(d)'
    BY DEF CountsExact
  <2>1. Counts(d)
    BY CountsAreNat
  <2>2. Pointing(old', d) = Pointing(old, d) - One(Null, d) + One(n, d)
    BY <1>1, <1>a, SetOld DEF TypeOK, ReleaseChild
  <2>3. One(Null, d) = 0
    BY NullIsNothing DEF One
  <2> QED BY <1>a, <2>1, <2>2, <2>3 DEF Counts, Referrers, One, ReleaseChild
<1>3. MembersTyped'
  BY <1>a DEF MembersTyped, ReleaseChild, Idle
<1>4. FramesTyped'
  BY <1>a DEF FramesTyped, TypeOK, ReleaseChild, Idle, At, Goto, Locked, Calls
<1>5. LocksHeld'
  BY <1>a DEF LocksHeld, TypeOK, ReleaseChild, Idle, At, Goto, Locked
<1>6. ListsOwned'
  BY <1>a DEF ListsOwned, TypeOK, ReleaseChild, Idle, At, Goto
<1>7. MembersHeld'
  BY <1>a DEF MembersHeld, TypeOK, ReleaseChild, Idle
<1>8. BorrowRetained'
  BY <1>a DEF BorrowRetained, Moving, TypeOK, ReleaseChild, Idle, At, Goto
<1> QED BY <1>1, <1>2, <1>3, <1>4, <1>5, <1>6, <1>7, <1>8

LEMMA BindStep ==
  ASSUME Inv, NEW th \in Thread, Bind(th)
  PROVE  Inv'
<1> USE DEF Inv
<1>a. self[th] \in Lockable /\ self[th] \in Borrower /\ mutex[self[th]] = th
      /\ arg[th] \in Node /\ arg[th] \in Borrower
  BY DEF FramesTyped, LocksHeld, Bind, At, Locked, Lockable, Borrower
<1>b. \A l \in Lockable : mutex[l] = th => l = self[th]
  BY DEF LocksHeld
<1>c. native' = [native EXCEPT ![self[th]] = native[arg[th]]] /\ UNCHANGED <<tree, mutex, arg>>
  BY DEF Bind, frame
<1>1. TypeOK'
  BY <1>a, <1>b DEF TypeOK, Bind, frame, Goto, Steps, Calls, Locked
<1>2. CountsExact'
  BY DEF CountsExact, Referrers, Pointing, Bind, frame, heap, frame
<1>3. MembersTyped'
  BY <1>a, <1>b DEF MembersTyped, Bind, frame
<1>4. FramesTyped'
  BY <1>a, <1>b DEF FramesTyped, TypeOK, Bind, frame, At, Goto, Locked, Calls
<1>5. LocksHeld'
  BY <1>a, <1>b DEF LocksHeld, TypeOK, Bind, frame, At, Goto, Locked
<1>6. ListsOwned'
  BY <1>a, <1>b DEF ListsOwned, TypeOK, Bind, frame, At, Goto
<1>7. MembersHeld'
  BY <1>a, <1>b DEF MembersHeld, TypeOK, Bind, frame
<1>8. BorrowRetained'
  <2> SUFFICES ASSUME NEW b \in Borrower
               PROVE IF Moving(b)' THEN native'[b] = native'[arg'[mutex'[b]]]
                     ELSE IF tree'[b] = Null THEN native'[b] = Null
                     ELSE native'[b] = tree'[tree'[b]]
    BY DEF BorrowRetained, Moving
  <2>1. arg[th] \notin Lockable
    BY <1>a, DistinctKinds
  <2>2. CASE b = self[th]
    <3>1. Moving(b)'
      BY <1>a, <2>2, NullIsNothing DEF Moving, Bind, Goto, TypeOK
    <3> QED BY <1>a, <1>c, <2>1, <2>2, <3>1 DEF TypeOK
  <2>3. CASE b # self[th]
    <3>1. Moving(b)' <=> Moving(b)
      BY <1>b, <2>3 DEF Moving, Bind, Goto, TypeOK, At
    <3>2. native'[b] = native[b]
      BY <1>c, <2>3 DEF TypeOK
    <3>3. Moving(b) => arg[mutex[b]] \in Node
      BY DEF Moving, LocksHeld, FramesTyped, At, Locked, TypeOK
    <3>4. Moving(b) => native'[arg[mutex[b]]] = native[arg[mutex[b]]]
      BY <1>a, <1>c, <3>3, DistinctKinds DEF TypeOK
    <3> QED BY <1>c, <3>1, <3>2, <3>4 DEF BorrowRetained
  <2> QED BY <2>2, <2>3
<1> QED BY <1>1, <1>2, <1>3, <1>4, <1>5, <1>6, <1>7, <1>8

LEMMA AdoptStep ==
  ASSUME Inv, NEW th \in Thread, Adopt(th)
  PROVE  Inv'
<1> USE DEF Inv
<1>a. self[th] \in Lockable /\ self[th] \in Borrower /\ mutex[self[th]] = th
      /\ arg[th] \in Node /\ arg[th] \in Borrower /\ arg[th] # self[th]
  BY DistinctKinds DEF FramesTyped, LocksHeld, Adopt, At, Locked, Lockable, Borrower
<1>b. \A l \in Lockable : mutex[l] = th => l = self[th]
  BY DEF LocksHeld
<1>c. refs[arg[th]] # 0 /\ refs[self[th]] # 0
  BY <1>a, Held DEF Cell, Object, Borrower
<1>d. tree[arg[th]] \in Owner /\ tree[arg[th]] \in Cell /\ refs[tree[arg[th]]] \in Nat \ {0}
  BY <1>a, <1>c, Retained
<1>e. tree[self[th]] \in Owner \cup {Null} /\ old[th] = Null
  BY <1>a DEF MembersTyped, FramesTyped, Adopt, At
<1>f. Moving(self[th])
  BY <1>a, NullIsNothing DEF Moving, Adopt, At
<1>1. TypeOK'
  BY <1>a, <1>b, <1>d, <1>e DEF TypeOK, Adopt, frame, Goto, Steps, Calls, Locked, Cell
<1>2. CountsExact'
  <2> SUFFICES ASSUME NEW d \in Cell PROVE refs'[d] = Referrers(d)'
    BY DEF CountsExact
  <2>1. Counts(d)
    BY CountsAreNat
  <2>2. Pointing(old', d) = Pointing(old, d) - One(Null, d) + One(tree[self[th]], d)
    BY <1>1, <1>e, SetOld DEF TypeOK, Adopt
  <2>3. Pointing(tree', d)
          = Pointing(tree, d) - One(tree[self[th]], d) + One(tree[arg[th]], d)
    BY <1>1, <1>a, SetTree DEF TypeOK, Adopt
  <2>4. One(Null, d) = 0
    BY NullIsNothing DEF One
  <2>5. refs'[d] = refs[d] + One(tree[arg[th]], d)
    BY <1>d, <2>1 DEF TypeOK, Adopt, One, Counts
  <2> QED BY <2>1, <2>2, <2>3, <2>4, <2>5 DEF Counts, Referrers, One, Adopt
<1>3. MembersTyped'
  BY <1>a, <1>d, DistinctKinds DEF MembersTyped, TypeOK, Adopt
<1>4. FramesTyped'
  BY <1>a, <1>b, <1>d, <1>e DEF FramesTyped, TypeOK, Adopt, frame, At, Goto, Locked, Calls
<1>5. LocksHeld'
  BY <1>a, <1>b, <1>d, <1>e DEF LocksHeld, TypeOK, Adopt, frame, At, Goto, Locked
<1>6. ListsOwned'
  BY <1>a, <1>b, <1>d, <1>e DEF ListsOwned, TypeOK, Adopt, frame, At, Goto
<1>7. MembersHeld'
  BY <1>a, <1>c, <1>d, NullIsNothing, DistinctKinds DEF MembersHeld, TypeOK, Adopt, frame, Cell
<1>8. BorrowRetained'
  <2> SUFFICES ASSUME NEW b \in Borrower
               PROVE IF Moving(b)' THEN native'[b] = native'[arg'[mutex'[b]]]
                     ELSE IF tree'[b] = Null THEN native'[b] = Null
                     ELSE native'[b] = tree'[tree'[b]]
    BY DEF BorrowRetained, Moving
  <2>0. UNCHANGED <<native, arg, mutex>>
    BY DEF Adopt
  <2>1. \A o \in Owner : tree'[o] = tree[o]
    BY <1>a, DistinctKinds DEF Adopt, TypeOK
  <2>2. CASE b = self[th]
    <3>1. ~Moving(b)' /\ tree'[b] = tree[arg[th]]
      BY <1>a, <2>2 DEF Moving, Adopt, Goto, TypeOK
    <3>2. ~Moving(arg[th])
      BY <1>a, DistinctKinds DEF Moving
    <3>3. native[arg[th]] = tree[tree[arg[th]]]
      BY <1>a, <1>d, <3>2, NullIsNothing DEF BorrowRetained
    <3>4. native[b] = native[arg[th]]
      BY <1>a, <1>f, <2>2 DEF BorrowRetained
    <3> QED BY <1>d, <2>0, <2>1, <2>2, <3>1, <3>3, <3>4, NullIsNothing
  <2>3. CASE b # self[th]
    <3>1. Moving(b)' <=> Moving(b)
      BY <1>b, <2>3 DEF Moving, Adopt, Goto, TypeOK
    <3>2. tree'[b] = tree[b] /\ tree[b] \in Owner \cup {Null}
      BY <2>3 DEF TypeOK, Adopt, MembersTyped
    <3> QED BY <2>0, <2>1, <3>1, <3>2 DEF BorrowRetained
  <2> QED BY <2>2, <2>3
<1> QED BY <1>1, <1>2, <1>3, <1>4, <1>5, <1>6, <1>7, <1>8

LEMMA NewNodeStep ==
  ASSUME Inv, NEW th \in Thread, NEW n \in Node, NewNode(th, n)
  PROVE  Inv'
<1> USE DEF Inv
<1>a. self[th] \in Node /\ Share(self[th], n) /\ n \in Object /\ UNCHANGED <<frame, mutex>>
  BY DEF NewNode, FramesTyped, At, Object, Borrower
<1>b. self[th] \in Borrower /\ tree[self[th]] \in Owner \cup {Null} /\ n \notin objects
      /\ refs[self[th]] # 0
  BY <1>a, Held DEF MembersTyped, Borrower, Share, Fresh, Cell, Object
<1>c. ~Moving(self[th])
  BY <1>a, DistinctKinds, NullIsNothing DEF Moving, NewNode
<1>d. \A b \in Borrower : Moving(b)' <=> Moving(b)
  BY DEF Moving, NewNode, At, Goto, TypeOK
<1>e. refs' \in [Cell -> Nat]
  BY <1>a, <1>b, Retained DEF Share, TypeOK
<1>f. tree' \in [Borrower \cup Owner -> Owner \cup Tree \cup {Null}] /\ UNCHANGED query
  BY <1>a, <1>b DEF Share, TypeOK
<1>g. native' \in [Borrower -> Tree \cup {Null}] /\ objects' \in SUBSET Object
  BY <1>a, <1>b DEF Share, TypeOK
<1>s. TypeOK' => CountsExact' /\ MembersTyped' /\ MembersHeld' /\ BorrowRetained'
  BY <1>a, <1>b, <1>c, <1>d, Shared
<1>1. TypeOK'
  BY <1>a, <1>e, <1>f, <1>g DEF TypeOK, NewNode, frame, Goto, Steps
<1>2. CountsExact'
  BY <1>1, <1>s
<1>3. MembersTyped'
  BY <1>1, <1>s
<1>4. FramesTyped'
  BY DEF FramesTyped, TypeOK, NewNode, Share, frame, At, Goto, Locked, Calls
<1>5. LocksHeld'
  BY DEF LocksHeld, TypeOK, NewNode, Share, frame, At, Goto, Locked
<1>6. ListsOwned'
  BY <1>a, <1>b DEF ListsOwned, TypeOK, NewNode, Share, frame, At, Goto
<1>7. MembersHeld'
  BY <1>1, <1>s
<1>8. BorrowRetained'
  BY <1>1, <1>s
<1> QED BY <1>1, <1>2, <1>3, <1>4, <1>5, <1>6, <1>7, <1>8

LEMMA NewCursorStep ==
  ASSUME Inv, NEW th \in Thread, NEW c \in Cursor, NewCursor(th, c)
  PROVE  Inv'
<1> USE DEF Inv
<1>a. self[th] \in Node /\ Share(self[th], c) /\ c \in Object /\ UNCHANGED <<frame, mutex>>
  BY DEF NewCursor, FramesTyped, At, Object, Borrower
<1>b. self[th] \in Borrower /\ tree[self[th]] \in Owner \cup {Null} /\ c \notin objects
      /\ refs[self[th]] # 0
  BY <1>a, Held DEF MembersTyped, Borrower, Share, Fresh, Cell, Object
<1>c. ~Moving(self[th])
  BY <1>a, DistinctKinds, NullIsNothing DEF Moving, NewCursor
<1>d. \A b \in Borrower : Moving(b)' <=> Moving(b)
  BY DEF Moving, NewCursor, At, Goto, TypeOK
<1>e. refs' \in [Cell -> Nat]
  BY <1>a, <1>b, Retained DEF Share, TypeOK
<1>f. tree' \in [Borrower \cup Owner -> Owner \cup Tree \cup {Null}] /\ UNCHANGED query
  BY <1>a, <1>b DEF Share, TypeOK
<1>g. native' \in [Borrower -> Tree \cup {Null}] /\ objects' \in SUBSET Object
  BY <1>a, <1>b DEF Share, TypeOK
<1>s. TypeOK' => CountsExact' /\ MembersTyped' /\ MembersHeld' /\ BorrowRetained'
  BY <1>a, <1>b, <1>c, <1>d, Shared
<1>1. TypeOK'
  BY <1>a, <1>e, <1>f, <1>g DEF TypeOK, NewCursor, frame, Goto, Steps
<1>2. CountsExact'
  BY <1>1, <1>s
<1>3. MembersTyped'
  BY <1>1, <1>s
<1>4. FramesTyped'
  BY DEF FramesTyped, TypeOK, NewCursor, Share, frame, At, Goto, Locked, Calls
<1>5. LocksHeld'
  BY DEF LocksHeld, TypeOK, NewCursor, Share, frame, At, Goto, Locked
<1>6. ListsOwned'
  BY <1>a, <1>b DEF ListsOwned, TypeOK, NewCursor, Share, frame, At, Goto
<1>7. MembersHeld'
  BY <1>1, <1>s
<1>8. BorrowRetained'
  BY <1>1, <1>s
<1> QED BY <1>1, <1>2, <1>3, <1>4, <1>5, <1>6, <1>7, <1>8

LEMMA GetCurrentNodeStep ==
  ASSUME Inv, NEW th \in Thread, NEW n \in Node, GetCurrentNode(th, n)
  PROVE  Inv'
<1> USE DEF Inv
<1>a. self[th] \in Cursor /\ Share(self[th], n) /\ n \in Object /\ UNCHANGED <<frame, mutex>>
  BY DEF GetCurrentNode, FramesTyped, At, Object, Borrower
<1>b. self[th] \in Borrower /\ tree[self[th]] \in Owner \cup {Null} /\ n \notin objects
      /\ refs[self[th]] # 0
  BY <1>a, Held DEF MembersTyped, Borrower, Share, Fresh, Cell, Object
<1>c. ~Moving(self[th])
  BY <1>a, DistinctKinds, NullIsNothing DEF Moving, GetCurrentNode, Unlocked
<1>d. \A b \in Borrower : Moving(b)' <=> Moving(b)
  BY DEF Moving, GetCurrentNode, At, Goto, TypeOK
<1>e. refs' \in [Cell -> Nat]
  BY <1>a, <1>b, Retained DEF Share, TypeOK
<1>f. tree' \in [Borrower \cup Owner -> Owner \cup Tree \cup {Null}] /\ UNCHANGED query
  BY <1>a, <1>b DEF Share, TypeOK
<1>g. native' \in [Borrower -> Tree \cup {Null}] /\ objects' \in SUBSET Object
  BY <1>a, <1>b DEF Share, TypeOK
<1>s. TypeOK' => CountsExact' /\ MembersTyped' /\ MembersHeld' /\ BorrowRetained'
  BY <1>a, <1>b, <1>c, <1>d, Shared
<1>1. TypeOK'
  BY <1>a, <1>e, <1>f, <1>g DEF TypeOK, GetCurrentNode, frame, Goto, Steps
<1>2. CountsExact'
  BY <1>1, <1>s
<1>3. MembersTyped'
  BY <1>1, <1>s
<1>4. FramesTyped'
  BY DEF FramesTyped, TypeOK, GetCurrentNode, Share, frame, At, Goto, Locked, Calls
<1>5. LocksHeld'
  BY DEF LocksHeld, TypeOK, GetCurrentNode, Share, frame, At, Goto, Locked
<1>6. ListsOwned'
  BY <1>a, <1>b DEF ListsOwned, TypeOK, GetCurrentNode, Share, frame, At, Goto
<1>7. MembersHeld'
  BY <1>1, <1>s
<1>8. BorrowRetained'
  BY <1>1, <1>s
<1> QED BY <1>1, <1>2, <1>3, <1>4, <1>5, <1>6, <1>7, <1>8

LEMMA CopyCursorStep ==
  ASSUME Inv, NEW th \in Thread, NEW c \in Cursor, CopyCursor(th, c)
  PROVE  Inv'
<1> USE DEF Inv
<1>a. self[th] \in Cursor /\ Share(self[th], c) /\ c \in Object /\ UNCHANGED <<frame, mutex>>
  BY DEF CopyCursor, FramesTyped, At, Object, Borrower
<1>b. self[th] \in Borrower /\ tree[self[th]] \in Owner \cup {Null} /\ c \notin objects
      /\ refs[self[th]] # 0
  BY <1>a, Held DEF MembersTyped, Borrower, Share, Fresh, Cell, Object
<1>c. ~Moving(self[th])
  BY <1>a, DistinctKinds, NullIsNothing DEF Moving, CopyCursor, Unlocked
<1>d. \A b \in Borrower : Moving(b)' <=> Moving(b)
  BY DEF Moving, CopyCursor, At, Goto, TypeOK
<1>e. refs' \in [Cell -> Nat]
  BY <1>a, <1>b, Retained DEF Share, TypeOK
<1>f. tree' \in [Borrower \cup Owner -> Owner \cup Tree \cup {Null}] /\ UNCHANGED query
  BY <1>a, <1>b DEF Share, TypeOK
<1>g. native' \in [Borrower -> Tree \cup {Null}] /\ objects' \in SUBSET Object
  BY <1>a, <1>b DEF Share, TypeOK
<1>s. TypeOK' => CountsExact' /\ MembersTyped' /\ MembersHeld' /\ BorrowRetained'
  BY <1>a, <1>b, <1>c, <1>d, Shared
<1>1. TypeOK'
  BY <1>a, <1>e, <1>f, <1>g DEF TypeOK, CopyCursor, frame, Goto, Steps
<1>2. CountsExact'
  BY <1>1, <1>s
<1>3. MembersTyped'
  BY <1>1, <1>s
<1>4. FramesTyped'
  BY DEF FramesTyped, TypeOK, CopyCursor, Share, frame, At, Goto, Locked, Calls
<1>5. LocksHeld'
  BY DEF LocksHeld, TypeOK, CopyCursor, Share, frame, At, Goto, Locked
<1>6. ListsOwned'
  BY <1>a, <1>b DEF ListsOwned, TypeOK, CopyCursor, Share, frame, At, Goto
<1>7. MembersHeld'
  BY <1>1, <1>s
<1>8. BorrowRetained'
  BY <1>1, <1>s
<1> QED BY <1>1, <1>2, <1>3, <1>4, <1>5, <1>6, <1>7, <1>8

LEMMA AppendChildStep ==
  ASSUME Inv, NEW th \in Thread, NEW n \in Node, AppendChild(th, n)
  PROVE  Inv'
<1> USE DEF Inv
<1>a. self[th] \in Node /\ Share(self[th], n) /\ n \in Object /\ UNCHANGED <<frame, mutex>>
  BY DEF AppendChild, FramesTyped, At, Object, Borrower
<1>b. self[th] \in Borrower /\ tree[self[th]] \in Owner \cup {Null} /\ n \notin objects
      /\ refs[self[th]] # 0
  BY <1>a, Held DEF MembersTyped, Borrower, Share, Fresh, Cell, Object
<1>c. ~Moving(self[th])
  BY <1>a, DistinctKinds, NullIsNothing DEF Moving, AppendChild
<1>d. \A b \in Borrower : Moving(b)' <=> Moving(b)
  BY DEF Moving, AppendChild, At, Goto, TypeOK
<1>e. refs' \in [Cell -> Nat]
  BY <1>a, <1>b, Retained DEF Share, TypeOK
<1>f. tree' \in [Borrower \cup Owner -> Owner \cup Tree \cup {Null}] /\ UNCHANGED query
  BY <1>a, <1>b DEF Share, TypeOK
<1>g. native' \in [Borrower -> Tree \cup {Null}] /\ objects' \in SUBSET Object
  BY <1>a, <1>b DEF Share, TypeOK
<1>s. TypeOK' => CountsExact' /\ MembersTyped' /\ MembersHeld' /\ BorrowRetained'
  BY <1>a, <1>b, <1>c, <1>d, Shared
<1>1. TypeOK'
  BY <1>a, <1>e, <1>f, <1>g DEF TypeOK, AppendChild, frame, Goto, Steps
<1>2. CountsExact'
  BY <1>1, <1>s
<1>3. MembersTyped'
  BY <1>1, <1>s
<1>4. FramesTyped'
  BY DEF FramesTyped, TypeOK, AppendChild, Share, frame, At, Goto, Locked, Calls
<1>5. LocksHeld'
  BY DEF LocksHeld, TypeOK, AppendChild, Share, frame, At, Goto, Locked
<1>6. ListsOwned'
  BY <1>a, <1>b DEF ListsOwned, TypeOK, AppendChild, Share, frame, At, Goto
<1>7. MembersHeld'
  BY <1>1, <1>s
<1>8. BorrowRetained'
  BY <1>1, <1>s
<1> QED BY <1>1, <1>2, <1>3, <1>4, <1>5, <1>6, <1>7, <1>8

LEMMA WrapRootStep ==
  ASSUME Inv, NEW th \in Thread, NEW o \in Owner, NEW n \in Node, WrapRoot(th, o, n)
  PROVE  Inv'
<1> USE DEF Inv
<1>a. o \in Cell /\ n \in Cell /\ n \in Borrower /\ o # n /\ n \notin Owner /\ o \notin Borrower
      /\ n \notin Lockable /\ n \notin QueryCursor
  BY DistinctKinds DEF Cell, Object, Borrower, Lockable
<1>b. refs[o] = 0 /\ refs[n] = 0 /\ n \notin objects /\ tree[o] = Null /\ tree[n] = Null
  BY <1>a, Held DEF WrapRoot, Fresh, MembersHeld
<1>c. self[th] \in Tree /\ old[th] = self[th]
  BY DEF FramesTyped, WrapRoot, At
<1>d. \A x \in Cell : refs'[x] = IF x = o \/ x = n THEN 1 ELSE refs[x]
  BY <1>a DEF WrapRoot, TypeOK
<1>e. \A b \in Borrower \cup Owner :
         tree'[b] = IF b = n THEN o ELSE IF b = o THEN old[th] ELSE tree[b]
  BY <1>a DEF WrapRoot, TypeOK
<1>f. \A b \in Borrower : native'[b] = IF b = n THEN self[th] ELSE native[b]
  BY <1>a DEF WrapRoot, TypeOK
<1>1. TypeOK'
  BY <1>a, <1>c DEF TypeOK, WrapRoot, Goto, Steps, Calls, Locked, Cell, Object
<1>2. CountsExact'
  <2> SUFFICES ASSUME NEW d \in Cell PROVE refs'[d] = Referrers(d)'
    BY DEF CountsExact
  <2>1. Counts(d)
    BY CountsAreNat
  <2> DEFINE tree1 == [tree EXCEPT ![o] = old[th]]
  <2>2. Pointing(tree1, d) = Pointing(tree, d) - One(tree[o], d) + One(old[th], d)
    <3>1. DOMAIN tree = Borrower \cup Owner /\ DOMAIN tree1 = Borrower \cup Owner
          /\ o \in Borrower \cup Owner /\ tree1[o] = old[th]
          /\ \A x \in Borrower \cup Owner : x # o => tree1[x] = tree[x]
      BY DEF TypeOK
    <3> HIDE DEF tree1
    <3> QED BY <3>1, FiniteDomains, PointerSet
  <2>3. Pointing(tree', d) = Pointing(tree1, d) - One(tree[n], d) + One(o, d)
    <3>1. DOMAIN tree1 = Borrower \cup Owner /\ DOMAIN tree' = Borrower \cup Owner
          /\ n \in Borrower \cup Owner /\ tree1[n] = tree[n] /\ tree'[n] = o
          /\ \A x \in Borrower \cup Owner : x # n => tree'[x] = tree1[x]
      BY <1>1, <1>a, <1>e DEF TypeOK
    <3> HIDE DEF tree1
    <3> QED BY <3>1, FiniteDomains, PointerSet
  <2>4. Pointing(old', d) = Pointing(old, d) - One(old[th], d) + One(Null, d)
    BY <1>1, SetOld DEF TypeOK, WrapRoot
  <2>5. One(Null, d) = 0
    BY NullIsNothing DEF One
  <2>6. refs'[d] = refs[d] + One(o, d) + One(n, d)
    BY <1>a, <1>b, <1>d, <2>1 DEF One, Counts
  <2>7. UNCHANGED <<query, self, arg, oldQuery>> /\ (d \in objects' <=> d \in objects \/ d = n)
    BY DEF WrapRoot
  <2> HIDE DEF tree1
  <2>8. Pointing(tree1, d) \in Int
    BY <2>1, <2>2 DEF One, Counts
  <2> QED BY <1>b, <2>1, <2>2, <2>3, <2>4, <2>5, <2>6, <2>7, <2>8 DEF Counts, Referrers, One
<1>3. MembersTyped'
  BY <1>a, <1>c, <1>e DEF MembersTyped
<1>4. FramesTyped'
  BY <1>a, <1>b, <1>c DEF FramesTyped, TypeOK, WrapRoot, At, Goto, Locked, Calls
<1>5. LocksHeld'
  BY DEF LocksHeld, TypeOK, WrapRoot, At, Goto, Locked
<1>6. ListsOwned'
  BY <1>b DEF ListsOwned, TypeOK, WrapRoot, At, Goto
<1>7. MembersHeld'
  <2>1. \A c \in Borrower \cup Owner : c \in Cell
    BY DEF Cell, Object
  <2>2. o # Null /\ old[th] # Null
    BY <1>a, <1>c, NullIsNothing DEF Cell, Object
  <2>3. UNCHANGED query /\ \A qc \in QueryCursor : qc \in Borrower /\ qc # n /\ qc # o
    BY <1>a DEF WrapRoot, Borrower
  <2> QED BY <1>a, <1>d, <1>e, <2>1, <2>2, <2>3 DEF MembersHeld
<1>8. BorrowRetained'
  <2> SUFFICES ASSUME NEW b \in Borrower
               PROVE IF Moving(b)' THEN native'[b] = native'[arg'[mutex'[b]]]
                     ELSE IF tree'[b] = Null THEN native'[b] = Null
                     ELSE native'[b] = tree'[tree'[b]]
    BY DEF BorrowRetained, Moving
  <2>1. UNCHANGED <<arg, mutex>> /\ (Moving(b)' <=> Moving(b))
    BY DEF WrapRoot, Moving, Goto, TypeOK, At
  <2>2. CASE b = n
    BY <1>a, <1>c, <1>e, <1>f, <2>1, <2>2, NullIsNothing DEF Moving, Cell
  <2>3. CASE b # n
    <3>1. tree[b] \in Owner \cup {Null} /\ tree[b] # o
      BY <1>a, <1>b, Held DEF MembersTyped
    <3>2. Moving(b) => arg[mutex[b]] \in Node /\ arg[mutex[b]] # n
      <4>1. Moving(b) => mutex[b] \in Thread /\ pc[mutex[b]] = "adopt"
        BY DEF Moving, TypeOK
      <4> QED BY <1>a, <1>b, <4>1, Held DEF FramesTyped, At, Locked
    <3> QED BY <1>a, <1>e, <1>f, <2>1, <2>3, <3>1, <3>2 DEF BorrowRetained, Borrower
  <2> QED BY <2>2, <2>3
<1> QED BY <1>1, <1>2, <1>3, <1>4, <1>5, <1>6, <1>7, <1>8

LEMMA DerefStep ==
  ASSUME Inv, NEW th \in Thread, Deref(th)
  PROVE  Inv'
<1> USE DEF Inv
<1>a. old[th] \in Cell /\ refs[old[th]] \in Nat /\ refs[old[th]] > 1
  <2>1. old[th] \in Cell /\ refs[old[th]] \in Nat /\ refs[old[th]] # 1
    BY DEF Deref, Gives, TypeOK
  <2>2. refs[old[th]] # 0
    BY <2>1, Held
  <2> QED BY <2>1, <2>2
<1>b. \A x \in Cell : (refs'[x] = 0 <=> refs[x] = 0) /\ (refs'[x] > 0 <=> refs[x] > 0)
  BY <1>a DEF TypeOK, Deref
<1>1. TypeOK'
  BY <1>a DEF TypeOK, Deref, Gives, Goto, Steps, Calls, Locked
<1>2. CountsExact'
  <2> SUFFICES ASSUME NEW d \in Cell PROVE refs'[d] = Referrers(d)'
    BY DEF CountsExact
  <2>1. Counts(d)
    BY CountsAreNat
  <2>2. Pointing(old', d) = Pointing(old, d) - One(old[th], d) + One(Null, d)
    BY <1>1, SetOld DEF TypeOK, Deref
  <2>3. One(Null, d) = 0
    BY NullIsNothing DEF One
  <2>4. refs'[d] = refs[d] - One(old[th], d)
    BY <1>a, <2>1 DEF TypeOK, Deref, One, Counts
  <2> QED BY <2>1, <2>2, <2>3, <2>4 DEF Counts, Referrers, One, Deref
<1>3. MembersTyped'
  BY <1>a DEF MembersTyped, Deref, Gives
<1>4. FramesTyped'
  BY <1>a DEF FramesTyped, TypeOK, Deref, Gives, At, Goto, Locked, Calls
<1>5. LocksHeld'
  BY <1>a DEF LocksHeld, TypeOK, Deref, Gives, At, Goto, Locked
<1>6. ListsOwned'
  BY <1>a DEF ListsOwned, TypeOK, Deref, Gives, At, Goto
<1>7. MembersHeld'
  BY <1>b DEF MembersHeld, TypeOK, Deref, Gives, Cell, Object, Borrower
<1>8. BorrowRetained'
  BY <1>a DEF BorrowRetained, Moving, TypeOK, Deref, Gives, At, Goto
<1> QED BY <1>1, <1>2, <1>3, <1>4, <1>5, <1>6, <1>7, <1>8

LEMMA DestroyNativeStep ==
  ASSUME Inv, NEW th \in Thread, DestroyNative(th)
  PROVE  Inv'
<1> USE DEF Inv
<1>a. old[th] \in Cell /\ refs[old[th]] = 1 /\ old[th] \notin Borrower \cup Owner
  BY DistinctKinds DEF DestroyNative, Gives, TypeOK, Cell, Object
<1>1. TypeOK'
  BY <1>a DEF TypeOK, DestroyNative, Gives, Goto, Steps, Calls, Locked
<1>2. CountsExact'
  <2> SUFFICES ASSUME NEW d \in Cell PROVE refs'[d] = Referrers(d)'
    BY DEF CountsExact
  <2>1. Counts(d)
    BY CountsAreNat
  <2>2. Pointing(old', d) = Pointing(old, d) - One(old[th], d) + One(Null, d)
    BY <1>1, SetOld DEF TypeOK, DestroyNative
  <2>3. One(Null, d) = 0
    BY NullIsNothing DEF One
  <2>4. refs'[d] = refs[d] - One(old[th], d)
    BY <1>a, <2>1 DEF TypeOK, DestroyNative, One, Counts
  <2> QED BY <2>1, <2>2, <2>3, <2>4 DEF Counts, Referrers, One, DestroyNative
<1>3. MembersTyped'
  BY <1>a DEF MembersTyped, DestroyNative, Gives
<1>4. FramesTyped'
  BY <1>a DEF FramesTyped, TypeOK, DestroyNative, Gives, At, Goto, Locked, Calls
<1>5. LocksHeld'
  BY <1>a DEF LocksHeld, TypeOK, DestroyNative, Gives, At, Goto, Locked
<1>6. ListsOwned'
  BY <1>a DEF ListsOwned, TypeOK, DestroyNative, Gives, At, Goto
<1>7. MembersHeld'
  BY <1>a DEF MembersHeld, TypeOK, DestroyNative, Gives, Borrower
<1>8. BorrowRetained'
  BY <1>a DEF BorrowRetained, Moving, TypeOK, DestroyNative, Gives, At, Goto
<1> QED BY <1>1, <1>2, <1>3, <1>4, <1>5, <1>6, <1>7, <1>8

LEMMA DerefQueryStep ==
  ASSUME Inv, NEW th \in Thread, DerefQuery(th)
  PROVE  Inv'
<1> USE DEF Inv
<1>a. oldQuery[th] \in Query /\ oldQuery[th] \in Cell /\ oldQuery[th] \notin Borrower \cup Owner
  BY DistinctKinds DEF DerefQuery, TypeOK, Cell, Object
<1>b. refs[oldQuery[th]] \in Nat \ {0}
  BY <1>a, Held DEF TypeOK
<1>1. TypeOK'
  BY <1>a, <1>b DEF TypeOK, DerefQuery, Goto, Steps, Calls, Locked
<1>2. CountsExact'
  <2> SUFFICES ASSUME NEW d \in Cell PROVE refs'[d] = Referrers(d)'
    BY DEF CountsExact
  <2>1. Counts(d)
    BY CountsAreNat
  <2>2. Pointing(oldQuery', d) = Pointing(oldQuery, d) - One(oldQuery[th], d) + One(Null, d)
    BY <1>1, SetOldQuery DEF TypeOK, DerefQuery
  <2>3. One(Null, d) = 0
    BY NullIsNothing DEF One
  <2>4. refs'[d] = refs[d] - One(oldQuery[th], d)
    BY <1>a, <1>b, <2>1 DEF TypeOK, DerefQuery, One, Counts
  <2> QED BY <2>1, <2>2, <2>3, <2>4 DEF Counts, Referrers, One, DerefQuery
<1>3. MembersTyped'
  BY <1>a, <1>b DEF MembersTyped, DerefQuery
<1>4. FramesTyped'
  BY <1>a, <1>b DEF FramesTyped, TypeOK, DerefQuery, At, Goto, Locked, Calls
<1>5. LocksHeld'
  BY <1>a, <1>b DEF LocksHeld, TypeOK, DerefQuery, At, Goto, Locked
<1>6. ListsOwned'
  BY <1>a, <1>b DEF ListsOwned, TypeOK, DerefQuery, At, Goto
<1>7. MembersHeld'
  BY <1>a, <1>b DEF MembersHeld, TypeOK, DerefQuery, Borrower
<1>8. BorrowRetained'
  BY <1>a, <1>b DEF BorrowRetained, Moving, TypeOK, DerefQuery, At, Goto
<1> QED BY <1>1, <1>2, <1>3, <1>4, <1>5, <1>6, <1>7, <1>8

LEMMA DestroyOwnerStep ==
  ASSUME Inv, NEW th \in Thread, DestroyOwner(th)
  PROVE  Inv'
<1> USE DEF Inv
<1>a. old[th] \in Owner /\ old[th] \in Cell /\ refs[old[th]] = 1 /\ old[th] \notin Borrower
  BY DistinctKinds DEF DestroyOwner, Gives, Cell
<1>b. tree[old[th]] \in Tree /\ tree[old[th]] \in Cell
  BY <1>a, DistinctKinds, NullIsNothing
  DEF MembersTyped, MembersHeld, Cell, Object, Borrower
<1>c. \A b \in Borrower \cup Owner : tree[b] # old[th]
  BY <1>a, LastOne
<1>d. \A x \in Cell : refs'[x] = IF x = old[th] THEN 0 ELSE refs[x]
  BY <1>a DEF DestroyOwner, TypeOK
<1>e. \A b \in Borrower \cup Owner : tree'[b] = IF b = old[th] THEN Null ELSE tree[b]
  BY <1>a DEF DestroyOwner, TypeOK
<1>1. TypeOK'
  BY <1>a, <1>b DEF TypeOK, DestroyOwner, Gives, Goto, Steps, Calls, Locked
<1>2. CountsExact'
  <2> SUFFICES ASSUME NEW d \in Cell PROVE refs'[d] = Referrers(d)'
    BY DEF CountsExact
  <2>1. Counts(d)
    BY CountsAreNat
  <2>2. Pointing(old', d) = Pointing(old, d) - One(old[th], d) + One(tree[old[th]], d)
    BY <1>1, SetOld DEF TypeOK, DestroyOwner
  <2>3. Pointing(tree', d) = Pointing(tree, d) - One(tree[old[th]], d) + One(Null, d)
    BY <1>1, <1>a, <1>e, SetTree DEF TypeOK
  <2>4. One(Null, d) = 0
    BY NullIsNothing DEF One
  <2>5. refs'[d] = refs[d] - One(old[th], d)
    BY <1>a, <1>d, <2>1 DEF One, Counts
  <2> QED BY <2>1, <2>2, <2>3, <2>4, <2>5 DEF Counts, Referrers, One, DestroyOwner
<1>3. MembersTyped'
  BY <1>e DEF MembersTyped
<1>4. FramesTyped'
  BY <1>a, <1>b DEF FramesTyped, TypeOK, DestroyOwner, Gives, At, Goto, Locked, Calls
<1>5. LocksHeld'
  BY <1>a, <1>b DEF LocksHeld, TypeOK, DestroyOwner, Gives, At, Goto, Locked
<1>6. ListsOwned'
  BY <1>a, <1>b DEF ListsOwned, TypeOK, DestroyOwner, Gives, At, Goto
<1>7. MembersHeld'
  <2>1. \A c \in Borrower \cup Owner : c \in Cell
    BY DEF Cell, Object
  <2>2. UNCHANGED query /\ \A qc \in QueryCursor : qc \in Borrower /\ qc # old[th]
    BY <1>a DEF DestroyOwner, Borrower
  <2> QED BY <1>d, <1>e, <2>1, <2>2 DEF MembersHeld
<1>8. BorrowRetained'
  <2>1. UNCHANGED <<arg, mutex, native, pc>>
    BY DEF DestroyOwner
  <2>2. \A b \in Borrower : tree'[b] = tree[b] /\ tree[b] # old[th]
                             /\ tree[b] \in Owner \cup {Null}
    BY <1>a, <1>c, <1>e DEF MembersTyped
  <2> QED BY <1>e, <2>1, <2>2 DEF BorrowRetained, Moving
<1> QED BY <1>1, <1>2, <1>3, <1>4, <1>5, <1>6, <1>7, <1>8

LEMMA DestroyWrapperStep ==
  ASSUME Inv, NEW th \in Thread, DestroyWrapper(th)
  PROVE  Inv'
<1> USE DEF Inv
<1>a. old[th] \in Node \cup Cursor /\ old[th] \in Borrower /\ old[th] \in Cell
      /\ refs[old[th]] = 1 /\ old[th] \notin Owner /\ old[th] \notin Tree
  BY DistinctKinds DEF DestroyWrapper, Gives, Cell, Object, Borrower
<1>b. tree[old[th]] \in Owner \cup {Null} /\ old[th] \notin objects
  BY <1>a, LastOne DEF MembersTyped
<1>c. \A u \in Thread : self[u] # old[th] /\ arg[u] # old[th]
  BY <1>a, LastOne
<1>d. \A x \in Cell : refs'[x] = IF x = old[th] THEN 0 ELSE refs[x]
  BY <1>a DEF DestroyWrapper, TypeOK
<1>e. \A b \in Borrower \cup Owner : tree'[b] = IF b = old[th] THEN Null ELSE tree[b]
  BY <1>a DEF DestroyWrapper, TypeOK
<1>f. \A b \in Borrower : native'[b] = IF b = old[th] THEN Null ELSE native[b]
  BY <1>a DEF DestroyWrapper, TypeOK
<1>1. TypeOK'
  BY <1>a, <1>b DEF TypeOK, DestroyWrapper, Gives, Goto, Steps, Calls, Locked, Cell
<1>2. CountsExact'
  <2> SUFFICES ASSUME NEW d \in Cell PROVE refs'[d] = Referrers(d)'
    BY DEF CountsExact
  <2>1. Counts(d)
    BY CountsAreNat
  <2>2. Pointing(old', d) = Pointing(old, d) - One(old[th], d) + One(tree[old[th]], d)
    BY <1>1, SetOld DEF TypeOK, DestroyWrapper
  <2>3. Pointing(tree', d) = Pointing(tree, d) - One(tree[old[th]], d) + One(Null, d)
    BY <1>1, <1>a, <1>e, SetTree DEF TypeOK
  <2>4. One(Null, d) = 0
    BY NullIsNothing DEF One
  <2>5. refs'[d] = refs[d] - One(old[th], d)
    BY <1>a, <1>d, <2>1 DEF One, Counts
  <2> QED BY <2>1, <2>2, <2>3, <2>4, <2>5 DEF Counts, Referrers, One, DestroyWrapper
<1>3. MembersTyped'
  BY <1>e DEF MembersTyped
<1>4. FramesTyped'
  BY <1>a, <1>b DEF FramesTyped, TypeOK, DestroyWrapper, Gives, At, Goto, Locked, Calls
<1>5. LocksHeld'
  BY <1>a, <1>b DEF LocksHeld, TypeOK, DestroyWrapper, Gives, At, Goto, Locked
<1>6. ListsOwned'
  BY <1>a, <1>b DEF ListsOwned, TypeOK, DestroyWrapper, Gives, At, Goto
<1>7. MembersHeld'
  <2>1. \A c \in Borrower \cup Owner : c \in Cell
    BY DEF Cell, Object
  <2>2. \A qc \in QueryCursor : qc \in Borrower /\ query'[qc] = query[qc] /\ qc # old[th]
    BY <1>a, DistinctKinds DEF DestroyWrapper, Borrower, Lockable
  <2> QED BY <1>d, <1>e, <2>1, <2>2 DEF MembersHeld
<1>8. BorrowRetained'
  <2>1. UNCHANGED <<arg, mutex, pc>>
    BY DEF DestroyWrapper
  <2>2. ~Moving(old[th])
    <3> SUFFICES ASSUME old[th] \in Lockable, mutex[old[th]] \in Thread,
                        pc[mutex[old[th]]] = "adopt"
                 PROVE FALSE
      BY DEF Moving, TypeOK
    <3> QED BY <1>c DEF LocksHeld
  <2>3. \A b \in Borrower : tree[b] \in Owner \cup {Null}
    BY DEF MembersTyped
  <2>4. \A b \in Borrower : Moving(b) => arg[mutex[b]] \in Borrower /\ arg[mutex[b]] # old[th]
    <3> SUFFICES ASSUME NEW b \in Borrower, Moving(b), mutex[b] \in Thread,
                        pc[mutex[b]] = "adopt"
                 PROVE  arg[mutex[b]] \in Borrower /\ arg[mutex[b]] # old[th]
      BY DEF Moving, TypeOK
    <3> QED BY <1>c DEF FramesTyped, At, Locked, Borrower
  <2> QED BY <1>a, <1>e, <1>f, <2>1, <2>2, <2>3, <2>4 DEF BorrowRetained, Moving
<1> QED BY <1>1, <1>2, <1>3, <1>4, <1>5, <1>6, <1>7, <1>8

LEMMA DestroyQueryCursorStep ==
  ASSUME Inv, NEW th \in Thread, DestroyQueryCursor(th)
  PROVE  Inv'
<1> USE DEF Inv
<1>a. old[th] \in QueryCursor /\ old[th] \in Borrower /\ old[th] \in Cell
      /\ refs[old[th]] = 1 /\ old[th] \notin Owner /\ old[th] \notin Tree
  BY DistinctKinds DEF DestroyQueryCursor, Gives, Cell, Object, Borrower
<1>b. tree[old[th]] \in Owner \cup {Null} /\ old[th] \notin objects
  BY <1>a, LastOne DEF MembersTyped
<1>c. \A u \in Thread : self[u] # old[th] /\ arg[u] # old[th]
  BY <1>a, LastOne
<1>d. \A x \in Cell : refs'[x] = IF x = old[th] THEN 0 ELSE refs[x]
  BY <1>a DEF DestroyQueryCursor, TypeOK
<1>e. \A b \in Borrower \cup Owner : tree'[b] = IF b = old[th] THEN Null ELSE tree[b]
  BY <1>a DEF DestroyQueryCursor, TypeOK
<1>f. \A b \in Borrower : native'[b] = IF b = old[th] THEN Null ELSE native[b]
  BY <1>a DEF DestroyQueryCursor, TypeOK
<1>g. At(th, {"return"}) /\ old[th] # Null
  BY <1>a, DistinctKinds, NullIsNothing
  DEF FramesTyped, DestroyQueryCursor, Gives, At, Borrower, Cell, Object, Lockable
<1>1. TypeOK'
  BY <1>a, <1>b DEF TypeOK, DestroyQueryCursor, Gives, Goto, Steps, Calls, Locked, Cell
<1>2. CountsExact'
  <2> SUFFICES ASSUME NEW d \in Cell PROVE refs'[d] = Referrers(d)'
    BY DEF CountsExact
  <2>1. Counts(d)
    BY CountsAreNat
  <2>2. Pointing(old', d) = Pointing(old, d) - One(old[th], d) + One(tree[old[th]], d)
    BY <1>1, SetOld DEF TypeOK, DestroyQueryCursor
  <2>3. Pointing(tree', d) = Pointing(tree, d) - One(tree[old[th]], d) + One(Null, d)
    BY <1>1, <1>a, <1>e, SetTree DEF TypeOK
  <2>4. One(Null, d) = 0
    BY NullIsNothing DEF One
  <2>5. refs'[d] = refs[d] - One(old[th], d)
    BY <1>a, <1>d, <2>1 DEF One, Counts
  <2>6. Pointing(query', d) = Pointing(query, d) - One(query[old[th]], d) + One(Null, d)
    BY <1>1, <1>a, SetQuery DEF TypeOK, DestroyQueryCursor
  <2>7. Pointing(oldQuery', d) = Pointing(oldQuery, d) - One(Null, d) + One(query[old[th]], d)
    BY <1>1, SetOldQuery DEF TypeOK, DestroyQueryCursor, Gives
  <2> QED BY <2>1, <2>2, <2>3, <2>4, <2>5, <2>6, <2>7 DEF Counts, Referrers, One, DestroyQueryCursor
<1>3. MembersTyped'
  BY <1>e DEF MembersTyped
<1>4. FramesTyped'
  BY <1>a, <1>b, <1>g DEF FramesTyped, TypeOK, DestroyQueryCursor, Gives, At, Goto, Locked, Calls
<1>5. LocksHeld'
  BY <1>a, <1>b DEF LocksHeld, TypeOK, DestroyQueryCursor, Gives, At, Goto, Locked
<1>6. ListsOwned'
  BY <1>a, <1>b DEF ListsOwned, TypeOK, DestroyQueryCursor, Gives, At, Goto
<1>7. MembersHeld'
  <2>1. \A c \in Borrower \cup Owner : c \in Cell
    BY DEF Cell, Object
  <2>2. \A qc \in QueryCursor :
           qc \in Borrower /\ query'[qc] = IF qc = old[th] THEN Null ELSE query[qc]
    BY <1>a DEF DestroyQueryCursor, Borrower, TypeOK
  <2> QED BY <1>d, <1>e, <2>1, <2>2 DEF MembersHeld
<1>8. BorrowRetained'
  <2>1. UNCHANGED <<arg, mutex, pc>>
    BY DEF DestroyQueryCursor
  <2>2. ~Moving(old[th])
    <3> SUFFICES ASSUME old[th] \in Lockable, mutex[old[th]] \in Thread,
                        pc[mutex[old[th]]] = "adopt"
                 PROVE FALSE
      BY DEF Moving, TypeOK
    <3> QED BY <1>c DEF LocksHeld
  <2>3. \A b \in Borrower : tree[b] \in Owner \cup {Null}
    BY DEF MembersTyped
  <2>4. \A b \in Borrower : Moving(b) => arg[mutex[b]] \in Borrower /\ arg[mutex[b]] # old[th]
    <3> SUFFICES ASSUME NEW b \in Borrower, Moving(b), mutex[b] \in Thread,
                        pc[mutex[b]] = "adopt"
                 PROVE  arg[mutex[b]] \in Borrower /\ arg[mutex[b]] # old[th]
      BY DEF Moving, TypeOK
    <3> QED BY <1>c DEF FramesTyped, At, Locked, Borrower
  <2> QED BY <1>a, <1>e, <1>f, <2>1, <2>2, <2>3, <2>4 DEF BorrowRetained, Moving
<1> QED BY <1>1, <1>2, <1>3, <1>4, <1>5, <1>6, <1>7, <1>8

-----------------------------------------------------------------------------
(* The inductive invariant *)

LEMMA InitInv == Init => Inv
<1> SUFFICES ASSUME Init PROVE Inv
  OBVIOUS
<1>1. TypeOK
  BY DEF Init, TypeOK, Steps
<1>2. CountsExact
  <2> SUFFICES ASSUME NEW c \in Cell PROVE refs[c] = Referrers(c)
    BY DEF CountsExact
  <2>1. refs[c] = 0 /\ c \notin objects /\ c # Null
    BY NullIsNothing DEF Init
  <2>2. {x \in DOMAIN tree : tree[x] = c} = {} /\ {x \in DOMAIN query : query[x] = c} = {}
        /\ {x \in DOMAIN self : self[x] = c} = {} /\ {x \in DOMAIN arg : arg[x] = c} = {}
        /\ {x \in DOMAIN old : old[x] = c} = {}
        /\ {x \in DOMAIN oldQuery : oldQuery[x] = c} = {}
    BY <2>1 DEF Init
  <2>3. Pointing(tree, c) = 0 /\ Pointing(query, c) = 0 /\ Pointing(self, c) = 0
        /\ Pointing(arg, c) = 0 /\ Pointing(old, c) = 0 /\ Pointing(oldQuery, c) = 0
    BY <2>2, FS_EmptySet DEF Pointing
  <2> QED BY <2>1, <2>3 DEF Referrers
<1>3. MembersTyped /\ FramesTyped
  BY DEF Init, MembersTyped, FramesTyped, At, Calls, Locked
<1>4. LocksHeld /\ ListsOwned
  BY NullIsNothing DEF Init, LocksHeld, ListsOwned, At, Locked
<1>5. MembersHeld
  BY DEF Init, MembersHeld, Borrower, Cell, Object
<1>6. BorrowRetained
  BY DEF Init, BorrowRetained, Moving
<1> QED BY <1>1, <1>2, <1>3, <1>4, <1>5, <1>6 DEF Inv

LEMMA NextInv == Inv /\ [Next]_vars => Inv'
<1> SUFFICES ASSUME Inv, [Next]_vars PROVE Inv'
  OBVIOUS
<1>1. CASE UNCHANGED vars
  <2>1. UNCHANGED <<heap, frame, mutex, building, pc>>
    BY <1>1 DEF vars
  <2>2. UNCHANGED <<refs, objects, tree, query, native>> /\ UNCHANGED <<self, arg, old, oldQuery>>
        /\ UNCHANGED <<mutex, building, pc>>
    BY <2>1 DEF heap, frame
  <2>3. TypeOK' /\ CountsExact'
    BY <2>2 DEF Inv, TypeOK, CountsExact, Referrers, Pointing
  <2>4. MembersTyped' /\ FramesTyped' /\ LocksHeld'
    BY <2>2 DEF Inv, MembersTyped, FramesTyped, At, LocksHeld
  <2>5. ListsOwned' /\ MembersHeld' /\ BorrowRetained'
    BY <2>2 DEF Inv, ListsOwned, At, MembersHeld, BorrowRetained, Moving
  <2> QED BY <2>3, <2>4, <2>5 DEF Inv
<1>2. ASSUME NEW th \in Thread, Step(th) PROVE Inv'
  <2>1. ASSUME NEW c \in Object, Enter(th, c) \/ Delete(th, c) PROVE Inv'
    BY <2>1, EnterStep, DeleteStep
  <2>2. ASSUME NEW c \in Lockable, NEW n \in Node, EnterWithNode(th, c, n) PROVE Inv'
    BY <2>2, EnterWithNodeStep
  <2>3. ASSUME DropArg(th) \/ DropSelf(th) \/ Leave(th) PROVE Inv'
    BY <2>3, DropArgStep, DropSelfStep, LeaveStep
  <2>4. ASSUME NEW t \in Tree, Parse(th, t) \/ CopyTree(th, t) PROVE Inv'
    BY <2>4, ParseStep, CopyTreeStep
  <2>5. ASSUME NEW q \in Query, NewQuery(th, q) PROVE Inv'
    BY <2>5, NewQueryStep
  <2>6. ASSUME NEW qc \in QueryCursor, NewQueryCursor(th, qc) PROVE Inv'
    BY <2>6, NewQueryCursorStep
  <2>7. ASSUME RefTree(th) PROVE Inv'
    BY <2>7, RefTreeStep
  <2>8. ASSUME NEW o \in Owner, NEW n \in Node, WrapRoot(th, o, n) PROVE Inv'
    BY <2>8, WrapRootStep
  <2>9. ASSUME NEW n \in Node, NewNode(th, n) \/ GetCurrentNode(th, n) PROVE Inv'
    BY <2>9, NewNodeStep, GetCurrentNodeStep
  <2>10. ASSUME NEW n \in Node, AppendChild(th, n) \/ ReleaseChild(th, n) PROVE Inv'
    BY <2>10, AppendChildStep, ReleaseChildStep
  <2>11. ASSUME NEW c \in Cursor, NewCursor(th, c) \/ CopyCursor(th, c) PROVE Inv'
    BY <2>11, NewCursorStep, CopyCursorStep
  <2>12. ASSUME NoResult(th) \/ ReturnChildren(th) \/ CancelChildren(th) \/ Unwound(th)
         PROVE  Inv'
    BY <2>12, NoResultStep, ReturnChildrenStep, CancelChildrenStep, UnwoundStep
  <2>13. ASSUME Lock(th) \/ Bind(th) \/ Adopt(th) \/ Unlock(th) PROVE Inv'
    BY <2>13, LockStep, BindStep, AdoptStep, UnlockStep
  <2>14. ASSUME Deref(th) \/ DestroyNative(th) \/ DestroyOwner(th) \/ DestroyWrapper(th)
                \/ DestroyQueryCursor(th) \/ DerefQuery(th)
         PROVE  Inv'
    BY <2>14, DerefStep, DestroyNativeStep, DestroyOwnerStep, DestroyWrapperStep,
       DestroyQueryCursorStep, DerefQueryStep
  <2> QED BY <1>2, <2>1, <2>2, <2>3, <2>4, <2>5, <2>6, <2>7, <2>8, <2>9, <2>10, <2>11,
             <2>12, <2>13, <2>14 DEF Step
<1> QED BY <1>1, <1>2 DEF Next

\* Every part of Inv holds in every reachable state.
THEOREM Invariant == Spec => []Inv
BY InitInv, NextInv, PTL DEF Spec

-----------------------------------------------------------------------------
(* What follows *)

\* Every member and frame of the module keeps its type whatever the script
\* does with the objects.
THEOREM TypeCorrect == Spec => []TypeOK
<1>1. Inv => TypeOK
  BY DEF Inv
<1> QED BY Invariant, <1>1, PTL

\* Every reference count equals the number of counted pointers: ref() and
\* deref(), and copies and releases of the shared_ptr, are balanced.
THEOREM CountsAreExact == Spec => []CountsExact
<1>1. Inv => CountsExact
  BY DEF Inv
<1> QED BY Invariant, <1>1, PTL

LEMMA LiveBorrows == Inv => NoDanglingBorrow
<1> SUFFICES ASSUME Inv, NEW b \in Borrower, native[b] # Null PROVE refs[native[b]] > 0
  BY DEF NoDanglingBorrow
<1> USE DEF Inv
<1>1. \A x \in Borrower : native[x] # Null /\ ~Moving(x) =>
         tree[x] \in Owner /\ tree[tree[x]] = native[x]
  BY DEF BorrowRetained, MembersTyped
<1>2. native[b] \in Tree /\ native[b] \in Cell /\ refs[native[b]] \in Nat
  BY DEF TypeOK, Cell, Object
<1>3. \E o \in Owner : tree[o] = native[b]
  <2>1. CASE ~Moving(b)
    BY <1>1, <2>1
  <2>2. CASE Moving(b)
    <3>1. mutex[b] \in Thread /\ pc[mutex[b]] = "adopt"
      BY <2>2 DEF Moving, TypeOK
    <3>2. arg[mutex[b]] \in Node
      BY <3>1 DEF FramesTyped, At, Locked
    <3>3. ~Moving(arg[mutex[b]]) /\ arg[mutex[b]] \in Borrower
      BY <3>2, DistinctKinds DEF Moving, Borrower
    <3>4. native[b] = native[arg[mutex[b]]]
      BY <2>2 DEF BorrowRetained
    <3> QED BY <1>1, <3>3, <3>4
  <2> QED BY <2>1, <2>2
<1> QED BY <1>2, <1>3, Held

\* No TSTree is deleted while a node or a cursor borrows it.
THEOREM BorrowsAreLive == Spec => []NoDanglingBorrow
BY Invariant, LiveBorrows, PTL

\* The owner of every wrapper retains the tree its native handle points into.
THEOREM OwnersMatch == Spec => []OwnerMatchesBorrow
<1>1. Inv => OwnerMatchesBorrow
  BY DEF Inv, OwnerMatchesBorrow, BorrowRetained, MembersTyped
<1> QED BY Invariant, <1>1, PTL

\* A query is not deleted before the query cursors that run it.
THEOREM QueriesOutlive == Spec => []QueryOutlivesCursor
<1>1. Inv => QueryOutlivesCursor
  <2> SUFFICES ASSUME Inv, NEW qc \in QueryCursor, refs[qc] > 0
               PROVE  query[qc] \in Query /\ refs[query[qc]] > 0
    BY DEF QueryOutlivesCursor
  <2> USE DEF Inv
  <2>1. query[qc] \in Query /\ query[qc] \in Cell
    BY DEF MembersHeld, TypeOK, Cell, Object
  <2> QED BY <2>1, Held DEF TypeOK
<1> QED BY Invariant, <1>1, PTL

\* The mutex of a cursor is not destroyed under the thread that locked it.
THEOREM LocksAreAlive == Spec => []LockedIsAlive
<1>1. Inv => LockedIsAlive
  <2> SUFFICES ASSUME Inv, NEW l \in Lockable, mutex[l] # Null PROVE refs[l] > 0
    BY DEF LockedIsAlive
  <2> USE DEF Inv
  <2>1. self[mutex[l]] = l /\ mutex[l] \in Thread
    BY DEF LocksHeld, TypeOK
  <2>2. l \in Cell
    BY DEF Cell, Object, Borrower, Lockable
  <2> QED BY <2>1, <2>2, Held DEF TypeOK
<1> QED BY Invariant, <1>1, PTL

\* A cell that no object, frame or member points to is not allocated.
LEMMA Unreferenced ==
  ASSUME Inv, NEW c \in Cell, objects = {}, \A th \in Thread : pc[th] = "idle",
         \A b \in Borrower \cup Owner : tree[b] # c, \A qc \in QueryCursor : query[qc] # c
  PROVE  refs[c] = 0
<1> USE DEF Inv
<1>1. \A th \in Thread : self[th] # c /\ arg[th] # c /\ old[th] # c /\ oldQuery[th] # c
  BY NullIsNothing DEF FramesTyped, At, Calls, Locked
<1>2. {x \in DOMAIN tree : tree[x] = c} = {} /\ {x \in DOMAIN query : query[x] = c} = {}
  BY DEF TypeOK
<1>3. {x \in DOMAIN self : self[x] = c} = {} /\ {x \in DOMAIN arg : arg[x] = c} = {}
      /\ {x \in DOMAIN old : old[x] = c} = {} /\ {x \in DOMAIN oldQuery : oldQuery[x] = c} = {}
  BY <1>1 DEF TypeOK
<1>4. Pointing(tree, c) = 0 /\ Pointing(query, c) = 0 /\ Pointing(self, c) = 0
      /\ Pointing(arg, c) = 0 /\ Pointing(old, c) = 0 /\ Pointing(oldQuery, c) = 0
  BY <1>2, <1>3, FS_EmptySet DEF Pointing
<1> QED BY <1>4 DEF CountsExact, Referrers

\* Once no object is left and no call is running, everything has been freed:
\* first the wrappers are unreferenced, then their owners and queries, then
\* the trees.
THEOREM NothingLeaks == Spec => []NoLeak
<1>1. Inv => NoLeak
  <2> SUFFICES ASSUME Inv, objects = {}, \A th \in Thread : pc[th] = "idle"
               PROVE  \A c \in Cell : refs[c] = 0
    BY DEF NoLeak
  <2> USE DEF Inv
  <2>1. \A b \in Borrower \cup Owner : tree[b] \in Owner \cup Tree \cup {Null}
    BY DEF TypeOK
  <2>2. \A qc \in QueryCursor : query[qc] \in Query \cup {Null}
    BY DEF TypeOK
  <2>3. ASSUME NEW b \in Borrower PROVE refs[b] = 0
    BY <2>1, <2>2, Unreferenced, DistinctKinds, NullIsNothing DEF Cell, Object
  <2>4. \A b \in Borrower : tree[b] = Null
    BY <2>3 DEF MembersHeld
  <2>5. \A qc \in QueryCursor : query[qc] = Null
    BY <2>3 DEF MembersHeld, Borrower
  <2>6. ASSUME NEW o \in Owner PROVE refs[o] = 0
    <3>1. \A b \in Borrower \cup Owner : tree[b] # o
      BY <2>4, DistinctKinds, NullIsNothing DEF MembersTyped, Cell
    <3> QED BY <2>5, <3>1, Unreferenced, NullIsNothing DEF Cell
  <2>7. \A b \in Borrower \cup Owner : tree[b] = Null
    BY <2>4, <2>6 DEF MembersHeld
  <2>8. ASSUME NEW c \in Tree \cup Query PROVE refs[c] = 0
    BY <2>5, <2>7, Unreferenced, NullIsNothing DEF Cell, Object
  <2> QED BY <2>3, <2>6, <2>8 DEF Cell, Object
<1> QED BY Invariant, <1>1, PTL

-----------------------------------------------------------------------------
(* Refinement: each step is a step of TreeLifetime or leaves it as it is *)

Alive == {t \in Tree : refs[t] > 0}

\* A step that allocates and frees no tree keeps the live ones; with it a
\* borrower may let go, or attach to what the invariant says is live.
LEMMA Attaching ==
  ASSUME Inv', \A t \in Tree : refs'[t] > 0 <=> refs[t] > 0,
         NEW b \in Borrower, NEW v, native' = [native EXCEPT ![b] = v], Inv
  PROVE  Lifetime!Next
<1>1. Alive' = Alive
  BY DEF Alive
<1>2. v \in Alive \cup {Null}
  <2>1. native'[b] = v /\ native'[b] \in Tree \cup {Null}
    BY DEF Inv, TypeOK
  <2>2. NoDanglingBorrow'
    BY LiveBorrows, PTL
  <2> QED BY <2>1, <2>2, <1>1 DEF NoDanglingBorrow, Alive
<1>3. v \in Tree \cup {Null}
  BY <1>2 DEF Alive
<1>4. Lifetime!Attach(b, v)
  BY <1>1, <1>2 DEF Lifetime!Attach, Alive
<1> QED BY <1>3, <1>4 DEF Lifetime!Next

LEMMA Creating ==
  ASSUME Inv, NEW t \in Tree, NewObject(t)
  PROVE  Lifetime!Next
<1>1. t \notin Alive
  BY DEF NewObject, Fresh, Alive
<1>2. Alive' = Alive \cup {t}
  BY DEF Inv, TypeOK, NewObject, Alive, Cell, Object
<1>3. Lifetime!Create(t)
  BY <1>1, <1>2 DEF Lifetime!Create, Alive, NewObject
<1> QED BY <1>3 DEF Lifetime!Next

\* ~TreeSitterTree runs when no borrower is attached: after it all are live.
LEMMA Reclaiming ==
  ASSUME Inv, Inv', NEW th \in Thread, DestroyNative(th)
  PROVE  Lifetime!Next \/ UNCHANGED <<Alive, native>>
<1>1. UNCHANGED native /\ old[th] \in Cell /\ refs[old[th]] = 1
      /\ refs' = [refs EXCEPT ![old[th]] = 0]
  BY DEF DestroyNative, Gives, Inv, TypeOK
<1>2. ASSUME NEW t \in Tree, t = old[th] PROVE Lifetime!Next
  <2>1. NoDanglingBorrow'
    BY LiveBorrows, PTL
  <2>2. \A b \in Borrower : native[b] # t
    <3>1. t # Null /\ refs'[t] = 0
      BY <1>1, <1>2, NullIsNothing DEF Inv, TypeOK
    <3> QED BY <1>1, <2>1, <3>1 DEF NoDanglingBorrow
  <2>3. t \in Alive /\ Alive' = Alive \ {t}
    BY <1>1, <1>2 DEF Alive, Inv, TypeOK, Cell, Object
  <2>4. Lifetime!Reclaim(t)
    BY <1>1, <2>2, <2>3 DEF Lifetime!Reclaim, Alive
  <2> QED BY <2>4 DEF Lifetime!Next
<1>3. CASE old[th] \notin Tree
  <2>1. \A t \in Tree : refs'[t] = refs[t]
    BY <1>1, <1>3 DEF Inv, TypeOK, Cell, Object
  <2> QED BY <1>1, <2>1 DEF Alive
<1> QED BY <1>2, <1>3

Simulated == Lifetime!Next \/ UNCHANGED <<Alive, native>>

LEMMA LifetimeStep ==
  ASSUME Inv, Inv', NEW th \in Thread, Step(th)
  PROVE  Simulated
<1>1. ASSUME UNCHANGED native, \A t \in Tree : refs'[t] > 0 <=> refs[t] > 0 PROVE Simulated
  BY <1>1 DEF Simulated, Alive
<1>2. ASSUME NEW t \in Tree, NewObject(t) PROVE Simulated
  BY <1>2, Creating DEF Simulated
<1>3. ASSUME NEW from, NEW new \in Node \cup Cursor, Share(from, new),
             tree[from] \in Owner
      PROVE  Simulated
  <2>1. \A t \in Tree : refs'[t] = refs[t]
    BY <1>3, DistinctKinds DEF Share, Inv, TypeOK, Cell, Object, Borrower
  <2>2. new \in Borrower
    BY DEF Borrower
  <2> QED BY <1>3, <2>1, <2>2, Attaching DEF Share, Simulated
<1>4. ASSUME NEW c \in Object, refs' = [refs EXCEPT ![c] = @ + 1], c \in objects, UNCHANGED native
      PROVE  Simulated
  <2>1. refs[c] \in Nat \ {0}
    BY <1>4, Held DEF Inv, TypeOK, Cell
  <2> QED BY <1>1, <1>4, <2>1 DEF Inv, TypeOK, Cell, Object
<1>5. ASSUME NEW c \in Object, Enter(th, c) \/ Delete(th, c) PROVE Simulated
  <2>1. CASE Enter(th, c) BY <1>4, <2>1 DEF Enter, Visible
  <2>2. CASE Delete(th, c) BY <1>1, <2>2 DEF Delete
  <2> QED BY <1>5, <2>1, <2>2
<1>6. ASSUME NEW c \in Lockable, NEW n \in Node, EnterWithNode(th, c, n) PROVE Simulated
  <2>1. c \in Borrower /\ n \in Borrower /\ c \in Cell /\ n \in Cell
    BY DEF Lockable, Borrower, Cell, Object
  <2>2. \A t \in Tree : refs'[t] = refs[t]
    BY <1>6, <2>1, DistinctKinds DEF EnterWithNode, Inv, TypeOK, Cell, Object
  <2> QED BY <1>1, <1>6, <2>2 DEF EnterWithNode
<1>7. ASSUME DropArg(th) \/ DropSelf(th) \/ Leave(th) PROVE Simulated
  BY <1>1, <1>7 DEF DropArg, DropSelf, Leave, heap
<1>8. ASSUME NEW t \in Tree, Parse(th, t) \/ CopyTree(th, t) PROVE Simulated
  BY <1>2, <1>8 DEF Parse, CopyTree
<1>9. ASSUME NEW q \in Query, NewQuery(th, q) PROVE Simulated
  <2>1. \A t \in Tree : refs'[t] = refs[t]
    BY <1>9, DistinctKinds DEF NewQuery, NewObject, Inv, TypeOK, Cell, Object
  <2> QED BY <1>1, <1>9, <2>1 DEF NewQuery, NewObject
<1>10. ASSUME NEW qc \in QueryCursor, NewQueryCursor(th, qc) PROVE Simulated
  <2>1. self[th] \in Query /\ qc \in Borrower
    BY <1>10 DEF NewQueryCursor, Inv, FramesTyped, At, Borrower
  <2>2. \A t \in Tree : refs'[t] = refs[t]
    BY <1>10, <2>1, DistinctKinds DEF NewQueryCursor, Inv, TypeOK, Cell, Object
  <2> QED BY <1>1, <1>10, <2>2 DEF NewQueryCursor
<1>11. ASSUME RefTree(th) PROVE Simulated
  <2>1. self[th] \in Tree /\ refs[self[th]] \in Nat \ {0}
    BY <1>11, Held DEF RefTree, Inv, FramesTyped, At, TypeOK, Cell, Object
  <2>2. \A t \in Tree : refs'[t] > 0 <=> refs[t] > 0
    BY <1>11, <2>1 DEF RefTree, Inv, TypeOK, Cell, Object
  <2> QED BY <1>1, <1>11, <2>2 DEF RefTree
<1>12. ASSUME NEW o \in Owner, NEW n \in Node, WrapRoot(th, o, n) PROVE Simulated
  <2>1. n \in Borrower
    BY DEF Borrower
  <2>2. \A t \in Tree : refs'[t] = refs[t]
    BY <1>12, <2>1, DistinctKinds DEF WrapRoot, Inv, TypeOK, Cell, Object
  <2> QED BY <1>12, <2>1, <2>2, Attaching DEF WrapRoot, Simulated
<1>13. ASSUME self[th] \in Node \cup Cursor PROVE tree[self[th]] \in Owner
  <2>1. refs[self[th]] # 0
    BY <1>13, Held DEF Inv, Cell, Object, Borrower
  <2> QED BY <1>13, <2>1, Retained
<1>14. ASSUME NEW n \in Node, NewNode(th, n) \/ GetCurrentNode(th, n) \/ AppendChild(th, n)
       PROVE  Simulated
  <2>1. self[th] \in Node \cup Cursor /\ Share(self[th], n)
    BY <1>14 DEF NewNode, GetCurrentNode, AppendChild, Inv, FramesTyped, At
  <2> QED BY <1>3, <1>13, <2>1
<1>15. ASSUME NEW c \in Cursor, NewCursor(th, c) \/ CopyCursor(th, c) PROVE Simulated
  <2>1. self[th] \in Node \cup Cursor /\ Share(self[th], c)
    BY <1>15 DEF NewCursor, CopyCursor, Inv, FramesTyped, At
  <2> QED BY <1>3, <1>13, <2>1
<1>16. ASSUME NEW n \in Node, ReleaseChild(th, n) PROVE Simulated
  BY <1>1, <1>16 DEF ReleaseChild
<1>17. ASSUME NoResult(th) \/ ReturnChildren(th) \/ CancelChildren(th) \/ Unwound(th)
              \/ Lock(th) \/ Unlock(th)
       PROVE  Simulated
  BY <1>1, <1>17 DEF NoResult, ReturnChildren, CancelChildren, Unwound, Lock, Unlock, heap
<1>18. ASSUME Bind(th) PROVE Simulated
  <2>1. self[th] \in Borrower
    BY <1>18 DEF Bind, Inv, FramesTyped, At, Locked, Lockable, Borrower
  <2> QED BY <1>18, <2>1, Attaching DEF Bind, Simulated
<1>19. ASSUME Adopt(th) PROVE Simulated
  <2>1. arg[th] \in Node
    BY <1>19 DEF Adopt, Inv, FramesTyped, At, Locked
  <2>2. refs[arg[th]] # 0
    BY <2>1, Held DEF Inv, Cell, Object, Borrower
  <2>3. tree[arg[th]] \in Owner
    BY <2>1, <2>2, Retained
  <2>4. \A t \in Tree : refs'[t] = refs[t]
    BY <1>19, <2>3, DistinctKinds DEF Adopt, Inv, TypeOK, Cell, Object
  <2> QED BY <1>1, <1>19, <2>4 DEF Adopt
<1>20. ASSUME Deref(th) PROVE Simulated
  <2>1. old[th] \in Cell /\ refs[old[th]] \in Nat /\ refs[old[th]] > 1
    <3>1. old[th] \in Cell /\ refs[old[th]] \in Nat /\ refs[old[th]] # 1
      BY <1>20 DEF Deref, Gives, Inv, TypeOK
    <3>2. refs[old[th]] # 0
      BY <3>1, Held DEF Inv
    <3> QED BY <3>1, <3>2
  <2>2. \A t \in Tree : refs'[t] > 0 <=> refs[t] > 0
    BY <1>20, <2>1 DEF Deref, Inv, TypeOK, Cell, Object
  <2> QED BY <1>1, <1>20, <2>2 DEF Deref
<1>21. ASSUME DestroyNative(th) PROVE Simulated
  BY <1>21, Reclaiming DEF Simulated
<1>22. ASSUME DestroyOwner(th) PROVE Simulated
  <2>1. \A t \in Tree : refs'[t] = refs[t]
    BY <1>22, DistinctKinds DEF DestroyOwner, Inv, TypeOK, Cell, Object
  <2> QED BY <1>1, <1>22, <2>1 DEF DestroyOwner
<1>23. ASSUME DestroyWrapper(th) \/ DestroyQueryCursor(th) PROVE Simulated
  <2>1. old[th] \in Borrower /\ refs' = [refs EXCEPT ![old[th]] = 0]
        /\ native' = [native EXCEPT ![old[th]] = Null]
    BY <1>23 DEF DestroyWrapper, DestroyQueryCursor, Borrower
  <2>2. \A t \in Tree : refs'[t] = refs[t]
    BY <2>1, DistinctKinds DEF Inv, TypeOK, Cell, Object
  <2> QED BY <2>1, <2>2, Attaching DEF Simulated
<1>24. ASSUME DerefQuery(th) PROVE Simulated
  <2>1. oldQuery[th] \in Query
    BY <1>24 DEF DerefQuery, Inv, TypeOK
  <2>2. \A t \in Tree : refs'[t] = refs[t]
    BY <1>24, <2>1, DistinctKinds DEF DerefQuery, Inv, TypeOK, Cell, Object
  <2> QED BY <1>1, <1>24, <2>2 DEF DerefQuery
<1> QED BY <1>5, <1>6, <1>7, <1>8, <1>9, <1>10, <1>11, <1>12, <1>14, <1>15, <1>16, <1>17,
           <1>18, <1>19, <1>20, <1>21, <1>22, <1>23, <1>24 DEF Step

\* The module implements TreeLifetime.
THEOREM Refinement == Spec => KeepsTreesAlive
<1>1. Init => Lifetime!Init
  BY DEF Init, Lifetime!Init, Cell, Object
<1>2. Inv /\ Inv' /\ [Next]_vars => [Lifetime!Next]_<<Alive, native>>
  <2>1. ASSUME UNCHANGED vars PROVE UNCHANGED <<Alive, native>>
    BY <2>1 DEF vars, heap, Alive
  <2> QED BY <2>1, LifetimeStep DEF Simulated, Next
<1> QED BY <1>1, <1>2, Invariant, PTL DEF Spec, KeepsTreesAlive, Lifetime!Spec, Alive
=============================================================================
