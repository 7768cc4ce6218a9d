-------------------------- MODULE IncrementalParsing --------------------------
(***************************************************************************)
(* The trees that parsers make, and how scripts use them to parse again:    *)
(* edit() tells a tree what became of its text, parseIncremental() parses   *)
(* the new text with the help of the edited tree.  edit() changes the      *)
(* native tree in place and without a lock; the source text that the tree   *)
(* keeps for getText() stays what was parsed.                              *)
(*                                                                         *)
(* A text is a sequence of letters.  The native tree, which is not part of *)
(* the repository, is abstracted to one leaf for each byte: the letter     *)
(* found there, or Changed.  Parsing takes over the leaves of the old tree  *)
(* that are not changed and reads the text for all others.  Of a tree made *)
(* from one that did not know all edits, or that was edited meanwhile,      *)
(* nothing is known: its leaves are Null.                                  *)
(***************************************************************************)
EXTENDS ParserSession, Sequences

CONSTANTS
    Letter,
    Tree,      \* TreeSitterTree objects
    Edit,      \* edits of scripts: [start, oldEnd, text], offsets from 0
    MaxLength, \* bound on the length of a text
    Changed    \* the leaf of a byte that an edit brought in

VARIABLES
    tree,     \* Tree -> [native, source], the native tree named for the
              \* object it was made for; Null: there is no such object
    leaves,   \* native tree -> its leaves
    document, \* Tree -> its source after the edits that were reported, Null:
              \* its leaves are not known
    old,      \* Thread -> the old tree of its parse
    known     \* Thread -> its text is the document of the old tree, and was
              \* while it parsed

trees == <<tree, leaves, document>>
usage == <<old, known>>
vars  == <<session, trees, usage>>

Text == UNION {[1 .. n -> Letter] : n \in 0 .. MaxLength}
Leaves == UNION {[1 .. n -> Letter \cup {Changed}] : n \in 0 .. MaxLength}

ASSUME Texts ==
    /\ MaxLength \in Nat /\ Source \subseteq Text
    /\ Changed \notin Letter
    /\ \A e \in Edit : e.start \in 0 .. e.oldEnd /\ e.oldEnd \in Nat /\ e.text \in Text

ASSUME NullIsNoTree ==
    Null \notin Tree \cup Text \cup Leaves \cup [native : Tree, source : Source]

TypeOK ==
    /\ SessionTypeOK
    /\ tree \in [Tree -> [native : Tree, source : Source] \cup {Null}]
    /\ leaves \in [Tree -> Leaves \cup {Null}]
    /\ document \in [Tree -> Text \cup {Null}]
    /\ old \in [Thread -> Tree \cup {Null}]
    /\ known \in [Thread -> BOOLEAN]

Init ==
    /\ SessionInit
    /\ tree = [x \in Tree |-> Null]
    /\ leaves = [x \in Tree |-> Null]
    /\ document = [x \in Tree |-> Null]
    /\ old = [t \in Thread |-> Null]
    /\ known = [t \in Thread |-> FALSE]

NewTree(x, l, s, d) ==
    /\ tree[x] = Null
    /\ tree' = [tree EXCEPT ![x] = [native |-> x, source |-> s]]
    /\ leaves' = [leaves EXCEPT ![x] = l]
    /\ document' = [document EXCEPT ![x] = d]

Forget(t) ==
    /\ old' = [old EXCEPT ![t] = Null]
    /\ known' = [known EXCEPT ![t] = FALSE]

-----------------------------------------------------------------------------
(* parse() and parseIncremental() *)

parse(t, p, s) ==
    /\ CallParse(t, p, s)
    /\ UNCHANGED <<trees, usage>>

parseIncremental(t, p, s, x) ==
    /\ tree[x] # Null
    /\ CallParse(t, p, s)
    /\ old' = [old EXCEPT ![t] = x]
    /\ UNCHANGED <<trees, known>>

BeginParse(t) ==
    /\ LockParse(t)
    /\ IF old[t] = Null
       THEN UNCHANGED known
       ELSE known' = [known EXCEPT ![t] = document[old[t]] = source[t]]
    /\ UNCHANGED <<trees, old>>

\* The leaves of a text, given the leaves of an edited tree.
Reparsed(s, l) ==
    [i \in DOMAIN s |-> IF i \in DOMAIN l /\ l[i] # Changed THEN l[i] ELSE s[i]]

Parsed(t) ==
    /\ EndParse(t)
    /\ \E x \in Tree :
          IF old[t] = Null
          THEN NewTree(x, source[t], source[t], source[t])
          ELSE IF known[t]
          THEN NewTree(x, Reparsed(source[t], leaves[tree[old[t]].native]),
                       source[t], source[t])
          ELSE NewTree(x, Null, source[t], Null)
    /\ Forget(t)

ParseFailed(t) ==
    /\ EndParse(t)
    /\ Forget(t)
    /\ UNCHANGED trees

-----------------------------------------------------------------------------
(* TreeSitterTree: edit(), copy(), destructor *)

\* A sequence with what lies between two offsets exchanged.
Spliced(s, start, end, middle) ==
    SubSeq(s, 1, start) \o middle \o SubSeq(s, end + 1, Len(s))

NewBytes(e) == [i \in DOMAIN e.text |-> Changed]

\* Faulty: the old and the new end of the edit are mixed up.
EditSwapped(l, e) ==
    Spliced(l, e.start, e.start + Len(e.text),
            [i \in 1 .. e.oldEnd - e.start |-> Changed])

NativeEdit(l, e) == Spliced(l, e.start, e.oldEnd, NewBytes(e))

Fits(l, e) ==
    /\ e.oldEnd <= Len(l)
    /\ Len(l) + Len(e.text) - (e.oldEnd - e.start) <= MaxLength

edit(x, e) ==
    /\ tree[x] # Null
    /\ LET n == tree[x].native IN
          /\ document[x] # Null => Fits(document[x], e)
          /\ leaves' = [leaves EXCEPT ![n] = IF @ = Null THEN Null ELSE NativeEdit(@, e)]
    /\ document' = [document EXCEPT ![x] =
                      IF @ = Null THEN Null ELSE Spliced(@, e.start, e.oldEnd, e.text)]
    /\ known' = [t \in Thread |-> known[t] /\ old[t] # x]
    /\ UNCHANGED <<session, tree, old>>

\* Faulty: the copy takes over the native tree.
CopyShared(x, y) ==
    /\ tree[x] # Null /\ tree[y] = Null
    /\ tree' = [tree EXCEPT ![y] = tree[x]]
    /\ document' = [document EXCEPT ![y] = document[x]]
    /\ UNCHANGED <<session, leaves, usage>>

CopyTree(x, y) ==
    /\ tree[x] # Null
    /\ NewTree(y, leaves[tree[x].native], tree[x].source, document[x])
    /\ UNCHANGED <<session, usage>>

\* A parse that uses the tree keeps it: parseIncremental() has a reference.
DeleteTree(x) ==
    /\ tree[x] # Null
    /\ \A t \in Thread : old[t] # x
    /\ tree' = [tree EXCEPT ![x] = Null]
    /\ leaves' = [leaves EXCEPT ![x] = Null]
    /\ document' = [document EXCEPT ![x] = Null]
    /\ UNCHANGED <<session, usage>>

\* getText() of a leaf: its offsets, in the source that the tree keeps.
TextOf(x, i) ==
    IF i > Len(tree[x].source) THEN Null ELSE tree[x].source[i]

-----------------------------------------------------------------------------
Lock(t) ==
    \/ BeginParse(t)
    \/ (LockRanges(t) \/ LockReset(t)) /\ UNCHANGED <<trees, usage>>

Inside(t) ==
    \/ Parsed(t) \/ ParseFailed(t)
    \/ (SetRanges(t) \/ RefuseRanges(t) \/ Reset(t)) /\ UNCHANGED <<trees, usage>>

OnParser ==
    /\ \E p \in Parser :
          \/ Construct(p) \/ Destroy(p)
          \/ \E t \in Thread :
                \/ \E q \in Parser : Copy(t, p, q)
                \/ \E r \in Ranges : CallSetRanges(t, p, r)
                \/ CallReset(t, p)
    /\ UNCHANGED <<trees, usage>>

OnTree ==
    \E x \in Tree :
        \/ DeleteTree(x)
        \/ \E e \in Edit : edit(x, e)
        \/ \E y \in Tree : CopyTree(x, y)

Next ==
    \/ OnParser \/ OnTree
    \/ \E t \in Thread :
          \/ Lock(t) \/ Inside(t)
          \/ \E p \in Parser, s \in Source :
                parse(t, p, s) \/ \E x \in Tree : parseIncremental(t, p, s, x)

\* A call goes on until it returns, a parse ends some time, and a mutex that is
\* released again and again is given to everyone who waits for it.
Fairness == \A t \in Thread : WF_vars(Inside(t)) /\ SF_vars(Lock(t))

Spec == Init /\ [][Next]_vars /\ Fairness

-----------------------------------------------------------------------------
(* What must hold *)

\* As long as every edit is reported, and none while the tree is parsed from,
\* a tree knows its text: what is not marked as changed is what stands there,
\* so an incremental parse returns what a parse from nothing would.
IncrementalIsFresh ==
    \A x \in Tree : tree[x] # Null /\ document[x] # Null =>
        LET l == leaves[tree[x].native] IN
            /\ Len(l) = Len(document[x])
            /\ \A i \in DOMAIN l : l[i] \in {Changed, document[x][i]}

\* The nodes of a tree whose text is the one it was parsed from read their own
\* text, also when the tree is a copy of one that is edited or deleted, or was
\* parsed from an edited one.
NodesReadTheirText ==
    \A x \in Tree : tree[x] # Null /\ document[x] = tree[x].source =>
        LET l == leaves[tree[x].native] IN
            /\ l # Null
            /\ \A i \in DOMAIN l : l[i] \in {Changed, TextOf(x, i)}

\* Why they hold: objects share no native tree, leaves are known exactly where
\* the document is, and a parse keeps its old tree and knows its text.
OwnTrees == \A x \in Tree : tree[x] # Null => tree[x].native = x
LeavesKnown == \A x \in Tree : leaves[x] = Null <=> document[x] = Null
OldTreesKept ==
    \A t \in Thread : old[t] # Null =>
        tree[old[t]] # Null /\ pc[t] \in {"parse", "parsing"}
KnownTexts ==
    \A t \in Thread : known[t] =>
        At(t, "parsing") /\ old[t] # Null /\ document[old[t]] = source[t]
Inv ==
    /\ SessionInv /\ TypeOK
    /\ OwnTrees /\ LeavesKnown /\ OldTreesKept /\ KnownTexts
    /\ IncrementalIsFresh
=============================================================================
