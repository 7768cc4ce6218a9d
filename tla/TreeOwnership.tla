---------------------------- MODULE TreeOwnership ----------------------------
(***************************************************************************)
(* Who keeps a native syntax tree alive.                                   *)
(*                                                                         *)
(* A TSNode, a TSTreeCursor and a running TSQueryCursor only borrow the    *)
(* TSTree they point into.  The module therefore gives every wrapper of    *)
(* one of them (a Borrower) a shared_ptr<TreeSitterTree>, whose control    *)
(* block (an Owner) holds one reference on the TreeSitterTree.  Everything *)
(* is reference counted: Qore objects hold their private data, wrappers    *)
(* their members, and a running call what it has in its frame.             *)
(*                                                                         *)
(* refs is what the program counts; objects, tree, query and the frames    *)
(* are the counted pointers that really exist; native is what is borrowed  *)
(* and not counted.  That the three agree is what the module is about.     *)
(***************************************************************************)
EXTENDS Naturals, FiniteSets

CONSTANTS
    Tree,         \* TreeSitterTree instances, each with its own TSTree
    Owner,        \* shared_ptr control blocks made by getRootNode()
    Node,         \* TreeSitterNode instances
    Cursor,       \* TreeSitterCursor instances
    Query,        \* TreeSitterQuery instances
    QueryCursor,  \* TreeSitterQueryCursor instances
    Thread,       \* threads that call into the module
    Null          \* the null pointer

Borrower == Node \cup Cursor \cup QueryCursor
Lockable == Cursor \cup QueryCursor         \* the classes with a mutex
Object   == Tree \cup Borrower \cup Query   \* AbstractPrivateData
Cell     == Object \cup Owner               \* everything that is counted

Calls == {"getRootNode", "copyTree", "parseIncremental", "getChild",
          "getChildren", "getCursor", "getCurrentNode", "copyCursor",
          "newQueryCursor", "reset", "exec"}
Locked == {"bind", "adopt", "release"}      \* steps inside a lock_guard
Steps == Calls \cup Locked \cup {"idle", "wrap", "unwind", "return"}

ASSUME DistinctKinds ==
    /\ Tree \cap Owner = {} /\ Tree \cap Borrower = {} /\ Tree \cap Query = {}
    /\ Owner \cap Borrower = {} /\ Owner \cap Query = {}
    /\ Borrower \cap Query = {}
    /\ Node \cap Lockable = {} /\ Cursor \cap QueryCursor = {}

ASSUME NullIsNothing == Null \notin Cell /\ Null \notin Thread

ASSUME FiniteKinds == IsFiniteSet(Cell) /\ IsFiniteSet(Thread)

VARIABLES
    refs,      \* Cell -> reference count; 0: not allocated
    objects,   \* the cells some Qore object holds
    tree,      \* the member tree: of a Borrower its Owner, of an Owner its Tree
    query,     \* the member query of a query cursor
    native,    \* Borrower -> the tree whose memory it borrows
    self,      \* Thread -> the object of its call
    arg,       \* Thread -> the node given to the call
    old,       \* Thread -> the reference it gives back next
    oldQuery,  \* Thread -> the query a destructor gives back before old
    mutex,     \* Lockable -> the thread inside its lock_guard
    building,  \* Thread -> child objects not yet handed to the caller
    pc         \* Thread -> where its call is

heap  == <<refs, objects, tree, query, native>>
frame == <<self, arg, old, oldQuery>>
vars  == <<heap, frame, mutex, building, pc>>

TypeOK ==
    /\ refs \in [Cell -> Nat]
    /\ objects \in SUBSET Object
    /\ tree \in [Borrower \cup Owner -> Owner \cup Tree \cup {Null}]
    /\ query \in [QueryCursor -> Query \cup {Null}]
    /\ native \in [Borrower -> Tree \cup {Null}]
    /\ self \in [Thread -> Object \cup {Null}]
    /\ arg \in [Thread -> Node \cup {Null}]
    /\ old \in [Thread -> Cell \cup {Null}]
    /\ oldQuery \in [Thread -> Query \cup {Null}]
    /\ mutex \in [Lockable -> Thread \cup {Null}]
    /\ building \in [Thread -> SUBSET Node]
    /\ pc \in [Thread -> Steps]

Init ==
    /\ refs = [c \in Cell |-> 0]
    /\ objects = {}
    /\ tree = [b \in Borrower \cup Owner |-> Null]
    /\ query = [qc \in QueryCursor |-> Null]
    /\ native = [b \in Borrower |-> Null]
    /\ self = [th \in Thread |-> Null]
    /\ arg = [th \in Thread |-> Null]
    /\ old = [th \in Thread |-> Null]
    /\ oldQuery = [th \in Thread |-> Null]
    /\ mutex = [l \in Lockable |-> Null]
    /\ building = [th \in Thread |-> {}]
    /\ pc = [th \in Thread |-> "idle"]

Fresh(c) == refs[c] = 0

\* Some script variable can reach the Qore object of c.
Visible(c) == c \in objects /\ \A th \in Thread : c \notin building[th]

At(th, steps) == pc[th] \in steps
Goto(th, step) == pc' = [pc EXCEPT ![th] = step]

-----------------------------------------------------------------------------
(* The Qore runtime: method dispatch references the private data of the    *)
(* object and of its object arguments until the method has returned, and   *)
(* an explicit delete runs the destructor once.                            *)

CallsOn(c) ==
    CASE c \in Tree   -> {"getRootNode", "copyTree", "parseIncremental"}
      [] c \in Node   -> {"getChild", "getChildren", "getCursor"}
      [] c \in Cursor -> {"getCurrentNode", "copyCursor"}
      [] c \in Query  -> {"newQueryCursor"}
      [] OTHER        -> {}

Enter(th, c) ==
    /\ At(th, {"idle"})
    /\ Visible(c)
    /\ \E call \in CallsOn(c) : Goto(th, call)
    /\ refs' = [refs EXCEPT ![c] = @ + 1]
    /\ self' = [self EXCEPT ![th] = c]
    /\ UNCHANGED <<objects, tree, query, native, arg, old, oldQuery, mutex, building>>

EnterWithNode(th, c, n) ==
    /\ At(th, {"idle"})
    /\ Visible(c) /\ Visible(n)
    /\ Goto(th, IF c \in Cursor THEN "reset" ELSE "exec")
    /\ refs' = [refs EXCEPT ![c] = @ + 1, ![n] = @ + 1]
    /\ self' = [self EXCEPT ![th] = c]
    /\ arg' = [arg EXCEPT ![th] = n]
    /\ UNCHANGED <<objects, tree, query, native, old, oldQuery, mutex, building>>

\* The reference the Qore object held is the one this thread gives back.
Delete(th, c) ==
    /\ At(th, {"idle"})
    /\ Visible(c)
    /\ Goto(th, "return")
    /\ objects' = objects \ {c}
    /\ old' = [old EXCEPT ![th] = c]
    /\ UNCHANGED <<refs, tree, query, native, self, arg, oldQuery, mutex, building>>

Idle(th) == old[th] = Null /\ oldQuery[th] = Null

DropArg(th) ==
    /\ At(th, {"return"})
    /\ Idle(th) /\ arg[th] # Null
    /\ old' = [old EXCEPT ![th] = arg[th]]
    /\ arg' = [arg EXCEPT ![th] = Null]
    /\ UNCHANGED <<heap, self, oldQuery, mutex, building, pc>>

DropSelf(th) ==
    /\ At(th, {"return"})
    /\ Idle(th) /\ arg[th] = Null /\ self[th] # Null
    /\ old' = [old EXCEPT ![th] = self[th]]
    /\ self' = [self EXCEPT ![th] = Null]
    /\ UNCHANGED <<heap, arg, oldQuery, mutex, building, pc>>

Leave(th) ==
    /\ At(th, {"return"})
    /\ Idle(th) /\ arg[th] = Null /\ self[th] = Null
    /\ Goto(th, "idle")
    /\ UNCHANGED <<heap, frame, mutex, building>>

-----------------------------------------------------------------------------
(* Constructors that borrow nothing *)

NewObject(c) ==
    /\ Fresh(c)
    /\ refs' = [refs EXCEPT ![c] = 1]
    /\ objects' = objects \cup {c}
    /\ UNCHANGED <<tree, query, native>>

Parse(th, t) ==
    /\ At(th, {"idle"})
    /\ NewObject(t)
    /\ UNCHANGED <<frame, mutex, building, pc>>

NewQuery(th, q) ==
    /\ At(th, {"idle"})
    /\ NewObject(q)
    /\ UNCHANGED <<frame, mutex, building, pc>>

\* copy() and parseIncremental() read a tree they hold and make another one.
CopyTree(th, t) ==
    /\ At(th, {"copyTree", "parseIncremental"})
    /\ NewObject(t)
    /\ Goto(th, "return")
    /\ UNCHANGED <<frame, mutex, building>>

\* Faulty: a query cursor that does not reference its query.
NewQueryCursorUncounted(th, qc) ==
    /\ At(th, {"newQueryCursor"})
    /\ Fresh(qc)
    /\ refs' = [refs EXCEPT ![qc] = 1]
    /\ objects' = objects \cup {qc}
    /\ query' = [query EXCEPT ![qc] = self[th]]
    /\ Goto(th, "return")
    /\ UNCHANGED <<tree, native, frame, mutex, building>>

NewQueryCursor(th, qc) ==
    /\ At(th, {"newQueryCursor"})
    /\ Fresh(qc)
    /\ refs' = [refs EXCEPT ![qc] = 1, ![self[th]] = @ + 1]
    /\ objects' = objects \cup {qc}
    /\ query' = [query EXCEPT ![qc] = self[th]]
    /\ Goto(th, "return")
    /\ UNCHANGED <<tree, native, frame, mutex, building>>

-----------------------------------------------------------------------------
(* New borrowers *)

\* Faulty: getRootNode() without ref().
RefTreeUncounted(th) ==
    /\ At(th, {"getRootNode"})
    /\ old' = [old EXCEPT ![th] = self[th]]
    /\ Goto(th, "wrap")
    /\ UNCHANGED <<refs, objects, tree, query, native, self, arg, oldQuery, mutex, building>>

\* ref() comes first; if the control block cannot be allocated, shared_ptr
\* runs the deleter and the reference is given back.
RefTree(th) ==
    /\ At(th, {"getRootNode"})
    /\ refs' = [refs EXCEPT ![self[th]] = @ + 1]
    /\ old' = [old EXCEPT ![th] = self[th]]
    /\ Goto(th, "wrap")
    /\ UNCHANGED <<objects, tree, query, native, self, arg, oldQuery, mutex, building>>

WrapRoot(th, o, n) ==
    /\ At(th, {"wrap"})
    /\ Fresh(o) /\ Fresh(n)
    /\ refs' = [refs EXCEPT ![o] = 1, ![n] = 1]
    /\ objects' = objects \cup {n}
    /\ tree' = [tree EXCEPT ![o] = old[th], ![n] = o]
    /\ old' = [old EXCEPT ![th] = Null]
    /\ native' = [native EXCEPT ![n] = self[th]]
    /\ Goto(th, "return")
    /\ UNCHANGED <<query, self, arg, oldQuery, mutex, building>>

\* Faulty: the owner of a new wrapper is not counted.
ShareRaw(from, new) ==
    /\ Fresh(new)
    /\ refs' = [refs EXCEPT ![new] = 1]
    /\ objects' = objects \cup {new}
    /\ tree' = [tree EXCEPT ![new] = tree[from]]
    /\ native' = [native EXCEPT ![new] = native[from]]
    /\ UNCHANGED query

\* A wrapper made from another one copies its native handle and its owner.
Share(from, new) ==
    /\ Fresh(new)
    /\ refs' = [refs EXCEPT ![new] = 1, ![tree[from]] = @ + 1]
    /\ objects' = objects \cup {new}
    /\ tree' = [tree EXCEPT ![new] = tree[from]]
    /\ native' = [native EXCEPT ![new] = native[from]]
    /\ UNCHANGED query

NewNode(th, n) ==
    /\ At(th, {"getChild"})
    /\ Share(self[th], n)
    /\ Goto(th, "return")
    /\ UNCHANGED <<frame, mutex, building>>

NewCursor(th, c) ==
    /\ At(th, {"getCursor"})
    /\ Share(self[th], c)
    /\ Goto(th, "return")
    /\ UNCHANGED <<frame, mutex, building>>

Unlocked(l) == mutex[l] = Null

\* Faulty: getCurrentNode() without the mutex of the cursor.
GetCurrentNodeUnlocked(th, n) ==
    /\ At(th, {"getCurrentNode"})
    /\ Share(self[th], n)
    /\ Goto(th, "return")
    /\ UNCHANGED <<frame, mutex, building>>

GetCurrentNode(th, n) ==
    /\ At(th, {"getCurrentNode"})
    /\ Unlocked(self[th])
    /\ Share(self[th], n)
    /\ Goto(th, "return")
    /\ UNCHANGED <<frame, mutex, building>>

CopyCursor(th, c) ==
    /\ At(th, {"copyCursor"})
    /\ Unlocked(self[th])
    /\ Share(self[th], c)
    /\ Goto(th, "return")
    /\ UNCHANGED <<frame, mutex, building>>

\* There is no such child, parent or sibling, the copy fails, or the new
\* wrapper cannot be allocated: the call returns without one.
NoResult(th) ==
    /\ At(th, {"getChild", "getCursor", "getCurrentNode", "copyCursor",
               "copyTree", "parseIncremental", "newQueryCursor", "wrap"})
    /\ Goto(th, "return")
    /\ UNCHANGED <<heap, frame, mutex, building>>

-----------------------------------------------------------------------------
(* getChildren(): objects are collected in a list nobody else can see; a   *)
(* cancellation or an exception releases all of them.                      *)

AppendChild(th, n) ==
    /\ At(th, {"getChildren"})
    /\ Share(self[th], n)
    /\ building' = [building EXCEPT ![th] = @ \cup {n}]
    /\ UNCHANGED <<frame, mutex, pc>>

ReturnChildren(th) ==
    /\ At(th, {"getChildren"})
    /\ building' = [building EXCEPT ![th] = {}]
    /\ Goto(th, "return")
    /\ UNCHANGED <<heap, frame, mutex>>

CancelChildren(th) ==
    /\ At(th, {"getChildren"})
    /\ Goto(th, "unwind")
    /\ UNCHANGED <<heap, frame, mutex, building>>

ReleaseChild(th, n) ==
    /\ At(th, {"unwind"})
    /\ Idle(th)
    /\ n \in building[th]
    /\ building' = [building EXCEPT ![th] = @ \ {n}]
    /\ objects' = objects \ {n}
    /\ old' = [old EXCEPT ![th] = n]
    /\ UNCHANGED <<refs, tree, query, native, self, arg, oldQuery, mutex, pc>>

Unwound(th) ==
    /\ At(th, {"unwind"})
    /\ Idle(th) /\ building[th] = {}
    /\ Goto(th, "return")
    /\ UNCHANGED <<heap, frame, mutex, building>>

-----------------------------------------------------------------------------
(* TreeSitterCursor::reset() and TreeSitterQueryCursor::exec(): under the  *)
(* mutex the native cursor moves first, then the owner; the assignment to  *)
(* the shared_ptr releases the owner it replaces.                          *)

\* Faulty: exec() and reset() without waiting for the mutex.
LockIgnored(th) ==
    /\ At(th, {"reset", "exec"})
    /\ mutex' = [mutex EXCEPT ![self[th]] = th]
    /\ Goto(th, "bind")
    /\ UNCHANGED <<heap, frame, building>>

Lock(th) ==
    /\ At(th, {"reset", "exec"})
    /\ Unlocked(self[th])
    /\ mutex' = [mutex EXCEPT ![self[th]] = th]
    /\ Goto(th, "bind")
    /\ UNCHANGED <<heap, frame, building>>

Bind(th) ==
    /\ At(th, {"bind"})
    /\ native' = [native EXCEPT ![self[th]] = native[arg[th]]]
    /\ Goto(th, "adopt")
    /\ UNCHANGED <<refs, objects, tree, query, frame, mutex, building>>

\* Faulty: the new owner is stored without counting it.
AdoptUncounted(th) ==
    /\ At(th, {"adopt"})
    /\ tree' = [tree EXCEPT ![self[th]] = tree[arg[th]]]
    /\ old' = [old EXCEPT ![th] = tree[self[th]]]
    /\ Goto(th, "release")
    /\ UNCHANGED <<refs, objects, query, native, self, arg, oldQuery, mutex, building>>

\* Faulty: reset() and exec() that keep the old owner.
AdoptNothing(th) ==
    /\ At(th, {"adopt"})
    /\ Goto(th, "release")
    /\ UNCHANGED <<refs, objects, tree, query, native, frame, mutex, building>>

Adopt(th) ==
    /\ At(th, {"adopt"})
    /\ refs' = [refs EXCEPT ![tree[arg[th]]] = @ + 1]
    /\ tree' = [tree EXCEPT ![self[th]] = tree[arg[th]]]
    /\ old' = [old EXCEPT ![th] = tree[self[th]]]
    /\ Goto(th, "release")
    /\ UNCHANGED <<objects, query, native, self, arg, oldQuery, mutex, building>>

Unlock(th) ==
    /\ At(th, {"release"})
    /\ Idle(th)
    /\ mutex' = [mutex EXCEPT ![self[th]] = Null]
    /\ Goto(th, "return")
    /\ UNCHANGED <<heap, frame, building>>

-----------------------------------------------------------------------------
(* Giving back the reference in old.  The last one runs the destructor,    *)
(* whose members are the next references to give back: a query cursor      *)
(* derefs its query, then releases its owner; an owner derefs its tree.    *)

Gives(th) ==
    /\ At(th, {"release", "unwind", "return"})
    /\ old[th] # Null /\ oldQuery[th] = Null

Deref(th) ==
    /\ Gives(th)
    /\ refs[old[th]] # 1
    /\ refs' = [refs EXCEPT ![old[th]] = @ - 1]
    /\ old' = [old EXCEPT ![th] = Null]
    /\ UNCHANGED <<objects, tree, query, native, self, arg, oldQuery, mutex, building, pc>>

\* ~TreeSitterTree and ~TreeSitterQuery: the native structure is deleted.
DestroyNative(th) ==
    /\ Gives(th)
    /\ old[th] \in Tree \cup Query
    /\ refs[old[th]] = 1
    /\ refs' = [refs EXCEPT ![old[th]] = 0]
    /\ old' = [old EXCEPT ![th] = Null]
    /\ UNCHANGED <<objects, tree, query, native, self, arg, oldQuery, mutex, building, pc>>

\* Faulty: a deleter that does not deref() its tree.
DestroyOwnerOnly(th) ==
    /\ Gives(th)
    /\ old[th] \in Owner
    /\ refs[old[th]] = 1
    /\ refs' = [refs EXCEPT ![old[th]] = 0]
    /\ tree' = [tree EXCEPT ![old[th]] = Null]
    /\ old' = [old EXCEPT ![th] = Null]
    /\ UNCHANGED <<objects, query, native, self, arg, oldQuery, mutex, building, pc>>

\* The deleter getRootNode() gave the control block.
DestroyOwner(th) ==
    /\ Gives(th)
    /\ old[th] \in Owner
    /\ refs[old[th]] = 1
    /\ refs' = [refs EXCEPT ![old[th]] = 0]
    /\ tree' = [tree EXCEPT ![old[th]] = Null]
    /\ old' = [old EXCEPT ![th] = tree[old[th]]]
    /\ UNCHANGED <<objects, query, native, self, arg, oldQuery, mutex, building, pc>>

\* ~TreeSitterNode and ~TreeSitterCursor.
DestroyWrapper(th) ==
    /\ Gives(th)
    /\ old[th] \in Node \cup Cursor
    /\ refs[old[th]] = 1
    /\ refs' = [refs EXCEPT ![old[th]] = 0]
    /\ native' = [native EXCEPT ![old[th]] = Null]
    /\ tree' = [tree EXCEPT ![old[th]] = Null]
    /\ old' = [old EXCEPT ![th] = tree[old[th]]]
    /\ UNCHANGED <<objects, query, self, arg, oldQuery, mutex, building, pc>>

DestroyQueryCursor(th) ==
    /\ Gives(th)
    /\ old[th] \in QueryCursor
    /\ refs[old[th]] = 1
    /\ refs' = [refs EXCEPT ![old[th]] = 0]
    /\ native' = [native EXCEPT ![old[th]] = Null]
    /\ tree' = [tree EXCEPT ![old[th]] = Null]
    /\ old' = [old EXCEPT ![th] = tree[old[th]]]
    /\ query' = [query EXCEPT ![old[th]] = Null]
    /\ oldQuery' = [oldQuery EXCEPT ![th] = query[old[th]]]
    /\ UNCHANGED <<objects, self, arg, mutex, building, pc>>

\* query->deref() in ~TreeSitterQueryCursor, possibly the last one.
DerefQuery(th) ==
    /\ oldQuery[th] # Null
    /\ refs' = [refs EXCEPT ![oldQuery[th]] = @ - 1]
    /\ oldQuery' = [oldQuery EXCEPT ![th] = Null]
    /\ UNCHANGED <<objects, tree, query, native, self, arg, old, mutex, building, pc>>

-----------------------------------------------------------------------------
Step(th) ==
    \/ \E c \in Object : Enter(th, c) \/ Delete(th, c)
    \/ \E c \in Lockable, n \in Node : EnterWithNode(th, c, n)
    \/ DropArg(th) \/ DropSelf(th) \/ Leave(th)
    \/ \E t \in Tree : Parse(th, t) \/ CopyTree(th, t)
    \/ \E q \in Query : NewQuery(th, q)
    \/ \E qc \in QueryCursor : NewQueryCursor(th, qc)
    \/ RefTree(th)
    \/ \E o \in Owner, n \in Node : WrapRoot(th, o, n)
    \/ \E n \in Node : NewNode(th, n) \/ GetCurrentNode(th, n)
                       \/ AppendChild(th, n) \/ ReleaseChild(th, n)
    \/ \E c \in Cursor : NewCursor(th, c) \/ CopyCursor(th, c)
    \/ NoResult(th) \/ ReturnChildren(th) \/ CancelChildren(th) \/ Unwound(th)
    \/ Lock(th) \/ Bind(th) \/ Adopt(th) \/ Unlock(th)
    \/ Deref(th) \/ DestroyNative(th) \/ DestroyOwner(th) \/ DestroyWrapper(th)
    \/ DestroyQueryCursor(th) \/ DerefQuery(th)

Next == \E th \in Thread : Step(th)

Spec == Init /\ [][Next]_vars

-----------------------------------------------------------------------------
(* What must hold *)

Pointing(f, c) == Cardinality({x \in DOMAIN f : f[x] = c})

\* Every reference count is the number of counted pointers that exist: no
\* getRootNode() without a ref(), no owner copied or released uncounted.
Referrers(c) ==
    (IF c \in objects THEN 1 ELSE 0) + Pointing(tree, c) + Pointing(query, c)
    + Pointing(self, c) + Pointing(arg, c) + Pointing(old, c) + Pointing(oldQuery, c)
CountsExact == \A c \in Cell : refs[c] = Referrers(c)

\* A native tree is never deleted while a node, a traversal cursor or a query
\* cursor still borrows it, whichever of the Qore objects were deleted.
NoDanglingBorrow ==
    \A b \in Borrower : native[b] # Null => refs[native[b]] > 0

\* The wrapper's owner retains the very tree its native handle points into
\* (the assertion in TreeSitterNode's constructor); a cursor may disagree only
\* for the thread that is moving it under its mutex.
Moving(b) == b \in Lockable /\ mutex[b] # Null /\ pc[mutex[b]] = "adopt"
OwnerMatchesBorrow ==
    \A b \in Borrower : native[b] # Null /\ ~Moving(b) =>
        tree[b] \in Owner /\ tree[tree[b]] = native[b]

\* When every object is gone and no call runs, nothing is left allocated.
NoLeak ==
    objects = {} /\ (\A th \in Thread : pc[th] = "idle")
        => \A c \in Cell : refs[c] = 0

\* A query cursor that can still be used never outlives the query it runs.
QueryOutlivesCursor ==
    \A qc \in QueryCursor : refs[qc] > 0 =>
        query[qc] \in Query /\ refs[query[qc]] > 0

\* The mutex of a cursor is only destroyed when no thread is inside it.
LockedIsAlive == \A l \in Lockable : mutex[l] # Null => refs[l] > 0

-----------------------------------------------------------------------------
(* The inductive invariant behind these properties *)

\* Whether a member points to an owner or to a tree depends on who holds it.
MembersTyped ==
    /\ \A b \in Borrower : tree[b] \in Owner \cup {Null}
    /\ \A o \in Owner : tree[o] \in Tree \cup {Null}

\* What the frame of a call holds at each of its steps.
FramesTyped ==
    \A th \in Thread :
        /\ At(th, {"getRootNode", "wrap", "copyTree", "parseIncremental"})
              => self[th] \in Tree
        /\ At(th, {"getChild", "getChildren", "getCursor", "unwind"})
              => self[th] \in Node
        /\ At(th, {"getCurrentNode", "copyCursor"}) => self[th] \in Cursor
        /\ At(th, {"newQueryCursor"}) => self[th] \in Query
        /\ At(th, {"reset", "exec"} \cup Locked)
              => self[th] \in Lockable /\ arg[th] \in Node
        /\ At(th, {"idle"}) => self[th] = Null
        /\ ~At(th, {"return", "reset", "exec"} \cup Locked) => arg[th] = Null
        /\ At(th, Calls \cup {"idle", "bind", "adopt"}) => old[th] = Null
        /\ At(th, {"wrap"}) => old[th] = self[th]
        /\ At(th, {"release"}) => old[th] \in Owner \cup Tree \cup {Null}
        /\ At(th, {"unwind"}) => old[th] \in Owner \cup Tree \cup Node \cup {Null}
        /\ ~At(th, {"return"}) => oldQuery[th] = Null

\* Who is inside a lock_guard, and which lists are still being built.
LocksHeld ==
    \A l \in Lockable, th \in Thread :
        mutex[l] = th <=> At(th, Locked) /\ self[th] = l
ListsOwned ==
    \A th \in Thread :
        /\ ~At(th, {"getChildren", "unwind"}) => building[th] = {}
        /\ building[th] \subseteq objects
        /\ \A other \in Thread \ {th} : building[th] \cap building[other] = {}

\* A cell that is not allocated holds nothing; an allocated one holds its
\* members, and only a query cursor may not have an owner yet.
MembersHeld ==
    /\ \A c \in Borrower \cup Owner :
          /\ refs[c] = 0 => tree[c] = Null
          /\ refs[c] > 0 /\ c \notin QueryCursor => tree[c] # Null
    /\ \A qc \in QueryCursor : refs[qc] = 0 <=> query[qc] = Null

\* A borrower's native tree is the one its owner retains; while a cursor is
\* being moved, it is the one the argument of the call retains.
BorrowRetained ==
    \A b \in Borrower :
        IF Moving(b) THEN native[b] = native[arg[mutex[b]]]
        ELSE IF tree[b] = Null THEN native[b] = Null
        ELSE native[b] = tree[tree[b]]

Inv ==
    /\ TypeOK /\ CountsExact /\ MembersTyped /\ FramesTyped
    /\ LocksHeld /\ ListsOwned /\ MembersHeld /\ BorrowRetained

-----------------------------------------------------------------------------
\* The reference counts keep the promise of TreeLifetime: borrowers attach to
\* live trees only and ~TreeSitterTree runs only when none is attached.
Lifetime == INSTANCE TreeLifetime WITH
    alive <- {t \in Tree : refs[t] > 0}, attached <- native
KeepsTreesAlive == Lifetime!Spec
=============================================================================
