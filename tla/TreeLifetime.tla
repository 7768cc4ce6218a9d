----------------------------- MODULE TreeLifetime -----------------------------
(***************************************************************************)
(* What the module promises about native trees, without saying how: a tree *)
(* comes alive once it is parsed or copied, users (nodes, traversal cursors*)
(* and running query cursors) attach to live trees only, and a tree is     *)
(* reclaimed only when no user is attached to it.  TreeOwnership keeps the *)
(* promise with reference counts.                                          *)
(***************************************************************************)
CONSTANTS Tree, Borrower, Null

VARIABLES
    alive,    \* trees whose native memory may be read
    attached  \* Borrower -> the tree it reads, or Null

Init ==
    /\ alive = {}
    /\ attached = [b \in Borrower |-> Null]

Create(t) ==
    /\ t \notin alive
    /\ alive' = alive \cup {t}
    /\ UNCHANGED attached

\* Attaching for the first time, moving to another tree, and letting go.
Attach(b, t) ==
    /\ t \in alive \cup {Null}
    /\ attached' = [attached EXCEPT ![b] = t]
    /\ UNCHANGED alive

Reclaim(t) ==
    /\ t \in alive
    /\ \A b \in Borrower : attached[b] # t
    /\ alive' = alive \ {t}
    /\ UNCHANGED attached

Next ==
    \/ \E t \in Tree : Create(t) \/ Reclaim(t)
    \/ \E b \in Borrower, t \in Tree \cup {Null} : Attach(b, t)

Spec == Init /\ [][Next]_<<alive, attached>>
=============================================================================
