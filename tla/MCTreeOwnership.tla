--------------------------- MODULE MCTreeOwnership ---------------------------
(* Model checking of TreeOwnership: the instances of a kind and the threads *)
(* are interchangeable.                                                      *)
EXTENDS TreeOwnership, TLC

Symmetry ==
    Permutations(Tree) \cup Permutations(Owner) \cup Permutations(Node)
    \cup Permutations(Cursor) \cup Permutations(QueryCursor)
    \cup Permutations(Thread)
=============================================================================
