------------------------- MODULE MCLookaheadIteration -------------------------
(* Model checking of LookaheadIteration: one language with an alias, two     *)
(* languages with different numbers of states; negative states and states    *)
(* beyond the width are given.                                               *)
EXTENDS LookaheadIteration, TLC

CONSTANTS python, markdown, md, unknown, py, mark, a, b, c

MCLanguageOf == python :> py @@ markdown :> mark @@ md :> mark
MCStateCount == py :> 3 @@ mark :> 2
MCExpected ==
    py :> [s \in 0 .. 2 |-> CASE s = 0 -> {} [] s = 1 -> {a} [] s = 2 -> {a, b}]
    @@ mark :> [s \in 0 .. 1 |-> IF s = 0 THEN {c} ELSE {b, c}]
MCScriptState == {-1, 1, 2, 5}
=============================================================================
