----------------------- MODULE MCQueryCursorIteration -----------------------
(* Model checking of QueryCursorIteration: a node on which the captures of a  *)
(* failing and of a passing match overlap, and one, for an exec() in between, *)
(* on which two matches in a row fail.  The two limits have a capture in      *)
(* common.                                                                    *)
EXTENDS QueryCursorIteration, TLC

CONSTANTS n1, n2, m1, m2, m3

MCStream == n1 :> <<m2, m1, m2, m1>> @@ n2 :> <<m2, m3, m1>>
MCEverywhere == [n \in {n1, n2} |-> DOMAIN MCStream[n]]
MCLimits == {[kind |-> "byte", within |-> n1 :> {2, 3} @@ n2 :> {1, 2, 3}],
             [kind |-> "depth", within |-> n1 :> {2, 4} @@ n2 :> {3}]}
=============================================================================
