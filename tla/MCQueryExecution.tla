-------------------------- MODULE MCQueryExecution --------------------------
(* Model checking of QueryExecution: captures of two matches that overlap,   *)
(* one of which fails, and ranges that cut through both; the start of the    *)
(* second with the end of the first is refused.                              *)
EXTENDS QueryExecution

CONSTANTS n1, n2, m1, m2, m3

MCStream == n1 :> <<m1, m2, m1, m3, m2>> @@ n2 :> <<m2>>
MCDepthOf == m1 :> 1 @@ m2 :> 2 @@ m3 :> 3
MCRequests == {[start |-> 0, end |-> 3], [start |-> 4, end |-> 6]}
=============================================================================
