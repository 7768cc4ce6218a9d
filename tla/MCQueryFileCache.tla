-------------------------- MODULE MCQueryFileCache --------------------------
(* Model checking of QueryFileCache: two programs, the second of which may   *)
(* not read the second file, and none of which may ask for the locals; an    *)
(* alias of the first query and a name that has no query file.               *)
EXTENDS QueryFileCache, TLC

CONSTANTS js, javascript, locals, unknown, r1, r2, f1, f2, c1, c2

MCCanonical == js :> r1 @@ javascript :> r1 @@ locals :> r2 @@ unknown :> Null
MCAllowed == c1 :> {r1, f1, f2} @@ c2 :> {r1, f1}
=============================================================================
