------------------------- MODULE MCQueryPredicates -------------------------
(* Model checking of QueryPredicates: every predicate with every list of up  *)
(* to two arguments, and pairs of predicates that need each other's verdict; *)
(* directives around a predicate; a match without one of the captures and    *)
(* one with two nodes for a capture.  Two nodes have the same range.         *)
EXTENDS QueryPredicates

CONSTANTS a, b, x, y, good, bad, local, empty, n1, n2, n3, r1, r2

MCTextOf == n1 :> x @@ n2 :> y @@ n3 :> x
MCRangeOf == n1 :> r1 @@ n2 :> r2 @@ n3 :> r1
MCFound == {<<good, x>>}
MCMetadata == {NoMetadata, [NoMetadata EXCEPT ![local] = {r1}]}

Node1(c) == [name |-> c, node |-> n1]
Node2(c) == [name |-> c, node |-> n2]
Node3(c) == [name |-> c, node |-> n3]
MCMatches == {<<Node1(a)>>, <<Node2(b), Node3(a)>>, <<Node2(a), Node1(a)>>}

Cap(c) == [kind |-> "capture", value |-> c]
Str(s) == [kind |-> "string", value |-> s]
P(n, as) == [name |-> n, args |-> as]

Names == {"eq?", "not-eq?", "match?", "not-match?", "any-of?", "not-any-of?",
          "is?", "is-not?", "set!", "unknown?"}
Arguments == {Cap(a), Cap(b), Str(x), Str(good), Str(bad), Str(local)}
Short == {<<>>} \cup {<<p>> : p \in Arguments} \cup {<<p, q>> : p, q \in Arguments}
Single == {<<P(n, as)>> : n \in Names, as \in Short}
Long == {<<P(n, <<Cap(a), Str(y), p>>)>> : n \in {"any-of?", "not-any-of?"}, p \in Arguments}
Pairs == {<<P(n, <<Cap(a), Str(s)>>), P(m, <<Cap(a), q>>)>> :
             n \in {"match?", "not-match?"}, s \in {good, bad},
             m \in {"match?", "eq?", "is?", "set!"}, q \in {Str(good), Str(bad), Str(local)}}
Sets == {<<P("set!", <<Str(local), p>>), P("not-eq?", <<Cap(b), Str(q)>>),
           P("set!", <<Str(local)>> \o r)>> :
            p \in {Str(x), Cap(a)}, q \in {x, y}, r \in {<<>>, <<Str(y)>>, <<Cap(b)>>}}
MCPatterns == Single \cup Long \cup Pairs \cup Sets

MCIsNotLocal == {<<P("is-not?", <<Str(local)>>)>>}
=============================================================================
