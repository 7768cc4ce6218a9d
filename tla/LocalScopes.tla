----------------------------- MODULE LocalScopes -----------------------------
(***************************************************************************)
(* TreeSitterQuery::resolveLocals(): the locals query of a language is run *)
(* over a tree, and the references among its captures that mean a local    *)
(* definition are returned as byte ranges.  One pass over the captures     *)
(* keeps a list of scopes; a definition is given to the scope it is in at  *)
(* once, references wait for the end of the pass.                          *)
(*                                                                         *)
(* The native cursor hands captures out in source order, the enclosing one *)
(* first: nodes of one tree are nested or apart.                           *)
(***************************************************************************)
EXTENDS Naturals, Sequences, FiniteSets, SequencesExt, FiniteSetsExt

CONSTANTS
    Name,       \* the texts of identifiers
    Size,       \* bytes in the source; an identifier takes one of them
    MaxScopes   \* bound on the scopes of a source

ASSUME Bounds == Size \in Nat /\ MaxScopes \in Nat

Byte == 0 .. Size - 1
Kind == {"local.scope", "local.definition", "local.reference"}
Anonymous == "anonymous"                 \* the text of a scope, never read
Scope == {[kind |-> "local.scope", start_byte |-> s, end_byte |-> e, name |-> Anonymous] :
              s \in Byte, e \in 1 .. Size}
Token == {[kind |-> k, start_byte |-> s, end_byte |-> s + 1, name |-> n] :
              k \in Kind \ {"local.scope"}, s \in Byte, n \in Name}

VARIABLES
    stream,       \* the captures of the locals query on the node
    pos,          \* the capture looked at next
    scopes,       \* the scopes seen so far, with the names defined in each
    references,   \* the references seen so far
    local_ranges, \* the ranges of the references found to be local
    pc            \* where the call is

vars == <<stream, pos, scopes, references, local_ranges, pc>>

TypeOK ==
    /\ stream \in Seq(Scope \cup Token)
    /\ pos \in 1 .. Len(stream) + 1
    /\ scopes \in Seq([start_byte : Byte, end_byte : 1 .. Size, definitions : SUBSET Name])
    /\ references \in Seq(Token)
    /\ local_ranges \in Seq([start_byte : Byte, end_byte : 1 .. Size])
    /\ pc \in {"scan", "resolve", "returned"}

\* Sources: scopes that nest, and at each byte an identifier that may be
\* captured as a definition, a reference, or both.
Nested(S) ==
    \A s, u \in S :
        \/ s.end_byte <= u.start_byte \/ u.end_byte <= s.start_byte
        \/ s.start_byte <= u.start_byte /\ u.end_byte <= s.end_byte
        \/ u.start_byte <= s.start_byte /\ s.end_byte <= u.end_byte
Sources ==
    {S \in UNION {kSubset(n, {s \in Scope : s.start_byte < s.end_byte}) : n \in 0 .. MaxScopes} :
         Nested(S)}
Identifiers ==
    {T \in SUBSET Token : \A t, u \in T : t.start_byte = u.start_byte => t.name = u.name}

Rank(c) == IF c.kind = "local.scope" THEN 0 ELSE IF c.kind = "local.definition" THEN 1 ELSE 2
Before(c, d) ==
    \/ c.start_byte < d.start_byte
    \/ c.start_byte = d.start_byte /\ c.end_byte > d.end_byte
    \/ c.start_byte = d.start_byte /\ c.end_byte = d.end_byte /\ Rank(c) < Rank(d)

InSourceOrder(S) ==
    [k \in 1 .. Cardinality(S) |->
        CHOOSE c \in S : Cardinality({d \in S : Before(d, c)}) = k - 1]

Init ==
    /\ \E S \in Sources, T \in Identifiers : stream = InSourceOrder(S \cup T)
    /\ pos = 1
    /\ scopes = <<>> /\ references = <<>> /\ local_ranges = <<>>
    /\ pc = "scan"

-----------------------------------------------------------------------------
Sees(kind) == pc = "scan" /\ pos <= Len(stream) /\ stream[pos].kind = kind

\* Faulty: the text of a scope is taken for a definition.
SeeScopeNamed ==
    /\ Sees("local.scope")
    /\ scopes' = Append(scopes, [start_byte |-> stream[pos].start_byte,
                                 end_byte |-> stream[pos].end_byte,
                                 definitions |-> {stream[pos].name}])
    /\ pos' = pos + 1
    /\ UNCHANGED <<stream, references, local_ranges, pc>>

SeeScope ==
    /\ Sees("local.scope")
    /\ scopes' = Append(scopes, [start_byte |-> stream[pos].start_byte,
                                 end_byte |-> stream[pos].end_byte,
                                 definitions |-> {}])
    /\ pos' = pos + 1
    /\ UNCHANGED <<stream, references, local_ranges, pc>>

\* Faulty: the first scope around a definition, not the last.
AroundFirst(c) ==
    SelectInSeq(scopes, LAMBDA s : s.start_byte <= c.start_byte /\ c.start_byte < s.end_byte)

\* The last scope seen that the definition starts in; without one the
\* definition is dropped.
Around(c) ==
    SelectLastInSeq(scopes, LAMBDA s : s.start_byte <= c.start_byte /\ c.start_byte < s.end_byte)

SeeDefinition ==
    /\ Sees("local.definition")
    /\ LET d == stream[pos]
       IN  scopes' = IF Around(d) = 0 THEN scopes
                     ELSE [scopes EXCEPT ![Around(d)].definitions = @ \cup {d.name}]
    /\ pos' = pos + 1
    /\ UNCHANGED <<stream, references, local_ranges, pc>>

SeeReference ==
    /\ Sees("local.reference")
    /\ references' = Append(references, stream[pos])
    /\ pos' = pos + 1
    /\ UNCHANGED <<stream, scopes, local_ranges, pc>>

EndOfScan ==
    /\ pc = "scan"
    /\ pos > Len(stream)
    /\ pc' = "resolve"
    /\ UNCHANGED <<stream, pos, scopes, references, local_ranges>>

\* Faulty: only the last scope around the reference counts.
IsLocalInnermost(r) ==
    \E k \in DOMAIN scopes :
        /\ scopes[k].start_byte <= r.start_byte /\ r.end_byte <= scopes[k].end_byte
        /\ \A j \in DOMAIN scopes : j > k => scopes[j].end_byte <= r.start_byte
        /\ r.name \in scopes[k].definitions

\* Any scope around the reference will do.
IsLocal(r) ==
    \E k \in DOMAIN scopes :
        /\ scopes[k].start_byte <= r.start_byte /\ r.end_byte <= scopes[k].end_byte
        /\ r.name \in scopes[k].definitions

Resolve ==
    /\ pc = "resolve"
    /\ references # <<>>
    /\ LET r == Head(references)
           range == [start_byte |-> r.start_byte, end_byte |-> r.end_byte]
       IN  local_ranges' = IF IsLocal(r) THEN Append(local_ranges, range) ELSE local_ranges
    /\ references' = Tail(references)
    /\ UNCHANGED <<stream, pos, scopes, pc>>

Return ==
    /\ pc = "resolve"
    /\ references = <<>>
    /\ pc' = "returned"
    /\ UNCHANGED <<stream, pos, scopes, references, local_ranges>>

Next == SeeScope \/ SeeDefinition \/ SeeReference \/ EndOfScan \/ Resolve \/ Return

Spec == Init /\ [][Next]_vars

-----------------------------------------------------------------------------
(* What must hold *)

\* Lexical scoping, said of the source and not of the pass over it: a
\* definition is in force in the whole of the smallest scope around it.
Captures(kind) == {c \in ToSet(stream) : c.kind = kind}
Encloses(s, c) == s.start_byte <= c.start_byte /\ c.end_byte <= s.end_byte
ScopesOf(c) == {s \in Captures("local.scope") : Encloses(s, c)}
ScopeOf(d) == CHOOSE s \in ScopesOf(d) : \A u \in ScopesOf(d) : Encloses(u, s)
InForce(d, r) == ScopesOf(d) # {} /\ d.name = r.name /\ Encloses(ScopeOf(d), r)

RangeOf(c) == [start_byte |-> c.start_byte, end_byte |-> c.end_byte]

\* The ranges returned are those of the references a definition is in force
\* for, also before it and in scopes inside of its own, in source order.
LexicalScoping ==
    pc = "returned" =>
        /\ ToSet(local_ranges) = {RangeOf(r) : r \in {c \in Captures("local.reference") :
                                    \E d \in Captures("local.definition") : InForce(d, c)}}
        /\ \A i, j \in DOMAIN local_ranges :
              i < j => local_ranges[i].start_byte < local_ranges[j].start_byte

\* While the pass runs, a scope knows exactly the definitions seen so far that
\* are in force in it and in no scope outside of it.
ScopesKnowTheirOwn ==
    \A k \in DOMAIN scopes :
        scopes[k].definitions =
            {d.name : d \in {c \in Captures("local.definition") :
                /\ \E j \in 1 .. pos - 1 : stream[j] = c
                /\ ScopesOf(c) # {}
                /\ ScopeOf(c).start_byte = scopes[k].start_byte
                /\ ScopeOf(c).end_byte = scopes[k].end_byte}}
=============================================================================
