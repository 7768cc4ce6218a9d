------------------------- MODULE MCIncrementalParsing -------------------------
(* Model checking of IncrementalParsing: a byte is put in front of the text. *)
EXTENDS IncrementalParsing

CONSTANTS a, b

MCSource == {<<a>>, <<b, a>>}
MCEdit == {[start |-> 0, oldEnd |-> 0, text |-> <<b>>]}
=============================================================================
