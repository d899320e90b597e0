------------------------------ MODULE MCArbitrator ------------------------------
(* Constants for ArbitratorCheck. *)
EXTENDS ArbitratorCheck

CONSTANT NotFinite

MCAsked == [linear : -3 .. 3 \cup {NotFinite}, angular : -6 .. 6 \cup {NotFinite}]
MCCommands == {Stop, [linear |-> 2, angular |-> 1], [linear |-> -1, angular |-> -3]}
MCDistances == {0, 1, 2, NotFinite}

=============================================================================
