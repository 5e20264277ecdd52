------------------------------- MODULE MCRelay -------------------------------
(* Model-checking instances of Relay. *)
EXTENDS Relay

BothWays == {<<1, 2>>, <<2, 1>>}

\* Two bytes one way, so that reads and writes may be short, and one back.
TwoAndOne == [f \in Fds |-> IF f = 1 THEN 2 ELSE 1]
=============================================================================
