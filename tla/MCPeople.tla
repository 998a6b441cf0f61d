------------------------------- MODULE MCPeople -------------------------------
(* Two pictures of one person, of whom one shows somebody else, too. *)
EXTENDS People

CONSTANTS a1, a2, x, y

LooksOfTwo == [a \in {a1, a2} |-> IF a = a1 THEN {x} ELSE {x, y}]

=============================================================================
