------------------------------- MODULE MCRota -------------------------------
(* A small instance of Rota for TLC: two live campaigns of equal rank. *)
EXTENDS Rota

CONSTANTS here, there, first, second

TwoAgents == {here, there}
OneAgent == {here}
TwoCases == {first, second}
EqualRanks == [c \in TwoCases |-> 0]
=============================================================================
