---------------------------- MODULE MCTurnStream ----------------------------
(* A small instance of TurnStream for TLC. *)
EXTENDS TurnStream

CONSTANTS k1, r1

MCClient1  == {k1}
MCRequests == {r1}
=============================================================================
