---------------------------- MODULE MCBridgeStore ----------------------------
(***************************************************************************)
(* Model checking of BridgeStore: the small sets of threads and turns.      *)
(***************************************************************************)
EXTENDS BridgeStore

CONSTANTS t1, t2, u1, u2, u3

MCThread == {t1, t2}
MCTurn2  == {u1, u2}
MCTurn3  == {u1, u2, u3}

=============================================================================
