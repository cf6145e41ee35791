-------------------------- MODULE MCAppServerStore --------------------------
(* Small instances of AppServerStore for TLC. *)
EXTENDS AppServerStore, TLC

CONSTANTS t1, u1, u2, a1, a2

MCThread    == {t1}
MCTurn      == {u1, u2}
MCApproval1 == {a1}
MCApproval2 == {a1, a2}

\* Turns and approvals are told apart by nothing but their names.
MCSymmetry == Permutations(MCTurn) \cup Permutations(MCApproval2)

=============================================================================
