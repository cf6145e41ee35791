-------------------------- MODULE MCPwaThreadView --------------------------
(* Small instances of PwaThreadView for TLC. *)
EXTENDS PwaThreadView, TLC

CONSTANTS t1, t2

MCThread  == {t1}
MCThread2 == {t1, t2}

\* The threads are interchangeable (for the runs that check safety only).
MCSymmetry == Permutations(MCThread2)

=============================================================================
