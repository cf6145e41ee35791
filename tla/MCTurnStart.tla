---------------------------- MODULE MCTurnStart ----------------------------
(* Two calls and two threads: a call for each, both for one, or drafts.    *)
EXTENDS TurnStart, TLC

CONSTANTS c1, c2, t1, t2

MCCalls   == {c1, c2}
MCThreads == {t1, t2}

\* Calls are alike and threads are alike, and every property here is an invariant.
MCSymmetry == Permutations(MCCalls) \cup Permutations(MCThreads)
=============================================================================
