--------------------------- MODULE MCPwaWorkspaces ---------------------------
(***************************************************************************)
(* Two workspaces: the first has a thread and may get another, the second  *)
(* has one.                                                                *)
(***************************************************************************)
EXTENDS PwaWorkspaces

CONSTANTS b1, b2, t1, t2, t3

MCBridges == {b1, b2}
MCThreads == {t1, t2, t3}
MCHome == [t \in MCThreads |-> IF t = t3 THEN b2 ELSE b1]
MCMade == {t1, t3}

\* A first visit; a thread that is there, one that is gone, one of the other workspace,
\* and a conversation that was not sent.
MCStored == {[bridge |-> None, thread |-> None], [bridge |-> b1, thread |-> t1],
             [bridge |-> b1, thread |-> t2], [bridge |-> b1, thread |-> t3],
             [bridge |-> b2, thread |-> Draft(b2)]}
=============================================================================
