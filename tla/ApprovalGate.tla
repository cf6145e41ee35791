---------------------------- MODULE ApprovalGate ----------------------------
(***************************************************************************)
(* What a bridge store promises about the turns it is given, whatever the  *)
(* order of the calls made on it: a turn produces output only between the  *)
(* moment its action is allowed and the moment it ends, a turn submitted   *)
(* as plan-only is held at the gate until somebody lets it through, and a  *)
(* turn that has ended stays as it is.                                     *)
(***************************************************************************)
EXTENDS Naturals

CONSTANTS Turn,     \* the identifiers of turns
          Chunks    \* the number of pieces of a turn's whole output

VARIABLES phase,    \* where each turn stands
          planOnly, \* the turns that were submitted as plan-only
          output    \* how many pieces of output each turn has produced

gateVars == <<phase, planOnly, output>>

Init ==
    /\ phase = [u \in Turn |-> "new"]
    /\ planOnly = {}
    /\ output = [u \in Turn |-> 0]

\* A turn arrives and waits for a decision.
Hold(u) ==
    /\ phase[u] = "new"
    /\ phase' = [phase EXCEPT ![u] = "gated"]
    /\ planOnly' \in {planOnly, planOnly \cup {u}}
    /\ UNCHANGED output

\* A turn that is not plan-only may be let through at once.
PassThrough(u) ==
    /\ phase[u] = "new"
    /\ phase' = [phase EXCEPT ![u] = "open"]
    /\ UNCHANGED <<planOnly, output>>

\* Somebody allows the action of a waiting turn.
Allow(u) ==
    /\ phase[u] = "gated"
    /\ phase' = [phase EXCEPT ![u] = "open"]
    /\ UNCHANGED <<planOnly, output>>

Produce(u) ==
    /\ phase[u] = "open"
    /\ output[u] < Chunks
    /\ output' = [output EXCEPT ![u] = @ + 1]
    /\ UNCHANGED <<phase, planOnly>>

\* A turn ends, allowed or not, finished or not.
Close(u) ==
    /\ phase[u] \in {"gated", "open"}
    /\ phase' = [phase EXCEPT ![u] = "closed"]
    /\ UNCHANGED <<planOnly, output>>

Next == \E u \in Turn : Hold(u) \/ PassThrough(u) \/ Allow(u) \/ Produce(u) \/ Close(u)

Spec == Init /\ [][Next]_gateVars

=============================================================================
