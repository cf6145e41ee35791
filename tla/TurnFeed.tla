------------------------------ MODULE TurnFeed ------------------------------
(***************************************************************************)
(* What a turn stream promises its reader, whatever lies in between: the   *)
(* versions of the turn it shows are all there and in order from the first *)
(* one on, and none is made up. TurnStream is shown to implement it.       *)
(***************************************************************************)
EXTENDS Naturals

CONSTANTS Clients, None

VARIABLES
    version,    \* how many events the turn has had
    seen,       \* the version each client shows, None before the first
    ended       \* the clients whose stream is over

feedVars == <<version, seen, ended>>

FeedInit ==
    /\ version = 0
    /\ seen = [k \in Clients |-> None]
    /\ ended = {}

Happens ==
    /\ version' = version + 1
    /\ UNCHANGED <<seen, ended>>

\* The stream begins with some version the turn has had.
Starts(k) ==
    /\ k \notin ended /\ seen[k] = None
    /\ \E v \in 0..version : seen' = [seen EXCEPT ![k] = v]
    /\ UNCHANGED <<version, ended>>

Advances(k) ==
    /\ k \notin ended /\ seen[k] # None /\ seen[k] < version
    /\ seen' = [seen EXCEPT ![k] = @ + 1]
    /\ UNCHANGED <<version, ended>>

Ends(k) ==
    /\ k \notin ended
    /\ ended' = ended \cup {k}
    /\ UNCHANGED <<version, seen>>

FeedNext ==
    \/ Happens
    \/ \E k \in Clients : Starts(k) \/ Advances(k) \/ Ends(k)

Feed == FeedInit /\ [][FeedNext]_feedVars
=============================================================================
