------------------------- MODULE MCBridgeLifecycle -------------------------
(***************************************************************************)
(* Two windows, two calls in any of them, one crash or failing step. The   *)
(* windows are not taken as symmetric: a liveness property is checked.     *)
(***************************************************************************)
EXTENDS BridgeLifecycle

=============================================================================
