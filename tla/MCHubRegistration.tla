-------------------------- MODULE MCHubRegistration -------------------------
(* Small instances of HubRegistration for TLC. *)
EXTENDS HubRegistration

MCPort == 1..MaxInstances

=============================================================================
