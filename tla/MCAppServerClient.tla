-------------------------- MODULE MCAppServerClient -------------------------
(* Small instances of AppServerClient for TLC. *)
EXTENDS AppServerClient

=============================================================================
