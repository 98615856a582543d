----------------------------- MODULE MCWorkers ------------------------------
(* The worker manager for TLC. *)
EXTENDS Workers

=============================================================================
