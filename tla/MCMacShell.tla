----------------------------- MODULE MCMacShell -----------------------------
(* Instances of MacShell; see the .cfg files. *)
EXTENDS MacShell
=============================================================================
