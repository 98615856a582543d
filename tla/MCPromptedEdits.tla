--------------------------- MODULE MCPromptedEdits --------------------------
(* Prompted-edit sessions for TLC. *)
EXTENDS PromptedEdits, TLC

Symmetry == Permutations(Session) \cup Permutations(Exec) \cup Permutations(Alt)

=============================================================================
