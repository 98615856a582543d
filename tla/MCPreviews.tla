----------------------------- MODULE MCPreviews -----------------------------
(* Previews for TLC: a configuration and its variants in one component each. *)
EXTENDS Previews, TLC

Base == [picture |-> 1, palette |-> 1, cleanup |-> 1, rest |-> 1]
Configs == {Base, [Base EXCEPT !.cleanup = 2], [Base EXCEPT !.palette = 2]}

Symmetry == Permutations(Request)

=============================================================================
