-------------------------- MODULE MCPageArtifacts --------------------------
(* An instance of PageArtifacts for TLC. *)
EXTENDS PageArtifacts, TLC

CONSTANTS c1, c2, c3

ThreeCalls == {c1, c2, c3}
AnyCall    == Permutations(ThreeCalls)

=============================================================================
