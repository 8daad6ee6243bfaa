----------------------- MODULE MCEphemeralDocuments -----------------------
(* An instance of EphemeralDocuments for TLC. *)
EXTENDS EphemeralDocuments, TLC

CONSTANTS e1, e2, e3, i1, i2

ThreeExtracts == {e1, e2, e3}
TwoImages     == {i1, i2}
AnyCall       == Permutations(ThreeExtracts) \cup Permutations(TwoImages)

=============================================================================
