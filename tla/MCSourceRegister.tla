-------------------------- MODULE MCSourceRegister --------------------------
(* An instance of SourceRegister for TLC. *)
EXTENDS SourceRegister, TLC

CONSTANTS f1, f2, x1, c1, s1

TwoFounders == {f1, f2}
OneSlug     == {s1}
OneClient   == {c1}
OneReader   == {x1}

ThreeDeliveries == 1 .. 3

Addresses   == x1 :> c1
AnyFounder  == Permutations(TwoFounders)

=============================================================================
