--------------------------- MODULE MCJobRequests ---------------------------
(* An instance of JobRequests for TLC. *)
EXTENDS JobRequests, TLC

CONSTANTS r1, r2, c1, d1, w1, j1

TwoRetries  == {r1, r2}
OneCreation == {c1}
OneDelivery == {d1}
OneCommit   == {w1}
OneJob      == {j1}
OfEach      == r1 :> j1 @@ r2 :> j1 @@ w1 :> j1

=============================================================================
