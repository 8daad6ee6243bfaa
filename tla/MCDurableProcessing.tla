------------------------ MODULE MCDurableProcessing ------------------------
(* Instances of DurableProcessing for TLC. *)
EXTENDS DurableProcessing, TLC

CONSTANTS j1, s1, w1, w2, w3

OneJob    == {j1}
OneSource == {s1}

OfOneSource == [j \in Jobs |-> s1]

OnePage   == [j \in Jobs |-> 1]
TwoPages  == [j \in Jobs |-> 2]

TwoWorkers   == {w1, w2}
ThreeWorkers == {w1, w2, w3}

=============================================================================
