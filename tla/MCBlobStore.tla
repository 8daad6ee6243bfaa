---------------------------- MODULE MCBlobStore ----------------------------
(* Instances of BlobStore for TLC: two uploads of one content and a page. *)
EXTENDS BlobStore, TLC

CONSTANTS u1, u2, g1, canonical, derived

TwoUploads == {u1, u2}
OnePage    == {g1}
BothKeys   == {canonical, derived}
KeyOfPut   == [p \in Puts |-> IF p \in Uploads THEN canonical ELSE derived]
AnyUpload  == Permutations(TwoUploads)

=============================================================================
