----------------------------- MODULE BlobVault -----------------------------
(***************************************************************************)
(* What a BlobStore (backend/app/blobstore.py) promises to those who put   *)
(* bytes into it: the key of a put that returned names those bytes, now    *)
(* and from then on.  Nothing is promised of a put that raised.            *)
(***************************************************************************)
EXTENDS Naturals

CONSTANT Keys           \* storage keys; a key names its bytes by their digest

VARIABLES
    stored,     \* keys whose bytes are there
    promised    \* keys that a put has returned

vars == <<stored, promised>>

Init == stored = {} /\ promised = {}

\* The bytes arrive, also those of a put that raises or exits afterwards.
Store(k) ==
    /\ stored' = stored \cup {k}
    /\ UNCHANGED promised

\* A put returns StoredBlob, of bytes that are there or that it moves there.
Return(k) ==
    /\ stored' \in {stored, stored \cup {k}}
    /\ k \in stored'
    /\ promised' = promised \cup {k}

Next == \E k \in Keys : Store(k) \/ Return(k)

Spec == Init /\ [][Next]_vars

=============================================================================
