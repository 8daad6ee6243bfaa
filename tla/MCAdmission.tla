---------------------------- MODULE MCAdmission ----------------------------
(* Instances of Admission for TLC. *)
EXTENDS Admission, TLC

CONSTANTS r1, r2, r3, r4, a, b, ka, kb, u1, lock1, lock2, lock3, lock4

ThreeCalls == {r1, r2, r3}
FourCalls  == {r1, r2, r3, r4}
Contents   == {a, b}
TwoKeys    == {ka, kb}
OneUserJob == {u1}
FourLocks  == {lock1, lock2, lock3, lock4}
TwoLocks   == {lock1, lock2}

\* A call and its retry, another content under the same key, and the same
\* content without a key.
RetriedObject == r1 :> a @@ r2 :> a @@ r3 :> b @@ r4 :> a
RetriedKey    == r1 :> ka @@ r2 :> ka @@ r3 :> ka @@ r4 :> NoKey
RetriedPrint  == r1 :> "a" @@ r2 :> "a" @@ r3 :> "b" @@ r4 :> "a"

\* Each name has a lock of its own.
OwnLocks == a :> lock1 @@ b :> lock2 @@ ka :> lock3 @@ kb :> lock4

\* The key of either content is the name of the other content's lock, and the
\* third call reuses the first one's key for other details.
CrossedObject == r1 :> a @@ r2 :> b @@ r3 :> a
CrossedKey    == r1 :> ka @@ r2 :> kb @@ r3 :> ka
CrossedPrint  == r1 :> "a" @@ r2 :> "b" @@ r3 :> "a, other details"
CrossedLocks  == a :> lock1 @@ b :> lock2 @@ ka :> lock2 @@ kb :> lock1

=============================================================================
