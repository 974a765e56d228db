--------------------------- MODULE MCFirebaseNode ---------------------------
(* FirebaseNode on small instances: two clients, of which one may write    *)
(* more than the other, and interchangeable values.                        *)
EXTENDS FirebaseNode, TLC

CONSTANTS c1, c2, v1, v2

TwoAndOne == c1 :> 2 @@ c2 :> 1
OneEach   == c1 :> 1 @@ c2 :> 1

Interchangeable == Permutations({v1, v2})
=============================================================================
