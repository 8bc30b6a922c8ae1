------------------------------ MODULE MCKHash ------------------------------
(* Four keys: two with the same hash, a third the second bucket of which   *)
(* is the first of theirs in a table of four, the fourth further off.  Six *)
(* occupied buckets of eight make put rehash.                              *)
EXTENDS KHash, TLC

CONSTANTS k1, k2, k3, k4

FourKeys   == {k1, k2, k3, k4}
FourHashes == k1 :> 6 @@ k2 :> 6 @@ k3 :> 1 @@ k4 :> 13
=============================================================================
