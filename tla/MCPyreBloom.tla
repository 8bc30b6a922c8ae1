---------------------------- MODULE MCPyreBloom ----------------------------
(* Two objects and two values with two hashes.  With mantissas of two bits *)
(* the floats are 1, 2, 3, 4, 6, 8, 12 and so on, and MaxBits, 7, is 8:    *)
(* eleven bits take two keys; eight bits take one key that lacks the last  *)
(* of them; so do nine, which as a float are eight.                        *)
EXTENDS PyreBloom, TLC

CONSTANTS c1, c2, a, b

TwoClients == {c1, c2}
TwoItems   == {a, b}
TwoHashes  == a :> <<2, 63>> @@ b :> <<8, 23>>
TwoAndOne  == c1 :> 2 @@ c2 :> 1
OneOrBad   == c1 :> {1} @@ c2 :> {2}
OneOrTwo   == c1 :> {<< >>, <<b, a>>} @@ c2 :> {<<a>>}
=============================================================================
