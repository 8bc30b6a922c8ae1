--------------------------- MODULE MCScalingBloom ---------------------------
(***************************************************************************)
(* Instances of ScalingBloom for TLC.  The dimensions of the levels are    *)
(* those counting_bloom_init computes for error_rate 0.99 (halved once per *)
(* level, the first time for level 1) and capacity 3; the word size and    *)
(* the hashes are scaled to make keys collide in some of the slices.       *)
(***************************************************************************)
EXTENDS ScalingBloom

CONSTANTS k1, k2, k3

\* ceil(log2(1/error)) and ceil(capacity * |ln error| / (nfuncs * ln2^2)).
MCNFuncs == [b \in Levels |-> b + 1]
MCCountsPerFunc == [b \in Levels |-> IF b < 3 THEN 3 ELSE 4]

\* k1 and k2 share every counter of level 1 and not the third of level 2, where
\* k2 wraps around the word; k3 shares one counter of level 1 with both.
MCH1 == [k \in Keys |-> CASE k = k1 -> 1 [] k = k2 -> 4 [] k = k3 -> 7]
MCH2 == [k \in Keys |-> CASE k = k1 -> 2 [] k = k2 -> 2 [] k = k3 -> 6]
=============================================================================
