--------------------------- MODULE MCBinaryLoader ---------------------------
(***************************************************************************)
(* Entries for the binary loader: good ones of one key and of two that     *)
(* share segments, one with a key that does not decode and one that has no *)
(* value.                                                                  *)
(***************************************************************************)
EXTENDS BinaryLoader

CONSTANTS k1, k2, sA, sB

MCEntries ==
    { [key |-> k1, segs |-> <<sA, sB>>, form |-> "good"],
      [key |-> k1, segs |-> <<sB>>, form |-> "good"],
      [key |-> k2, segs |-> <<sB>>, form |-> "good"],
      [key |-> k2, segs |-> <<sA>>, form |-> "bad_key"],
      [key |-> k2, segs |-> <<>>, form |-> "no_tab"] }
=============================================================================
