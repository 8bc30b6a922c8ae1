------------------------------ MODULE MCBlume ------------------------------
(***************************************************************************)
(* Small files for Blume: up to two filters, for one and for two keys, of  *)
(* one and two words as their bits double.                                 *)
(***************************************************************************)
EXTENDS Blume, TLC

MCn == <<1, 2>>
MCFilterSize == <<1, 2>>

Symmetry == Permutations(Handles) \cup Permutations(Keys)
=============================================================================
