---------------------------- MODULE MCClientTable ----------------------------
(***************************************************************************)
(* Instances of ClientTable for TLC.                                       *)
(***************************************************************************)
EXTENDS ClientTable, TLC

Interchangeable == Permutations(Client)
=============================================================================
