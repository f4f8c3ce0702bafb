----------------------------- MODULE MCAskpass -----------------------------
(***************************************************************************)
(* Askpass with its clients and its passwords interchangeable.              *)
(***************************************************************************)
EXTENDS Askpass, TLC

Symmetry == Permutations(Client) \cup Permutations(Secret)
=============================================================================
