---------------------------- MODULE MCUIDLedger ----------------------------
(***************************************************************************)
(* A small instance of UIDLedger: ranges of three numbers.                 *)
(***************************************************************************)
EXTENDS UIDLedger, TLC

Symmetry == Permutations(Cmds)

LegacyR == [min |-> 11, max |-> 13]
DefaultR == [min |-> 21, max |-> 23]
\* A second range, apart from the default.
Another == {[min |-> 31, max |-> 33]}
=============================================================================
