--------------------------- MODULE MCHostAccounts ---------------------------
(***************************************************************************)
(* Small instances of HostAccounts.                                        *)
(***************************************************************************)
EXTENDS HostAccounts, TLC

CONSTANTS a, b, d

Symmetry == Permutations(Cmds)
ThreeNames == <<a, b, d>>
LegacyR == [min |-> 11, max |-> 13]
DefaultR == [min |-> 21, max |-> 23]
\* A second range, apart from the default.
Another == {[min |-> 31, max |-> 33]}
=============================================================================
