------------------------------ MODULE MCRotate ------------------------------
(* Rotate with the commands interchangeable, and the two new accounts too.  *)
EXTENDS Rotate, TLC

Symmetry == Permutations(Cmds) \cup Permutations(Accounts \ {Initial})

\* Once two have worked on one account, which is never forgotten, nothing is
\* promised: TLC looks at such a state and does not go on from it.
Promised == ~crossed
=============================================================================
