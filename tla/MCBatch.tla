------------------------------ MODULE MCBatch ------------------------------
(***************************************************************************)
(* Batch on three jobs, called in four ways.                                *)
(***************************************************************************)
EXTENDS Batch

Call(shape, reports, pool, canary, pause, maxFailures) ==
  [shape |-> shape, steps |-> reports, pool |-> pool, canary |-> canary,
   pause |-> pause, maxFailures |-> maxFailures]

Calls ==
  {\* two canaries at work, one of them with a follower, and a budget
   Call(<<"a", "b", "a">>, 1, 2, TRUE, FALSE, 2),
   \* a follower behind a canary and a job without a shape, with pauses
   Call(<<"a", "none", "a">>, 0, 2, TRUE, TRUE, 0),
   \* no canaries: a budget of one failure, with a wide pool and with one worker
   Call(<<"a", "b", "a">>, 0, 2, FALSE, FALSE, 1),
   Call(<<"a", "a", "a">>, 0, 1, FALSE, TRUE, 1)}
=============================================================================
