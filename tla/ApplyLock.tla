----------------------------- MODULE ApplyLock -----------------------------
(***************************************************************************)
(* The apply lock of tacctl (internal/applylock): one flock on             *)
(* <StateDir>/.store-apply.lock that serialises every command that writes  *)
(* the configuration.  A process is one tacctl invocation.  Inside it the  *)
(* lock is reentrant by a count; between processes it is a flock, polled   *)
(* without blocking, that the kernel drops when the descriptor is closed   *)
(* or the process dies.                                                    *)
(*                                                                         *)
(* A flock belongs to an open file description.  The description Acquire   *)
(* opens is <<p, "lock">>, the one the probe Busy opens is <<p, "probe">>. *)
(***************************************************************************)
EXTENDS Integers, FiniteSets

CONSTANTS Proc,        \* the tacctl processes
          NoOne,       \* nobody holds the flock
          MaxAcquire,  \* bound: Acquire calls of one process
          MaxProbe     \* bound: Busy probes of one process

ASSUME ProcAssumption == NoOne \notin Proc \X {"lock", "probe"}
ASSUME BoundAssumption == MaxAcquire \in Nat /\ MaxProbe \in Nat

VARIABLES
    flock,      \* the description that holds the flock of the file, or NoOne
    pc,         \* where each process is in Acquire or Busy
    depth,      \* Lock.depth
    issued,     \* how many release functions Acquire has returned
    live,       \* the release functions whose sync.Once has not run
    done,       \* the invocation's context is over (Ctrl-C)
    err,        \* how the last Acquire failed, "none" when it did not
    announced,  \* Lock.announced
    said,       \* how often onWait was called
    probes      \* how many probes the process has begun

vars == <<flock, pc, depth, issued, live, done, err, announced, said, probes>>

Description == Proc \X {"lock", "probe"}

\* "run" is the process's own code; "try" and "wait" are the flock loop of
\* Acquire before the system call and in its select; "probe" is Busy with the
\* flock taken; "dead" is a process that ended.
Where == {"run", "try", "wait", "probe", "dead"}

TypeOK ==
    /\ flock \in Description \cup {NoOne}
    /\ pc \in [Proc -> Where]
    /\ depth \in [Proc -> Nat]
    /\ issued \in [Proc -> 0..MaxAcquire]
    /\ live \in [Proc -> SUBSET (1..MaxAcquire)]
    /\ done \in [Proc -> BOOLEAN]
    /\ err \in [Proc -> {"none", "cancelled", "failed"}]
    /\ announced \in [Proc -> BOOLEAN]
    /\ said \in [Proc -> Nat]
    /\ probes \in [Proc -> 0..MaxProbe]

Init ==
    /\ flock = NoOne
    /\ pc = [p \in Proc |-> "run"]
    /\ depth = [p \in Proc |-> 0]
    /\ issued = [p \in Proc |-> 0]
    /\ live = [p \in Proc |-> {}]
    /\ done = [p \in Proc |-> FALSE]
    /\ err = [p \in Proc |-> "none"]
    /\ announced = [p \in Proc |-> FALSE]
    /\ said = [p \in Proc |-> 0]
    /\ probes = [p \in Proc |-> 0]

-----------------------------------------------------------------------------

Goto(p, from, to) == pc[p] = from /\ pc' = [pc EXCEPT ![p] = to]

\* depth++, and the release function that gives this level back.
Enter(p) ==
    /\ depth' = [depth EXCEPT ![p] = @ + 1]
    /\ issued' = [issued EXCEPT ![p] = @ + 1]
    /\ live' = [live EXCEPT ![p] = @ \cup {issued[p] + 1}]

\* Acquire by a process that holds the lock: the file is not touched.
AcquireNested(p) ==
    /\ pc[p] = "run" /\ depth[p] > 0 /\ issued[p] < MaxAcquire
    /\ Enter(p)
    /\ UNCHANGED <<flock, pc, done, err, announced, said, probes>>

\* Acquire at depth 0: the file is opened and the flock tried.
AcquireOpen(p) ==
    /\ depth[p] = 0 /\ issued[p] < MaxAcquire
    /\ Goto(p, "run", "try")
    /\ UNCHANGED <<flock, depth, issued, live, done, err, announced, said, probes>>

\* Mutant: EWOULDBLOCK is taken for success; the flock stays where it is.
TryTakenUnchecked(p) ==
    /\ Goto(p, "try", "run")
    /\ flock' = IF flock = NoOne THEN <<p, "lock">> ELSE flock
    /\ Enter(p)
    /\ err' = [err EXCEPT ![p] = "none"]
    /\ UNCHANGED <<done, announced, said, probes>>

\* Mutant: a context that is over refuses the lock before it is tried.
TryTakenUnlessDone(p) ==
    /\ flock = NoOne
    /\ Goto(p, "try", "run")
    /\ IF done[p]
       THEN err' = [err EXCEPT ![p] = "cancelled"] /\ UNCHANGED <<flock, depth, issued, live>>
       ELSE flock' = <<p, "lock">> /\ Enter(p) /\ err' = [err EXCEPT ![p] = "none"]
    /\ UNCHANGED <<done, announced, said, probes>>

\* flock(LOCK_EX|LOCK_NB) succeeds: whatever the context says.
TryTaken(p) ==
    /\ flock = NoOne
    /\ Goto(p, "try", "run")
    /\ flock' = <<p, "lock">>
    /\ Enter(p)
    /\ err' = [err EXCEPT ![p] = "none"]
    /\ UNCHANGED <<done, announced, said, probes>>

\* EWOULDBLOCK: a context that is over ends the wait (ErrCancelled), else the
\* wait is announced, once over the Lock's life, and the select is entered.
TryBusy(p) ==
    /\ flock # NoOne
    /\ IF done[p]
       THEN /\ Goto(p, "try", "run")
            /\ err' = [err EXCEPT ![p] = "cancelled"]
            /\ UNCHANGED <<announced, said>>
       ELSE /\ Goto(p, "try", "wait")
            /\ UNCHANGED err
            /\ said' = [said EXCEPT ![p] = IF announced[p] THEN @ ELSE @ + 1]
            /\ announced' = [announced EXCEPT ![p] = TRUE]
    /\ UNCHANGED <<flock, depth, issued, live, done, probes>>

\* The file cannot be opened, or flock fails with another error: closed.
TryFails(p) ==
    /\ Goto(p, "try", "run")
    /\ err' = [err EXCEPT ![p] = "failed"]
    /\ UNCHANGED <<flock, depth, issued, live, done, announced, said, probes>>

\* Mutant: the tick ends nothing but the context's end leaves the wait.
WaitTickLost(p) ==
    /\ Goto(p, "wait", "wait")
    /\ UNCHANGED <<flock, depth, issued, live, done, err, announced, said, probes>>

\* The select of the wait: the 100 ms tick, or the end of the context.
WaitTick(p) ==
    /\ Goto(p, "wait", "try")
    /\ UNCHANGED <<flock, depth, issued, live, done, err, announced, said, probes>>

WaitCancelled(p) ==
    /\ done[p]
    /\ Goto(p, "wait", "run")
    /\ err' = [err EXCEPT ![p] = "cancelled"]
    /\ UNCHANGED <<flock, depth, issued, live, done, announced, said, probes>>

\* Mutant: no sync.Once, a release function called twice gives two levels back.
ReleaseEveryCall(p, h) ==
    /\ pc[p] = "run" /\ h <= issued[p] /\ depth[p] > 0
    /\ live' = [live EXCEPT ![p] = @ \ {h}]
    /\ depth' = [depth EXCEPT ![p] = @ - 1]
    /\ flock' = IF depth[p] = 1 THEN NoOne ELSE flock
    /\ UNCHANGED <<pc, issued, done, err, announced, said, probes>>

\* A release function is called; any but its first call does nothing.  The
\* descriptor is closed, and the flock with it, when the depth returns to 0.
Release(p, h) ==
    /\ pc[p] = "run" /\ h \in live[p]
    /\ live' = [live EXCEPT ![p] = @ \ {h}]
    /\ depth' = [depth EXCEPT ![p] = @ - 1]
    /\ flock' = IF depth[p] = 1 THEN NoOne ELSE flock
    /\ UNCHANGED <<pc, issued, done, err, announced, said, probes>>

\* Busy(dir): a momentary flock of its own; while it stands, the flock of
\* every other description fails.  A busy lock is reported at once.
ProbeTaken(p) ==
    /\ flock = NoOne /\ probes[p] < MaxProbe
    /\ Goto(p, "run", "probe")
    /\ flock' = <<p, "probe">>
    /\ probes' = [probes EXCEPT ![p] = @ + 1]
    /\ UNCHANGED <<depth, issued, live, done, err, announced, said>>

ProbeEnd(p) ==
    /\ Goto(p, "probe", "run")
    /\ flock' = NoOne
    /\ UNCHANGED <<depth, issued, live, done, err, announced, said, probes>>

\* Ctrl-C: the invocation's context ends.
Interrupt(p) ==
    /\ pc[p] # "dead" /\ ~done[p]
    /\ done' = [done EXCEPT ![p] = TRUE]
    /\ UNCHANGED <<flock, pc, depth, issued, live, err, announced, said, probes>>

\* The process ends, at its end or by a kill: the kernel closes its
\* descriptors.
Exit(p) ==
    /\ pc[p] # "dead"
    /\ pc' = [pc EXCEPT ![p] = "dead"]
    /\ flock' = IF flock \in {<<p, "lock">>, <<p, "probe">>} THEN NoOne ELSE flock
    /\ depth' = [depth EXCEPT ![p] = 0]
    /\ live' = [live EXCEPT ![p] = {}]
    /\ UNCHANGED <<issued, done, err, announced, said, probes>>

Try(p) == TryTaken(p) \/ TryBusy(p) \/ TryFails(p)

Step(p) ==
    \/ AcquireNested(p) \/ AcquireOpen(p) \/ Try(p)
    \/ WaitTick(p) \/ WaitCancelled(p)
    \/ \E h \in 1..MaxAcquire : Release(p, h)
    \/ ProbeTaken(p) \/ ProbeEnd(p)
    \/ Interrupt(p) \/ Exit(p)

Next == \E p \in Proc : Step(p)

Spec == Init /\ [][Next]_vars

\* The fairness a running process has: the flock loop and the probe go on,
\* and a command that took the lock gives every level back (its releases are
\* deferred) or ends.  Nothing is said about who wins a poll.
Fairness ==
    \A p \in Proc :
        /\ WF_vars(Try(p)) /\ WF_vars(WaitTick(p)) /\ WF_vars(ProbeEnd(p))
        /\ WF_vars(\E h \in 1..MaxAcquire : Release(p, h))

FairSpec == Spec /\ Fairness

-----------------------------------------------------------------------------

\* The process is inside the lock.
Holds(p) == depth[p] > 0

\* At most one process is between its Acquire and the release that takes its
\* depth to 0 (applylock.go: every command that puts whole files back is
\* serialised with every other).
MutualExclusion == \A p, q \in Proc : Holds(p) /\ Holds(q) => p = q

\* The flock of the file and the count agree: the process that has levels out
\* has the flock, so no release of an inner level, and no second call of a
\* release function, drops the lock from under an outer transaction.
FlockIsDepth ==
    /\ \A p \in Proc : Holds(p) <=> flock = <<p, "lock">>
    /\ \A p \in Proc : depth[p] = Cardinality(live[p])

\* A context that is over does not refuse a lock that is free, it only ends a
\* wait (flock's comment: a command that outlives its Ctrl-C must still write):
\* an Acquire of this step that ends cancelled found the flock taken, now or
\* when it went to wait.
FreeLockNotRefused ==
    [][\A p \in Proc :
          pc[p] = "try" /\ pc'[p] = "run" /\ ~Holds(p)'
            => err'[p] = "failed" \/ (done[p] /\ flock # NoOne)]_vars

\* A wait is announced at most once over the Lock's life (Acquire's onWait), and
\* a waiter gets out of the flock loop: it takes the lock, is cancelled or its
\* process ends.  The polls are not fair among waiters, so this rests on the
\* commands before it being finitely many (MaxAcquire, MaxProbe).
WaiterProceeds ==
  /\ [](\A p \in Proc : said[p] <= 1)
  /\ \A p \in Proc : pc[p] \in {"try", "wait"} ~> pc[p] \notin {"try", "wait"}

\* What the callers are promised, whatever the count and the flock say: from
\* the return of a process's Acquire to the first call of the release function
\* it returned, no other process's Acquire returns one.  A level that is
\* miscounted, a release that counts twice or an answer of flock misread would
\* let a second process in while the first is still to give a grant back.
Granted == {g \in Proc \X (1..MaxAcquire) : g[2] \in live[g[1]]}
Abstract == INSTANCE Mutex WITH Client <- Proc, Grant <- 1..MaxAcquire, out <- Granted
AbstractSpec == Abstract!Spec

=============================================================================
