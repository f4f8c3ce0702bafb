------------------------------- MODULE Batch -------------------------------
(***************************************************************************)
(* The runner behind every verb that touches many devices                   *)
(* (internal/devconf/batch/batch.go): a dispatcher, a pool of workers and   *)
(* one channel of results between them, with the first job of every shape   *)
(* as the canary of the others, a pause between devices, a failure budget,  *)
(* a stop at the first rejected login, and two-stage interrupts.            *)
(*                                                                         *)
(* The dispatcher's own variables are the record run, because one of its    *)
(* steps is a chain of calls that each change it (interrupt, then settle,   *)
(* then skipShape, then stop).  A job is its place in the list, a result is *)
(* its status.                                                              *)
(***************************************************************************)
EXTENDS Integers, Sequences, FiniteSets

CONSTANTS
  N,            \* jobs
  NoShape,      \* the shape of a job that has none
  Asked,        \* the batches Run is asked to do, see Batches
  StopOnAuth,   \* Options.StopOnAuthFailure
  MaxSignals,   \* interrupts the operator gives
  Cancels       \* whether Run's own context may be cancelled (SIGTERM, SIGHUP)

Job == 1 .. N
Ran == {"ok", "failed", "auth-failed", "timeout", "interrupted"}
Status == Ran \cup {"not-started", "skipped"}
Failure == Ran \ {"ok"}
None == "none"

(* One call of Run: the shape of each job and the progress steps and marks  *)
(* it reports at most, the workers (PoolSize), and Options.Canary, .Pause   *)
(* (whether it is above 0) and .MaxFailures (0 for none).                    *)
ASSUME BatchAssumption ==
  /\ N \in Nat \ {0}
  /\ \A b \in Asked :
       /\ DOMAIN b = {"shape", "steps", "pool", "canary", "pause", "maxFailures"}
       /\ DOMAIN b.shape = Job /\ b.steps \in Nat /\ b.pool \in Job
       /\ b.canary \in BOOLEAN /\ b.pause \in BOOLEAN /\ b.maxFailures \in Nat
  /\ StopOnAuth \in BOOLEAN /\ Cancels \in BOOLEAN /\ MaxSignals \in Nat

VARIABLES
  pc,        \* the dispatcher: "fill", "select" or "end"
  run,       \* its variables, see Runs
  work,      \* each job's goroutine: "idle", "do", the status it has to send, "gone"
  steps,     \* progress steps and marks each job has reported
  results,   \* the channel of messages, of capacity N
  sleeper,   \* the pause's goroutine: "idle", "asleep", "slept", "cut" (woken early)
  ints,      \* interrupts waiting in Options.Interrupts
  given,     \* interrupts the operator gave so far
  ctxDone,   \* Run's context was cancelled
  runDone    \* runCtx, its child, is cancelled: the jobs' contexts are too

vars == <<pc, run, work, steps, results, sleeper, ints, given, ctxDone, runDone>>

(* state, entry and row are the job's state in Run, its Summary entry and   *)
(* its row on the Board; failed is both sum.Failed and failures, which are  *)
(* counted together; parent is TRUE until Run's cancellation was taken.      *)
(* asked is what Run was called with, and rest is history: how the last      *)
(* pause stands to the last job that ended.                                  *)
Runs ==
  [asked : Asked, state : [Job -> {"unstarted", "running", "settled"}],
   entry : [Job -> Status \cup {None}],
   row : [Job -> Status \cup {"queued", "running"}],
   running : 0 .. N, shapeOK : SUBSET UNION {{b.shape[i] : i \in Job} : b \in Asked},
   stop : {None, "interrupted", "max-failures", "auth-failure"},
   interrupted : BOOLEAN, parent : BOOLEAN,
   pausing : BOOLEAN, owed : BOOLEAN,
   ok : 0 .. N, failed : 0 .. N, auth : 0 .. N, notStarted : 0 .. N, skipped : 0 .. N,
   rest : {"rested", "resting", "due"}]

Msg == [job : Job, kind : {"step", "mark", "end"}, status : Ran \cup {None}]

-----------------------------------------------------------------------------
Shape == run.asked.shape
MaxSteps == run.asked.steps
Pool == run.asked.pool
Canary == run.asked.canary
Pause == run.asked.pause
MaxFailures == run.asked.maxFailures

\* The first job of a shape.
IsCanary(i) ==
  Canary /\ Shape[i] # NoShape /\ \A j \in Job : j < i => Shape[j] # Shape[i]

\* pick: an unstarted canary, else the first unstarted job that waits on none.
Picks ==
  LET unstarted == {i \in Job : run.state[i] = "unstarted"}
      canaries == {i \in unstarted : IsCanary(i)}
      free == {i \in unstarted : ~Canary \/ Shape[i] = NoShape \/ Shape[i] \in run.shapeOK}
      from == IF canaries # {} THEN canaries ELSE free
  IN {i \in from : \A j \in from : i <= j}

\* settle, for a set of jobs that were not attempted.
SettleAll(r, jobs, status) ==
  [r EXCEPT !.state = [i \in Job |-> IF i \in jobs THEN "settled" ELSE @[i]],
            !.entry = [i \in Job |-> IF i \in jobs THEN status ELSE @[i]],
            !.row = [i \in Job |-> IF i \in jobs THEN status ELSE @[i]]]

Unstarted(r) == {i \in Job : r.state[i] = "unstarted"}

\* stop: the first reason counts, and it ends a pause at once.
StopFor(r, why) ==
  IF r.stop # None THEN r
  ELSE LET left == Unstarted(r)
       IN [SettleAll(r, left, "not-started")
             EXCEPT !.stop = why, !.pausing = FALSE, !.notStarted = @ + Cardinality(left)]

Interrupt(r) == StopFor([r EXCEPT !.interrupted = TRUE], "interrupted")

\* skipShape: the followers of a canary that did not succeed.
SkipShape(r, c) ==
  LET followers == {i \in Unstarted(r) : ~IsCanary(i) /\ Shape[i] = Shape[c]}
  IN [SettleAll(r, followers, "skipped") EXCEPT !.skipped = @ + Cardinality(followers)]

\* (mutant) A job that ends during a pause owes none of its own.
EndedInPause(r, i, status) ==
  [r EXCEPT !.running = @ - 1, !.owed = ~r.pausing, !.rest = "due",
            !.state[i] = "settled", !.entry[i] = status, !.row[i] = status,
            !.ok = IF status = "ok" THEN @ + 1 ELSE @,
            !.failed = IF status \in Failure THEN @ + 1 ELSE @,
            !.auth = IF status = "auth-failed" THEN @ + 1 ELSE @]

\* The entry, the counts and the row of a job that returned.
Ended(r, i, status) ==
  [r EXCEPT !.running = @ - 1, !.owed = TRUE, !.rest = "due",
            !.state[i] = "settled", !.entry[i] = status, !.row[i] = status,
            !.ok = IF status = "ok" THEN @ + 1 ELSE @,
            !.failed = IF status \in Failure THEN @ + 1 ELSE @,
            !.auth = IF status = "auth-failed" THEN @ + 1 ELSE @]

\* (mutant) A failed canary leaves its followers waiting.
AfterCanaryNoSkip(r, i, status) ==
  IF IsCanary(i) /\ status = "ok" THEN [r EXCEPT !.shapeOK = @ \cup {Shape[i]}] ELSE r

AfterCanary(r, i, status) ==
  IF ~IsCanary(i) THEN r
  ELSE IF status = "ok" THEN [r EXCEPT !.shapeOK = @ \cup {Shape[i]}]
  ELSE SkipShape(r, i)

\* (mutant) The budget is off by one.
AfterFailureLate(r, status) ==
  IF status = "auth-failed" /\ StopOnAuth THEN StopFor(r, "auth-failure")
  ELSE IF MaxFailures > 0 /\ r.failed > MaxFailures /\ status \in Failure
       THEN StopFor(r, "max-failures")
  ELSE r

AfterFailure(r, status) ==
  IF status = "auth-failed" /\ StopOnAuth THEN StopFor(r, "auth-failure")
  ELSE IF MaxFailures > 0 /\ r.failed >= MaxFailures /\ status \in Failure
       THEN StopFor(r, "max-failures")
  ELSE r

-----------------------------------------------------------------------------
Init ==
  /\ pc = "fill"
  /\ \E b \in Asked :
     run = [asked |-> b, state |-> [i \in Job |-> "unstarted"], entry |-> [i \in Job |-> None],
            row |-> [i \in Job |-> "queued"], running |-> 0, shapeOK |-> {},
            stop |-> None, interrupted |-> FALSE, parent |-> TRUE,
            pausing |-> FALSE, owed |-> FALSE,
            ok |-> 0, failed |-> 0, auth |-> 0, notStarted |-> 0, skipped |-> 0,
            rest |-> "rested"]
  /\ work = [i \in Job |-> "idle"] /\ steps = [i \in Job |-> 0]
  /\ results = <<>> /\ sleeper = "idle"
  /\ ints = 0 /\ given = 0 /\ ctxDone = FALSE /\ runDone = FALSE

MayStart == run.stop = None /\ ~run.pausing /\ run.running < Pool

Start(i) ==
  /\ pc = "fill" /\ MayStart /\ i \in Picks
  /\ ~(run.owed /\ Pause)
  /\ run' = [run EXCEPT !.owed = FALSE, !.state[i] = "running", !.row[i] = "running",
                        !.running = @ + 1]
  /\ work' = [work EXCEPT ![i] = "do"]
  /\ UNCHANGED <<pc, steps, results, sleeper, ints, given, ctxDone, runDone>>

BeginPause ==
  /\ pc = "fill" /\ MayStart /\ Picks # {} /\ run.owed /\ Pause
  /\ run' = [run EXCEPT !.owed = FALSE, !.pausing = TRUE, !.rest = "resting"]
  /\ sleeper' = "asleep" /\ pc' = "select"
  /\ UNCHANGED <<work, steps, results, ints, given, ctxDone, runDone>>

FillDone ==
  /\ pc = "fill" /\ ~(MayStart /\ Picks # {})
  /\ pc' = IF run.running = 0 /\ ~run.pausing THEN "end" ELSE "select"
  /\ UNCHANGED <<run, work, steps, results, sleeper, ints, given, ctxDone, runDone>>

\* (mutant) The cancellation is taken in its own turn.
NoticeLater(r) == r

\* A cancellation that came before the message is noticed first.
NoticeFirst(r) == IF ctxDone /\ r.parent THEN Interrupt([r EXCEPT !.parent = FALSE]) ELSE r

TakeResult ==
  /\ pc = "select" /\ results # <<>>
  /\ LET m == Head(results)
         r == NoticeFirst(run)
     IN run' = IF m.kind = "mark" THEN r
               ELSE IF m.kind = "step" THEN [r EXCEPT !.row[m.job] = "running"]
               ELSE AfterFailure(AfterCanary(Ended(r, m.job, m.status), m.job, m.status), m.status)
  /\ results' = Tail(results) /\ pc' = "fill"
  /\ sleeper' = IF run'.pausing THEN sleeper ELSE "idle"
  /\ UNCHANGED <<work, steps, ints, given, ctxDone, runDone>>

TakePause ==
  /\ pc = "select" /\ run.pausing /\ sleeper \in {"slept", "cut"}
  /\ run' = [run EXCEPT !.pausing = FALSE,
                        !.rest = IF sleeper = "slept" /\ @ = "resting" THEN "rested" ELSE @]
  /\ sleeper' = "idle" /\ pc' = "fill"
  /\ UNCHANGED <<work, steps, results, ints, given, ctxDone, runDone>>

\* The first interrupt stops new jobs, the second cancels the running ones.
TakeInterrupt ==
  /\ pc = "select" /\ ints > 0
  /\ ints' = ints - 1
  /\ run' = Interrupt(run)
  /\ runDone' = (runDone \/ run.interrupted)
  /\ sleeper' = IF run'.pausing THEN sleeper ELSE "idle"
  /\ pc' = "fill"
  /\ UNCHANGED <<work, steps, results, given, ctxDone>>

TakeCancel ==
  /\ pc = "select" /\ ctxDone /\ run.parent
  /\ run' = Interrupt([run EXCEPT !.parent = FALSE])
  /\ sleeper' = IF run'.pausing THEN sleeper ELSE "idle"
  /\ pc' = "fill"
  /\ UNCHANGED <<work, steps, results, ints, given, ctxDone, runDone>>

-----------------------------------------------------------------------------
\* runJob: a failure that came with a cancelled run or an expired deadline.
Settled(raw, late) ==
  LET r == IF raw = "ok-with-error" THEN "failed" ELSE raw
  IN IF r # "failed" THEN r
     ELSE IF runDone THEN "interrupted" ELSE IF late THEN "timeout" ELSE "failed"

Finish(i) ==
  /\ work[i] = "do"
  /\ \E raw \in {"ok", "ok-with-error", "failed", "auth-failed"}, late \in BOOLEAN :
        work' = [work EXCEPT ![i] = Settled(raw, late)]
  /\ UNCHANGED <<pc, run, steps, results, sleeper, ints, given, ctxDone, runDone>>

\* (mutant) The end is given up when the run is cancelled, as a step is.
SendEndOrNot(i) ==
  /\ work[i] \in Ran /\ Len(results) < N
  /\ \/ results' = Append(results, [job |-> i, kind |-> "end", status |-> work[i]])
     \/ runDone /\ results' = results
  /\ work' = [work EXCEPT ![i] = "gone"]
  /\ UNCHANGED <<pc, run, steps, sleeper, ints, given, ctxDone, runDone>>

SendEnd(i) ==
  /\ work[i] \in Ran /\ Len(results) < N
  /\ results' = Append(results, [job |-> i, kind |-> "end", status |-> work[i]])
  /\ work' = [work EXCEPT ![i] = "gone"]
  /\ UNCHANGED <<pc, run, steps, sleeper, ints, given, ctxDone, runDone>>

\* Progress and Mark wait for room in the channel or for the end of the run.
Report(i) ==
  /\ work[i] = "do" /\ steps[i] < MaxSteps
  /\ steps' = [steps EXCEPT ![i] = @ + 1]
  /\ \/ /\ Len(results) < N
        /\ \E kind \in {"step", "mark"} :
              results' = Append(results, [job |-> i, kind |-> kind, status |-> None])
     \/ runDone /\ results' = results
  /\ UNCHANGED <<pc, run, work, sleeper, ints, given, ctxDone, runDone>>

\* The pause's timer, or the end of its context, which is a child of runCtx.
Wake ==
  /\ sleeper = "asleep"
  /\ sleeper' \in {"slept"} \cup (IF runDone THEN {"cut"} ELSE {})
  /\ UNCHANGED <<pc, run, work, steps, results, ints, given, ctxDone, runDone>>

\* batchInterrupts: a SIGINT is one value of a buffered channel, full or not.
Signal ==
  /\ pc # "end" /\ given < MaxSignals
  /\ given' = given + 1 /\ ints' = IF ints < 4 THEN ints + 1 ELSE ints
  /\ UNCHANGED <<pc, run, work, steps, results, sleeper, ctxDone, runDone>>

\* SIGTERM or SIGHUP: Run's context ends, and runCtx with it.
Cancel ==
  /\ pc # "end" /\ Cancels /\ ~ctxDone
  /\ ctxDone' = TRUE /\ runDone' = TRUE
  /\ UNCHANGED <<pc, run, work, steps, results, sleeper, ints, given>>

Dispatch ==
  \/ \E i \in Job : Start(i)
  \/ BeginPause
  \/ FillDone
  \/ TakeResult
  \/ TakePause
  \/ TakeInterrupt
  \/ TakeCancel

Worker(i) == Finish(i) \/ SendEnd(i)

Next ==
  \/ Dispatch
  \/ \E i \in Job : Finish(i)
  \/ \E i \in Job : SendEnd(i)
  \/ \E i \in Job : Report(i)
  \/ Wake
  \/ Signal
  \/ Cancel

(* A job returns (it has a deadline and honours its context), a pause ends, *)
(* and the dispatcher's goroutine runs.                                      *)
Fairness == WF_vars(Dispatch) /\ WF_vars(Wake) /\ \A i \in Job : WF_vars(Worker(i))

Spec == Init /\ [][Next]_vars
LiveSpec == Spec /\ Fairness

-----------------------------------------------------------------------------
TypeOK ==
  /\ pc \in {"fill", "select", "end"}
  /\ run \in Runs
  /\ work \in [Job -> {"idle", "do", "gone"} \cup Ran]
  /\ steps \in [Job -> 0 .. MaxSteps]
  /\ results \in Seq(Msg)
  /\ sleeper \in {"idle", "asleep", "slept", "cut"}
  /\ ints \in 0 .. 4 /\ given \in 0 .. MaxSignals
  /\ ctxDone \in BOOLEAN /\ runDone \in BOOLEAN

CountOf(S) == Cardinality({i \in Job : run.entry[i] \in S})

(* The state has its types.  A job's row on the board tells its last word:  *)
(* a progress step never repaints a job that ended.  When Run returns,      *)
(* every job of the list has exactly one result: nobody is left waiting on  *)
(* a canary that was stopped, skipped or interrupted, no goroutine still    *)
(* has a result to send, and the counts of the Summary are the counts of    *)
(* its entries.                                                             *)
AllAccounted ==
  /\ TypeOK
  /\ \A i \in Job :
       /\ run.state[i] = "settled" => run.row[i] = run.entry[i]
       /\ run.state[i] = "unstarted" => run.row[i] = "queued"
  /\ pc = "end" =>
    /\ \A i \in Job : run.entry[i] # None /\ work[i] \in {"idle", "gone"}
    /\ results = <<>>
    /\ run.ok = CountOf({"ok"}) /\ run.failed = CountOf(Failure)
    /\ run.auth = CountOf({"auth-failed"})
    /\ run.notStarted = CountOf({"not-started"}) /\ run.skipped = CountOf({"skipped"})

(* A job that has a shape runs only after the first job of its shape ended  *)
(* with success, whatever the pool's width, the pauses and the order in     *)
(* which the results arrived; and a shape is skipped only because its       *)
(* canary failed by itself: a canary that was cut off by the end of the run *)
(* stops the run instead.                                                    *)
CanaryDecides ==
  \A i \in Job :
    LET canaries == {c \in Job \ {i} : IsCanary(c) /\ Shape[c] = Shape[i]} IN
    /\ work[i] # "idle" => \A c \in canaries : run.entry[c] = "ok"
    /\ run.entry[i] = "skipped" => \E c \in canaries : run.entry[c] \in Failure \ {"interrupted"}

(* What stops a run stops it in time: one Ctrl-C never cuts off a running    *)
(* job (that takes a second one, or the cancellation of Run's context), a    *)
(* failure budget is exceeded by the jobs already running at most, and a     *)
(* rejected password is tried on as many devices as there are workers.       *)
StopsAreKept ==
  /\ \A i \in Job : "interrupted" \in {run.entry[i], work[i]} => given > 1 \/ ctxDone
  /\ MaxFailures > 0 => run.failed < MaxFailures + Pool
  /\ StopOnAuth => run.auth <= Pool

(* Options.Pause: after a job ends a full pause passes before the next one  *)
(* starts, also when another job ends in the middle of the pause, unless     *)
(* Run's context was cancelled.                                              *)
FullPauseBeforeStart ==
  [][\A i \in Job : work[i] = "idle" /\ work'[i] = "do" =>
        ~Pause \/ ctxDone \/ run.rest = "rested"]_vars

\* Run returns, whatever the jobs, the interrupts and the cancellation do.
RunReturns == <>(pc = "end")
=============================================================================
