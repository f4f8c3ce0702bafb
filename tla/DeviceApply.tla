---------------------------- MODULE DeviceApply ----------------------------
(***************************************************************************)
(* 'tacctl device config apply' of one Junos device (internal/devapply, and *)
(* transact, settle, pending and keep of internal/cli/device_apply.go).    *)
(*                                                                         *)
(* A process is one tacctl command on the device: it settles the record an *)
(* earlier apply left, takes the device's lock, reads, loads the change in  *)
(* an exclusive session, checks it, commits it under the device's rollback *)
(* timer ('commit confirmed'), proves it on a fresh login and confirms it, *)
(* or cancels it, or leaves it to the timer.  Around it the device's timer *)
(* runs, other people commit and check, sessions drop, answers get lost,   *)
(* the person interrupts, and the process panics or is killed.             *)
(*                                                                         *)
(* The configuration is a set of facts: "c" is the change every process    *)
(* applies (the rendering), "x" is anything else.  Time is the time left:   *)
(* every deadline counts down with Tick.                                   *)
(***************************************************************************)
EXTENDS Integers, Sequences, FiniteSets

CONSTANTS
    Proc,            \* the tacctl commands
    Checker,         \* those that run the 'check' verb only
    NoOne,
    Window,          \* the confirmed commit's window, in ticks
    MinWindow,       \* Driver.MinWindow
    CancelMargin,    \* Driver.CancelMargin
    SettleSlack,     \* settleSlack
    ExpiryLag,       \* how late the device's own rollback may stand in the history
    HistKeep,        \* how many commits the device keeps (50; rollback 0 to 49)
    MaxStranger,     \* bound: commits and checks of other people
    StrangerOps,     \* which of "commit", "confirmed", "check" other people type
    CheckUnderLock,  \* whether the device lets another session's 'commit check'
                     \* through while the candidate is locked
    Silent,          \* whether a fresh login may print no banner
    Faults           \* which of "crash", "panic", "interrupt", "lost", "error" and
                     \* "write" (a record that cannot be written) happen

ASSUME ProcAssumption == NoOne \notin Proc /\ Checker \subseteq Proc
ASSUME TimeAssumption ==
    /\ Window \in Nat /\ MinWindow \in Nat \ {0} /\ CancelMargin \in Nat \ {0}
    /\ SettleSlack \in Nat \ {0} /\ ExpiryLag \in Nat
    /\ MinWindow <= Window /\ CancelMargin <= MinWindow
    \* settleSlack is there for the device's rollback to stand in the history
    /\ ExpiryLag < SettleSlack
ASSUME BoundAssumption ==
    /\ HistKeep \in Nat \ {0} /\ MaxStranger \in Nat
    /\ StrangerOps \subseteq {"commit", "confirmed", "check"}
    /\ CheckUnderLock \in BOOLEAN /\ Silent \in BOOLEAN
    /\ Faults \subseteq {"crash", "panic", "interrupt", "lost", "error", "write"}

VARIABLES
    \* the device
    hist,     \* the commits, oldest first: entry 0 of the device is the last
    pend,     \* the pending confirmed commit: its timer and what it goes back to
    excl,     \* whose session holds the exclusive candidate
    typed,    \* how many commits and checks other people have typed
    \* the server's files
    lock,     \* the flock on <dir>/locks/<device>.lock
    rec,      \* the device's 'applied' record
    \* the processes
    pc, loc, out,
    held,     \* Transport.Held(): the process takes its session for open
    intr,     \* the job's context is over
    \* history variable
    ground    \* what really became of each process's confirmed commit

device == <<hist, pend, excl, typed, ground>>
files  == <<lock, rec>>
vars   == <<hist, pend, excl, typed, lock, rec, pc, loc, out, held, intr, ground>>

-----------------------------------------------------------------------------
(* The device: Junos as internal/devssh/fakedev and the lab notes have it.  *)

Config == SUBSET {"c", "x"}

\* by: the process whose id the comment names, NoOne for other people.
\* "root" is an entry 'by root via other' without a comment: the device's own
\* rollback, or a commit of the system, which reads the same.
Entry == [by : Proc \cup {NoOne},
          kind : {"commit", "confirm", "cancel", "plain", "root"},
          cfg : Config]

NoPending == [on |-> FALSE, left |-> 0, before |-> {}]

Top == Len(hist)
Running == hist[Top].cfg
Rollback(k) == hist[Top - k].cfg

\* What ends a window decides the fate of every commit under it: the change is
\* kept or undone by what the device runs then; tacctl's own cancel also undoes
\* a change that someone else kept.
Fates(cfg, canceller) ==
    [q \in Proc |-> IF ground[q] = "pending" \/ q = canceller
                    THEN IF "c" \in cfg THEN "kept" ELSE "undone"
                    ELSE ground[q]]

\* commitApply for a commit: the pending window, if any, ends.
Commit(e) ==
    /\ hist' = Append(hist, e)
    /\ pend' = NoPending
    /\ ground' = Fates(e.cfg, IF e.kind = "cancel" THEN e.by ELSE NoOne)

\* commitApply for a 'commit check': it confirms a pending commit and leaves
\* no entry.
CommitCheck ==
    /\ pend' = NoPending
    /\ ground' = Fates(Running, NoOne)
    /\ UNCHANGED hist

\* commitApply for a confirmed commit of process p (NoOne: a stranger's): a
\* window that stood goes on to guard the configuration before it.
CommitUnderTimer(p, e) ==
    /\ hist' = Append(hist, e)
    /\ pend' = [on |-> TRUE, left |-> Window,
                before |-> IF pend.on THEN pend.before ELSE Running]
    /\ ground' = IF p \in Proc THEN [ground EXCEPT ![p] = "pending"] ELSE ground

\* The timer (expire): the device commits what it had before, as itself.
Expire ==
    /\ pend.on /\ pend.left <= 0
    /\ Commit([by |-> NoOne, kind |-> "root", cfg |-> pend.before])
    /\ UNCHANGED <<excl, typed, lock, rec, pc, loc, out, held, intr>>

\* Other people's sessions; an exclusive lock keeps them out (blocked).
Stranger(op) ==
    /\ op \in StrangerOps /\ typed < MaxStranger
    /\ typed' = typed + 1
    /\ UNCHANGED <<excl, lock, rec, pc, loc, out, held, intr>>

StrangerCommit ==
    /\ Stranger("commit") /\ excl = NoOne
    /\ \E cfg \in Config, k \in {"plain", "root"} :
          Commit([by |-> NoOne, kind |-> k, cfg |-> cfg])

StrangerConfirmed ==
    /\ Stranger("confirmed") /\ excl = NoOne
    /\ \E cfg \in Config : CommitUnderTimer(NoOne, [by |-> NoOne, kind |-> "plain", cfg |-> cfg])

StrangerCheck ==
    /\ Stranger("check") /\ (excl = NoOne \/ CheckUnderLock)
    /\ CommitCheck

-----------------------------------------------------------------------------
(* The process's own state.                                                *)

ZeroTime == -1

Fresh == [pre |-> 0,          \* run.pre: the commits there were (0: unknown)
          win |-> 0,          \* run.windowEnd, as the time left
          until |-> ZeroTime, \* Outcome.Until, as the time left with the slack
          cand |-> {},        \* the candidate of the held session
          bann |-> FALSE,     \* the banner of the held session's last prompt
          noBanner |-> FALSE, \* run.noBanner
          verified |-> FALSE, \* verify returned ""
          committing |-> FALSE,
          ok |-> FALSE,       \* the commit answered as it must
          \* the settle in progress: whose commit, the state read, a stranger's
          \* window over it, and what the rollback compares showed
          id |-> NoOne, len |-> 0, pending |-> FALSE, over |-> FALSE,
          after |-> FALSE, before |-> FALSE]

Goto(p, to) == pc' = [pc EXCEPT ![p] = to]
Set(p, l) == loc' = [loc EXCEPT ![p] = l]

\* The end of the driver's transaction at a named exit.
Finish(p, e) ==
    /\ out' = [out EXCEPT ![p] = e]
    /\ Goto(p, "unlock")

\* A step that leaves the device, the files and the exit alone.
Quiet == UNCHANGED <<device, files, out, held, intr>>

\* The session is closed: the device drops the lock and the candidate with it.
DropHeld(p) ==
    /\ held' = [held EXCEPT ![p] = FALSE]
    /\ excl' = IF excl = p THEN NoOne ELSE excl

\* Discard, then the exit: 'rollback 0' and 'exit', or the session closed.
Discard(p, e) ==
    /\ DropHeld(p)
    /\ Finish(p, e)
    /\ UNCHANGED <<hist, pend, ground, typed, files, loc, intr>>

\* The exit of a step that does not change the device or open a session.
Stop(p, e) ==
    /\ Finish(p, e)
    /\ UNCHANGED <<device, files, loc, held, intr>>

\* A failure before the commit is an interrupt when the context is over.
FailExit(p, e) == IF intr[p] THEN "interrupted" ELSE e

\* A read or a word can fail: the connection, the context, an answer that is
\* not the captured one.
Fails(p) == "error" \in Faults \/ intr[p]

\* The banner as a login of its own shows it.
FreshBanner == {pend.on} \cup (IF Silent THEN {FALSE} ELSE {})

\* Mutant: a window that ran short is a failure, which nothing settles.
ResultOfShort(e) ==
    CASE e = "checked" -> "checked"
      [] e = "no-change" -> "no-change"
      [] e = "pending" -> "pending"
      [] e \in {"applied", "applied-by-other"} -> "applied"
      [] e = "rolled-back" -> "rolled-back"
      [] e = "unknown" -> "unknown"
      [] OTHER -> "failed"

\* What 'resultOf' puts in the record for an exit.
ResultOf(e) ==
    CASE e = "checked" -> "checked"
      [] e = "no-change" -> "no-change"
      [] e \in {"pending", "window-short"} -> "pending"
      [] e \in {"applied", "applied-by-other"} -> "applied"
      [] e = "rolled-back" -> "rolled-back"
      [] e = "unknown" -> "unknown"
      [] OTHER -> "failed"

-----------------------------------------------------------------------------
(* settle: what the commit history says of an apply.                        *)

\* The place of the confirmed commit of apply id among the first n commits, as
\* the device still shows them; 0 when it does not.
OursAt(id, n) ==
    LET S == {i \in 1..n : i > n - HistKeep /\ hist[i].kind = "commit" /\ hist[i].by = id}
    IN  IF S = {} THEN 0 ELSE CHOOSE i \in S : \A j \in S : j <= i

Verdict(e, facts, over) == [e |-> e, facts |-> facts, over |-> over]

\* Mutant: an entry by root is taken for the device's rollback.
FateByHistory(i, id) ==
    CASE hist[i + 1].kind = "confirm" /\ hist[i + 1].by = id -> Verdict("applied", FALSE, FALSE)
      [] hist[i + 1].kind \in {"cancel", "root"} -> Verdict("rolled-back", FALSE, FALSE)
      [] OTHER -> Verdict("unknown", TRUE, FALSE)

\* fate: the commit directly after ours (place i).
Fate(i, id) ==
    CASE hist[i + 1].kind = "confirm" /\ hist[i + 1].by = id -> Verdict("applied", FALSE, FALSE)
      [] hist[i + 1].kind = "cancel" /\ hist[i + 1].by = id -> Verdict("rolled-back", FALSE, FALSE)
      [] OTHER -> Verdict("unknown", TRUE, FALSE)

\* Mutant: no banner over tacctl's commit is a confirm, whatever the time.
SettleAtOnce(id, n, pending, pre, until) ==
    LET i == OursAt(id, n)
        f == Fate(i, id)
    IN  IF pending
        THEN IF i = n THEN Verdict("pending", FALSE, FALSE) ELSE Verdict("unknown", FALSE, FALSE)
        ELSE CASE i = 0 /\ pre = n -> Verdict("nothing-committed", FALSE, FALSE)
               [] i = 0 /\ pre # n -> Verdict("unknown", FALSE, FALSE)
               [] i = n -> Verdict("applied-by-other", TRUE, FALSE)
               [] OTHER -> f

\* settle over a state read: n commits and whether the banner stood.
Settle(id, n, pending, pre, until) ==
    LET i == OursAt(id, n)
        f == Fate(i, id)
    IN  IF pending
        THEN CASE i = n -> Verdict("pending", FALSE, FALSE)
               [] i \in {0, n - 1} -> Verdict("unknown", FALSE, FALSE)
               [] i \notin {0, n - 1, n} /\ f.e = "unknown" /\ hist[i + 1].kind # "root" ->
                     Verdict("unknown", FALSE, FALSE)
               [] OTHER -> [f EXCEPT !.over = TRUE]
        ELSE CASE i = 0 /\ pre = n -> Verdict("nothing-committed", FALSE, FALSE)
               [] i = 0 /\ pre # n -> Verdict("unknown", FALSE, FALSE)
               [] i = n /\ until = ZeroTime -> Verdict("unknown", FALSE, FALSE)
               [] i = n /\ until > 0 -> Verdict("pending", FALSE, FALSE)
               [] i = n /\ until # ZeroTime /\ until <= 0 -> Verdict("applied-by-other", TRUE, FALSE)
               [] OTHER -> f

\* byRollbacks can compare: the commit and the one before it are kept.
Comparable(id, n) == OursAt(id, n) > 0 /\ OursAt(id, n) - 1 > n - HistKeep /\ OursAt(id, n) > 1

\* The commit of apply id, counted from the newest as it was read.
Place(p) == loc[p].len - OursAt(loc[p].id, loc[p].len)

\* 'compare rollback k' is empty: the configuration is what rollback k holds.
SameAs(k) == Running = Rollback(k)

OursOnTop(p) == hist[Top].kind = "commit" /\ hist[Top].by = p

\* A compare shows the reviewed change and nothing else.
ShowsChange(before, after) == after = before \cup {"c"} /\ "c" \notin before

-----------------------------------------------------------------------------
(* The command before the driver: cli transact and its settle.             *)

\* settle loads the record: one that is settled lets the command go on.
Begin(p) ==
    /\ pc[p] = "idle"
    /\ IF rec.res \in {"pending", "unknown"}
       THEN Set(p, [Fresh EXCEPT !.id = rec.id, !.until = rec.until]) /\ Goto(p, "reconcile")
       ELSE Set(p, Fresh) /\ Goto(p, "lock")
    /\ Quiet

\* The command ends without a transaction: transact's 'fail', nothing is kept.
Refused(p) ==
    /\ out' = [out EXCEPT ![p] = "refused"]
    /\ Goto(p, "done")
    /\ UNCHANGED <<device, files, loc, held, intr>>

\* The end of settle: a fate that is known replaces the record.
Reconciled(p, e) ==
    IF e \in {"pending", "unknown"}
    THEN Refused(p)
    ELSE /\ rec' \in {[id |-> loc[p].id, res |-> ResultOf(e), until |-> ZeroTime]}
                     \cup (IF "write" \in Faults THEN {rec} ELSE {})
         /\ Set(p, Fresh)
         /\ Goto(p, "lock")
         /\ UNCHANGED <<device, lock, out, held, intr>>

\* named: the driver's exit, and the end of the window the record keeps.
Named(p, e, l) ==
    /\ Set(p, [l EXCEPT !.until =
                  IF e \in {"nothing-committed", "applied", "applied-by-other", "rolled-back"} /\ ~l.over
                  THEN ZeroTime ELSE @])
    /\ Finish(p, e)
    /\ IF e = "nothing-committed" THEN DropHeld(p) ELSE UNCHANGED <<held, excl>>
    /\ UNCHANGED <<hist, pend, ground, typed, files, intr>>

Decide(p, e) == IF loc[p].id = p THEN Named(p, e, loc[p]) ELSE Reconciled(p, e)

\* settle over a state that was read: the history's word, or the rollbacks.
\* A stranger's window over tacctl's fate ends with its banner's minutes.
SettleRead(p, id, banner) ==
    LET v == Settle(id, Top, banner, IF id = p THEN loc[p].pre ELSE 0, loc[p].until)
        l == [loc[p] EXCEPT !.id = id, !.len = Top, !.pending = banner, !.over = v.over,
                            !.until = IF v.over THEN pend.left + 1 + SettleSlack ELSE @]
    IN  IF v.facts
        THEN Set(p, l) /\ Goto(p, "compareAfter") /\ Quiet
        ELSE IF id = p THEN Named(p, v.e, l) ELSE Reconciled(p, v.e)

\* Reconcile: the device is dialled and its state read.
Reconcile(p) ==
    /\ pc[p] = "reconcile"
    /\ \/ "error" \in Faults /\ Refused(p)
       \/ \E b \in FreshBanner : SettleRead(p, loc[p].id, b)

\* byRollbacks: the two compares, each against the rollbacks as they are then.
CompareAfter(p) ==
    /\ pc[p] = "compareAfter"
    /\ \/ (~Comparable(loc[p].id, loc[p].len) \/ Fails(p)) /\ Decide(p, "unknown")
       \/ /\ Comparable(loc[p].id, loc[p].len)
          /\ Set(p, [loc[p] EXCEPT !.after = SameAs(Place(p))])
          /\ Goto(p, "compareBefore")
          /\ Quiet

CompareBefore(p) ==
    /\ pc[p] = "compareBefore"
    /\ \/ Fails(p) /\ Decide(p, "unknown")
       \/ /\ Set(p, [loc[p] EXCEPT !.before = SameAs(Place(p) + 1)])
          /\ Goto(p, "compareAgain")
          /\ Quiet

\* What the two compares say together.
Compared(p) ==
    CASE loc[p].after = loc[p].before -> "unknown"
      [] loc[p].after /\ ~loc[p].before -> "applied-by-other"
      [] ~loc[p].after /\ loc[p].before -> "rolled-back"

\* Mutant: the compares are believed without the second look at the history.
CompareAgainTrusting(p) ==
    /\ pc[p] = "compareAgain"
    /\ Decide(p, Compared(p))

\* byRollbacks: the state once more; a history that moved proves nothing.
CompareAgain(p) ==
    /\ pc[p] = "compareAgain"
    /\ \/ Fails(p) /\ Decide(p, "unknown")
       \/ \E b \in FreshBanner :
             Decide(p, IF b # loc[p].pending \/ Top # loc[p].len THEN "unknown" ELSE Compared(p))

-----------------------------------------------------------------------------
(* The driver's transaction up to the confirmed commit.                    *)

\* Mutant: the answer of the flock call is not looked at.
TakeLockUnchecked(p) ==
    /\ pc[p] = "lock"
    /\ lock' = p
    /\ Set(p, [Fresh EXCEPT !.id = p])
    /\ Goto(p, "preflight")
    /\ UNCHANGED <<device, rec, out, held, intr>>

\* The dial, and LockDevice, which never waits: a lock that is held ends the
\* transaction before it has an id.
TakeLock(p) ==
    /\ pc[p] = "lock"
    /\ \/ "error" \in Faults /\ Refused(p)
       \/ lock # NoOne /\ Stop(p, "failed")
       \/ /\ lock = NoOne
          /\ lock' = p
          /\ Set(p, [Fresh EXCEPT !.id = p])
          /\ Goto(p, "preflight")
          /\ UNCHANGED <<device, rec, out, held, intr>>

Preflight(p) ==
    /\ pc[p] = "preflight"
    /\ \/ (pend.on \/ Fails(p)) /\ Stop(p, "failed")
       \/ ~pend.on /\ Set(p, [loc[p] EXCEPT !.pre = Top]) /\ Goto(p, "read") /\ Quiet

\* READ, ALLOW and GATE: an apply fails on a delta that is not the reviewed one,
\* the empty one of a device that has the change by now included; to a check it
\* is no change.  The allow-list or the gate may refuse.
Read(p) ==
    /\ pc[p] = "read"
    /\ \/ Fails(p) /\ Stop(p, "failed")
       \/ "c" \in Running /\ Stop(p, IF p \in Checker THEN "no-change" ELSE "failed")
       \/ "c" \notin Running /\ intr[p] /\ Stop(p, "interrupted")
       \/ "c" \notin Running /\ ~intr[p] /\ Goto(p, "open") /\ UNCHANGED loc /\ Quiet

\* 'configure exclusive': refused while anyone else holds the candidate.
Enter(p) ==
    /\ excl = NoOne
    /\ excl' = p
    /\ held' = [held EXCEPT ![p] = TRUE]

\* The candidate once every line of the delta is typed.
Loaded == Running \cup {"c"}

\* OPEN: 'configure exclusive', and the LOAD of the delta into the candidate.
OpenLoad(p) ==
    /\ pc[p] = "open"
    /\ \/ (excl # NoOne \/ Fails(p)) /\ Stop(p, "failed")
       \/ /\ Enter(p)
          /\ Set(p, [loc[p] EXCEPT !.cand = Loaded])
          /\ Goto(p, "compare")
          /\ UNCHANGED <<hist, pend, ground, typed, files, out, intr>>

\* COMPARE: the candidate must hold the delta and nothing else.
Compare(p) ==
    /\ pc[p] = "compare"
    /\ \/ (excl # p \/ Fails(p)) /\ Discard(p, FailExit(p, "failed-load"))
       \/ excl = p /\ loc[p].cand = Running /\ Discard(p, "no-change")
       \/ /\ excl = p /\ loc[p].cand # Running /\ ~ShowsChange(Running, loc[p].cand)
          /\ Discard(p, "failed-load")
       \/ /\ excl = p /\ ShowsChange(Running, loc[p].cand)
          /\ Set(p, [loc[p] EXCEPT !.bann = pend.on])
          /\ Goto(p, "checkState")
          /\ Quiet

CheckState(p) ==
    /\ pc[p] = "checkState"
    /\ \/ Fails(p) /\ Discard(p, FailExit(p, "failed-check"))
       \/ pend.on /\ Discard(p, "failed-check")
       \/ ~pend.on /\ Goto(p, "check") /\ UNCHANGED loc /\ Quiet

\* Mutant: the prompt of the held session is not looked at.
CheckBlind(p) ==
    /\ pc[p] = "check" /\ excl = p
    /\ CommitCheck
    /\ Goto(p, "commit")
    /\ UNCHANGED <<excl, typed, files, loc, out, held, intr>>

\* CHECK: not typed when the held session's last prompt showed the banner.
Check(p) ==
    /\ pc[p] = "check"
    /\ \/ (loc[p].bann \/ excl # p \/ Fails(p)) /\ Discard(p, FailExit(p, "failed-check"))
       \/ /\ ~loc[p].bann /\ excl = p
          /\ CommitCheck
          /\ IF p \in Checker \/ intr[p]
             THEN /\ DropHeld(p)
                  /\ Finish(p, IF p \in Checker THEN "checked" ELSE "interrupted")
             ELSE Goto(p, "commit") /\ UNCHANGED <<excl, held, out>>
          /\ UNCHANGED <<typed, files, loc, intr>>

\* COMMIT-C: the state right before, and the confirmed commit typed.
TypeCommit(p) ==
    /\ pc[p] = "commit"
    /\ \/ Fails(p) /\ Discard(p, FailExit(p, "failed-check"))
       \/ pend.on /\ Discard(p, "failed-check")
       \/ /\ ~pend.on
          /\ Set(p, [loc[p] EXCEPT !.pre = Top, !.committing = TRUE, !.win = Window])
          /\ Goto(p, "landing")
          /\ Quiet

\* The device takes the commit, and may answer as it must; or it takes none.
\* A word whose answer is lost closes the session (runHeld).
Land(p) ==
    /\ pc[p] = "landing"
    /\ \/ /\ excl = p
          /\ CommitUnderTimer(p, [by |-> p, kind |-> "commit", cfg |-> loc[p].cand])
          /\ \/ Set(p, [loc[p] EXCEPT !.ok = TRUE]) /\ UNCHANGED <<excl, held>>
             \/ Fails(p) /\ UNCHANGED <<loc, excl, held>>
             \/ Fails(p) /\ UNCHANGED loc /\ DropHeld(p)
       \/ /\ excl # p \/ Fails(p)
          /\ DropHeld(p)
          /\ UNCHANGED <<hist, pend, ground, loc>>
       \/ /\ Fails(p)
          /\ UNCHANGED <<hist, pend, ground, excl, held, loc>>
    /\ Goto(p, "answer")
    /\ UNCHANGED <<typed, files, out, intr>>

\* The record of a confirmed commit that was typed (cli pending).
PendingRecord(p) == [id |-> p, res |-> "pending", until |-> Window + SettleSlack]

\* The answer: the window's end, and the record Input.Committed writes (cli
\* pending), whose failure is said and changes nothing else.
Answer(p) ==
    /\ pc[p] = "answer"
    /\ Set(p, [loc[p] EXCEPT !.until = Window + SettleSlack, !.cand = {}])
    /\ \/ rec' = PendingRecord(p)
       \/ "write" \in Faults /\ UNCHANGED rec
    /\ Goto(p, IF loc[p].ok THEN "freshLogin" ELSE "readState")
    /\ UNCHANGED <<device, lock, out, held, intr>>

-----------------------------------------------------------------------------
(* The driver after the confirmed commit.                                  *)

\* verify: the fresh login and its state.
FreshLogin(p) ==
    /\ pc[p] = "freshLogin"
    /\ \/ Fails(p) /\ Goto(p, "cancel") /\ UNCHANGED loc
       \/ \E b \in FreshBanner :
             IF OursOnTop(p)
             THEN Set(p, [loc[p] EXCEPT !.noBanner = ~b]) /\ Goto(p, "landed")
             ELSE Goto(p, "cancel") /\ UNCHANGED loc
    /\ Quiet

\* verify: 'compare rollback 1' is the change the check showed.
Landed(p) ==
    /\ pc[p] = "landed"
    /\ \/ Fails(p) /\ Goto(p, "cancel")
       \/ Goto(p, IF ShowsChange(Rollback(1), Running) THEN "converged" ELSE "cancel")
    /\ UNCHANGED loc
    /\ Quiet

\* verify: the convergence read lacks nothing, and the hold was confirmed.
Converged(p) ==
    /\ pc[p] = "converged"
    /\ \/ Fails(p) /\ Goto(p, "cancel") /\ UNCHANGED loc
       \/ "c" \notin Running /\ Goto(p, "cancel") /\ UNCHANGED loc
       \/ /\ "c" \in Running
          /\ Set(p, [loc[p] EXCEPT !.verified = TRUE])
          /\ Goto(p, IF loc[p].noBanner THEN "byOther" ELSE "window")
    /\ Quiet

\* confirmedByOther: the held login's state must agree.
ConfirmedByOther(p) ==
    /\ pc[p] = "byOther"
    /\ \/ (Fails(p) \/ (pend.on /\ OursOnTop(p))) /\ Goto(p, "cancel") /\ UNCHANGED loc /\ Quiet
       \/ ~OursOnTop(p) /\ SettleRead(p, p, pend.on)
       \/ /\ ~pend.on /\ OursOnTop(p)
          /\ Set(p, [loc[p] EXCEPT !.until = ZeroTime])
          /\ DropHeld(p)
          /\ Finish(p, "applied-by-other")
          /\ UNCHANGED <<hist, pend, ground, typed, files, intr>>

WindowCheck(p) ==
    /\ pc[p] = "window"
    /\ IF loc[p].win < MinWindow
       THEN Stop(p, "window-short")
       ELSE Goto(p, IF intr[p] THEN "cancel" ELSE "confirm") /\ UNCHANGED loc /\ Quiet

\* Mutant: a lost session is opened again for the confirm.
ConfirmReopened(p) ==
    /\ pc[p] = "confirm" /\ excl \in {p, NoOne}
    /\ Commit([by |-> p, kind |-> "confirm", cfg |-> Running])
    /\ Goto(p, "name")
    /\ UNCHANGED <<excl, typed, files, loc, out, held, intr>>

\* CONFIRM, in the session that committed; then the state is read and named,
\* whatever it answered.
Confirm(p) ==
    /\ pc[p] = "confirm"
    /\ \/ /\ excl = p
          /\ Commit([by |-> p, kind |-> "confirm", cfg |-> Running])
          /\ UNCHANGED <<excl, held>>
       \/ /\ excl # p \/ Fails(p)
          /\ DropHeld(p)
          /\ UNCHANGED <<hist, pend, ground>>
    /\ Goto(p, "name")
    /\ UNCHANGED <<typed, files, loc, out, intr>>

\* readState and record: the state is read and named; a pending commit whose
\* answer was not the one it must be is cancelled first.
ReadState(p) ==
    /\ pc[p] \in {"readState", "name"}
    /\ \/ Fails(p) /\ Stop(p, "unknown")
       \/ \E b \in FreshBanner :
             IF pc[p] = "readState" /\ Settle(p, Top, b, loc[p].pre, loc[p].until).e = "pending"
             THEN Goto(p, "cancel") /\ UNCHANGED loc /\ Quiet
             ELSE SettleRead(p, p, b)

\* cancel: only in the held session, only with the margin left, and only over
\* this apply's commit at entry 0.
Cancel(p) ==
    /\ pc[p] = "cancel"
    /\ \/ /\ ~held[p] \/ loc[p].win < CancelMargin
          /\ Goto(p, "name") /\ UNCHANGED loc /\ Quiet
       \/ /\ held[p] /\ loc[p].win >= CancelMargin
          /\ \/ Fails(p) /\ Stop(p, "unknown")
             \/ \E b \in FreshBanner :
                   IF OursOnTop(p)
                   THEN Set(p, [loc[p] EXCEPT !.pending = b]) /\ Goto(p, "undo") /\ Quiet
                   ELSE SettleRead(p, p, b)

\* Mutant: what 'rollback 1' brought is committed, whatever it is.
UndoUnlooked(p) ==
    /\ pc[p] = "undo" /\ excl = p
    /\ Set(p, [loc[p] EXCEPT !.cand = Rollback(1)])
    /\ Goto(p, "undoCommit")
    /\ Quiet

\* undo: 'rollback 1', after which the banner must stand (Cancel) or must not
\* (Revert); anything else is discarded.
Undo(p) ==
    /\ pc[p] = "undo"
    /\ \/ /\ excl = p /\ pend.on = loc[p].pending
          /\ Set(p, [loc[p] EXCEPT !.cand = Rollback(1)])
          /\ Goto(p, "undoCompare")
          /\ UNCHANGED <<held, excl>>
       \/ /\ excl # p \/ pend.on # loc[p].pending \/ Fails(p)
          /\ DropHeld(p) /\ Goto(p, "name") /\ UNCHANGED loc
    /\ UNCHANGED <<hist, pend, ground, typed, files, out, intr>>

\* undo: the candidate must be the exact inverse of the change.
UndoCompare(p) ==
    /\ pc[p] = "undoCompare"
    /\ IF excl = p /\ ShowsChange(loc[p].cand, Running)
       THEN Goto(p, "undoCommit") /\ UNCHANGED <<held, excl>>
       ELSE DropHeld(p) /\ Goto(p, "name")
    /\ UNCHANGED <<hist, pend, ground, typed, files, loc, out, intr>>

UndoCommit(p) ==
    /\ pc[p] = "undoCommit"
    /\ \/ /\ excl = p
          /\ Commit([by |-> p, kind |-> "cancel", cfg |-> loc[p].cand])
          /\ UNCHANGED <<excl, held>>
       \/ /\ excl # p \/ Fails(p)
          /\ DropHeld(p)
          /\ UNCHANGED <<hist, pend, ground>>
    /\ Goto(p, "name")
    /\ UNCHANGED <<typed, files, loc, out, intr>>

-----------------------------------------------------------------------------
(* The end of the command, and what can end it early.                      *)

\* run's deferred calls: the lock first, then the transport.
Unlock(p) ==
    /\ pc[p] = "unlock"
    /\ lock' = IF lock = p THEN NoOne ELSE lock
    /\ Set(p, [Fresh EXCEPT !.id = loc[p].id, !.until = loc[p].until])
    /\ Goto(p, "close")
    /\ UNCHANGED <<device, rec, out, held, intr>>

Close(p) ==
    /\ pc[p] = "close"
    /\ DropHeld(p)
    /\ Goto(p, "keep")
    /\ UNCHANGED <<hist, pend, ground, typed, files, loc, out, intr>>

\* appliedOf: the record of the driver's outcome.
AppliedOf(p) ==
    [id |-> loc[p].id, res |-> ResultOf(out[p]),
     until |-> IF out[p] \in {"applied", "applied-by-other"} THEN ZeroTime ELSE loc[p].until]

\* keep: the record of the exit, whatever record stands; no change and an
\* interrupt before the commit leave the last one.
Keep(p) ==
    /\ pc[p] = "keep"
    /\ \/ /\ out[p] \notin {"no-change", "interrupted"}
          /\ rec' = AppliedOf(p)
       \/ /\ out[p] \in {"no-change", "interrupted"} \/ "write" \in Faults
          /\ UNCHANGED rec
    /\ Set(p, Fresh)
    /\ Goto(p, "done")
    /\ UNCHANGED <<device, lock, out, held, intr>>

\* Mutant: a panic leaves the window's end as the run had it.
PanicNoEnd(p) ==
    /\ "panic" \in Faults
    /\ lock = p /\ pc[p] # "unlock"
    /\ IF loc[p].committing
       THEN Finish(p, "unknown") /\ UNCHANGED <<device, files, loc, held, intr>>
       ELSE Discard(p, "failed")

\* guarded: a panic in the transaction.
Panic(p) ==
    /\ "panic" \in Faults
    /\ lock = p /\ pc[p] # "unlock"
    /\ IF loc[p].committing
       THEN /\ Set(p, [loc[p] EXCEPT !.until = IF @ = ZeroTime THEN Window + SettleSlack ELSE @])
            /\ Finish(p, "unknown")
            /\ UNCHANGED <<device, files, held, intr>>
       ELSE Discard(p, "failed")

Alive(p) == pc[p] \notin {"idle", "done", "dead"}

\* The process is killed: the kernel drops the lock, the device the session.
Crash(p) ==
    /\ "crash" \in Faults /\ Alive(p)
    /\ lock' = IF lock = p THEN NoOne ELSE lock
    /\ DropHeld(p)
    /\ Set(p, Fresh)
    /\ Goto(p, "dead")
    /\ UNCHANGED <<hist, pend, ground, typed, rec, out, intr>>

\* The second interrupt, or the job's deadline.
Interrupt(p) ==
    /\ "interrupt" \in Faults /\ Alive(p) /\ ~intr[p]
    /\ intr' = [intr EXCEPT ![p] = TRUE]
    /\ UNCHANGED <<device, files, pc, loc, out, held>>

\* The device drops the held session; the process learns it with its next word.
SessionLost(p) ==
    /\ "lost" \in Faults /\ excl = p
    /\ excl' = NoOne
    /\ UNCHANGED <<hist, pend, ground, typed, files, pc, loc, out, held, intr>>

-----------------------------------------------------------------------------

Left(x) == IF x > 0 THEN x - 1 ELSE x

\* A tick of the clock.  The device's rollback is at most ExpiryLag late.
Tick ==
    /\ pend.on => pend.left > -ExpiryLag
    /\ pend' = [pend EXCEPT !.left = IF pend.on THEN @ - 1 ELSE @]
    /\ rec' = [rec EXCEPT !.until = Left(@)]
    /\ loc' = [p \in Proc |-> [loc[p] EXCEPT !.win = Left(@), !.until = Left(@)]]
    /\ <<pend, rec, loc>>' # <<pend, rec, loc>>
    /\ UNCHANGED <<hist, excl, typed, ground, lock, pc, out, held, intr>>

Init ==
    /\ hist = <<[by |-> NoOne, kind |-> "plain", cfg |-> {}]>>
    /\ pend = NoPending
    /\ excl = NoOne /\ typed = 0
    /\ lock = NoOne
    /\ rec = [id |-> NoOne, res |-> "none", until |-> ZeroTime]
    /\ pc = [p \in Proc |-> "idle"]
    /\ loc = [p \in Proc |-> Fresh]
    /\ out = [p \in Proc |-> "none"]
    /\ held = [p \in Proc |-> FALSE]
    /\ intr = [p \in Proc |-> FALSE]
    /\ ground = [p \in Proc |-> "none"]

\* The steps a process that is scheduled takes.
Step(p) ==
    \/ Reconcile(p) \/ CompareAfter(p) \/ CompareBefore(p) \/ CompareAgain(p)
    \/ TakeLock(p) \/ Preflight(p) \/ Read(p) \/ OpenLoad(p) \/ Compare(p)
    \/ CheckState(p) \/ Check(p) \/ TypeCommit(p) \/ Land(p) \/ Answer(p)
    \/ FreshLogin(p) \/ Landed(p) \/ Converged(p) \/ ConfirmedByOther(p)
    \/ WindowCheck(p) \/ Confirm(p) \/ ReadState(p)
    \/ Cancel(p) \/ Undo(p) \/ UndoCompare(p) \/ UndoCommit(p)
    \/ Unlock(p) \/ Close(p) \/ Keep(p)

Fault(p) == Panic(p) \/ Crash(p) \/ Interrupt(p) \/ SessionLost(p)

Next ==
    \/ \E p \in Proc : Begin(p) \/ Step(p) \/ Fault(p)
    \/ Expire \/ StrangerCommit \/ StrangerConfirmed \/ StrangerCheck
    \/ Tick

Spec == Init /\ [][Next]_vars

-----------------------------------------------------------------------------
(* Properties.                                                             *)

Exits == {"none", "refused", "failed", "no-change", "interrupted", "failed-load",
          "failed-check", "checked", "nothing-committed", "applied", "applied-by-other",
          "rolled-back", "pending", "window-short", "unknown"}

Where == {"idle", "reconcile", "compareAfter", "compareBefore", "compareAgain", "lock",
          "preflight", "read", "open", "compare", "checkState", "check", "commit", "landing",
          "answer", "freshLogin", "landed", "converged", "byOther", "window", "confirm",
          "readState", "name", "cancel", "undo", "undoCompare", "undoCommit", "unlock", "close",
          "keep", "done", "dead"}

\* The types of the device's, the server's and the processes' state.
TypeOK ==
    /\ hist \in Seq(Entry) /\ hist # <<>>
    /\ pend \in [on : BOOLEAN, left : Int, before : Config]
    /\ pend.on => pend.left \in -ExpiryLag..Window
    /\ excl \in Proc \cup {NoOne}
    /\ typed \in 0..MaxStranger
    /\ lock \in Proc \cup {NoOne}
    /\ rec \in [id : Proc \cup {NoOne},
                res : {"none", "checked", "no-change", "pending", "applied", "rolled-back", "unknown", "failed"},
                until : Int]
    /\ pc \in [Proc -> Where]
    /\ loc \in [Proc -> [pre : Nat, win : 0..Window, until : Int, cand : Config,
                         bann : BOOLEAN, noBanner : BOOLEAN, verified : BOOLEAN,
                         committing : BOOLEAN, ok : BOOLEAN,
                         id : Proc \cup {NoOne}, len : Nat, pending : BOOLEAN, over : BOOLEAN,
                         after : BOOLEAN, before : BOOLEAN]]
    /\ out \in [Proc -> Exits]
    /\ held \in [Proc -> BOOLEAN]
    /\ intr \in [Proc -> BOOLEAN]
    /\ ground \in [Proc -> {"none", "pending", "kept", "undone"}]

\* What a result says of the confirmed commit of apply id, for the device as it
\* is when the result is found.
TrueOf(id, e) ==
    /\ e = "applied" => ground[id] = "kept"
    /\ e = "applied-by-other" => "c" \in Running /\ ground[id] # "pending"
    /\ e = "rolled-back" => ground[id] = "undone" \/ ("c" \notin Running /\ ground[id] # "pending")
    /\ e \in {"failed", "no-change", "interrupted", "failed-load", "failed-check", "checked",
              "nothing-committed"} => ground[id] = "none"

\* An exit the driver names is what the device did: 'applied' only when the
\* change is kept, 'rolled back' only when it is undone, and every exit that
\* says the device was not changed only when no commit of this apply landed;
\* whatever strangers, the timer, lost sessions and panics did (driver.go, named).
ExitIsTrue == [][\A p \in Proc : out'[p] # out[p] => TrueOf(p, out[p])']_vars

\* The fate that settle of a later command writes over a pending record is what
\* became of that apply on the device (cli settle, reconcile.go).
SettleIsTrue ==
    [][\A p \in Proc :
          pc[p] \in {"reconcile", "compareAgain"} /\ rec' # rec /\ pc'[p] # pc[p] =>
             TrueOf(rec.id, IF rec.res = "applied" /\ ground[rec.id] # "kept"
                            THEN "applied-by-other" ELSE rec.res)']_vars

\* A record that says an apply is over never stands while the device still runs
\* that apply's change under its timer.
SettledMeansOver ==
    rec.id \in Proc /\ rec.res \notin {"pending", "unknown"} => ground[rec.id] # "pending"

\* No commit and no check that tacctl types ends the window of anyone else's
\* confirmed commit (a 'commit check' confirms it, D132).
EndsOnlyItsOwnWindow ==
    [][\A p \in Proc : pc'[p] # pc[p] /\ pend.on /\ pend' # pend => OursOnTop(p)]_vars

\* What tacctl makes permanent is what stood before the window and the reviewed
\* change, by a process whose verification on the fresh login passed.  No other
\* word does: a cancel or revert typed as the window ends, after which 'rollback
\* 1' is the change itself, does not bring back what the device has undone, and
\* neither a check nor a confirm makes permanent what was not proven.
PermanentOnlyProven ==
    [][\A p \in Proc :
          pc'[p] # pc[p] /\ ("c" \in Running /\ ~pend.on)' /\ ("c" \notin Running \/ pend.on) =>
             pend.on /\ loc[p].verified /\ Running' = pend.before \cup {"c"}]_vars

\* Nothing tacctl commits changes anything of the device but the reviewed
\* change, whatever was committed or rolled back since its candidate was loaded.
OnlyTheReviewedChange ==
    [][\A p \in Proc :
          pc'[p] # pc[p] /\ hist' # hist => hist'[Top'].cfg \ {"c"} = Running \ {"c"}]_vars

\* Two transactions never run on the device at the same time: what they type
\* lies between LockDevice and its release.
InTransaction(p) == pc[p] \in
    {"preflight", "read", "open", "compare", "checkState", "check", "commit", "landing",
     "answer", "freshLogin", "landed", "converged", "byOther", "window", "confirm",
     "readState", "name", "cancel", "undo", "undoCompare", "undoCommit", "unlock"}
OneTransaction ==
    \A p, q \in Proc : InTransaction(p) /\ InTransaction(q) /\ loc[p].id = p /\ loc[q].id = q => p = q

\* What the next command's settle finds now for the apply of an open record.
FateNow ==
    LET i == OursAt(rec.id, Top)
        v == Settle(rec.id, Top, pend.on, 0, rec.until)
    IN  CASE ~v.facts -> v.e
          [] v.facts /\ Running = hist[i].cfg /\ Running # hist[i - 1].cfg -> "applied-by-other"
          [] v.facts /\ Running # hist[i].cfg /\ Running = hist[i - 1].cfg -> "rolled-back"
          [] OTHER -> "unknown"

\* No apply leaves the device refused for ever (cli settle refuses every later
\* command while a record is open): whatever was killed, lost, interrupted, or
\* panicked after the confirmed commit was typed, once no commit is pending and
\* the time the record gives is over, the next command finds a fate for it, as
\* long as the device shows the commit and runs what it ran before or after it.
OpenRecordSettles ==
    LET i == OursAt(rec.id, Top)
    IN  /\ rec.id \in Proc /\ rec.res \in {"pending", "unknown"}
        /\ ~pend.on /\ rec.until <= 0
        /\ Comparable(rec.id, Top) /\ Running \in {hist[i].cfg, hist[i - 1].cfg}
        => FateNow \in {"applied", "applied-by-other", "rolled-back"}

\* docs/devices/planning.md: the record says pending 'from the moment the
\* confirmed commit is typed, so a tacctl killed during the verification leaves
\* a record the next run settles'.
RecordSaysPending ==
    \A p \in Proc :
        pc[p] \in {"freshLogin", "landed", "converged", "byOther", "window", "confirm"} =>
            rec.id = p /\ rec.res = "pending"

=============================================================================
