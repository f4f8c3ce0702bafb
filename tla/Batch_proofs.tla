---------------------------- MODULE Batch_proofs ----------------------------
(***************************************************************************)
(* Proofs about Batch, for any list of jobs, any shapes, pool, budget and    *)
(* pauses, and any number of interrupts.                                     *)
(***************************************************************************)
EXTENDS Batch, FiniteSetTheorems, WellFoundedInduction, TLAPS

(* The dispatcher's record, without the bounds of its counters: those follow *)
(* from what they count.                                                      *)
Shapes == UNION {{b.shape[i] : i \in Job} : b \in Asked}
States == [Job -> {"unstarted", "running", "settled"}]
Entries == [Job -> Status \cup {None}]
Rows == [Job -> Status \cup {"queued", "running"}]
RunRec ==
  [asked : Asked, state : States, entry : Entries, row : Rows, running : Int,
   shapeOK : SUBSET Shapes, stop : {None, "interrupted", "max-failures", "auth-failure"},
   interrupted : BOOLEAN, parent : BOOLEAN, pausing : BOOLEAN, owed : BOOLEAN,
   ok : Int, failed : Int, auth : Int, notStarted : Int, skipped : Int,
   rest : {"rested", "resting", "due"}]

----------------------------------------------------------------------------
(* Counting.                                                                 *)

LEMMA JobFinite ==
  /\ IsFiniteSet(Job) /\ Cardinality(Job) = N
  /\ \A S \in SUBSET Job : IsFiniteSet(S) /\ Cardinality(S) \in 0 .. N
<1>1. IsFiniteSet(Job) /\ Cardinality(Job) = N BY FS_Interval, BatchAssumption DEF Job
<1>2. ASSUME NEW S \in SUBSET Job PROVE IsFiniteSet(S) /\ Cardinality(S) \in 0 .. N
  <2>1. IsFiniteSet(S) /\ Cardinality(S) <= N BY <1>1, FS_Subset
  <2>2. Cardinality(S) \in Nat BY <2>1, FS_CardinalityType
  <2> QED BY <2>1, <2>2, BatchAssumption
<1> QED BY <1>1, <1>2

LEMMA Disjoint ==
  ASSUME NEW A \in SUBSET Job, NEW B \in SUBSET Job, A \cap B = {}
  PROVE  Cardinality(A \cup B) = Cardinality(A) + Cardinality(B)
<1>1. IsFiniteSet(A) /\ IsFiniteSet(B) /\ Cardinality(A) \in Nat /\ Cardinality(B) \in Nat
  BY JobFinite
<1>2. Cardinality(A \cup B) = Cardinality(A) + Cardinality(B) - Cardinality(A \cap B) BY <1>1, FS_Union
<1>3. Cardinality(A \cap B) = 0 BY FS_EmptySet
<1> QED BY <1>1, <1>2, <1>3

LEMMA OneMore ==
  ASSUME NEW A \in SUBSET Job, NEW i \in Job, i \notin A
  PROVE  Cardinality(A \cup {i}) = Cardinality(A) + 1
BY JobFinite, FS_AddElement

LEMMA OneLess ==
  ASSUME NEW A \in SUBSET Job, NEW i \in A
  PROVE  Cardinality(A \ {i}) = Cardinality(A) - 1
BY JobFinite, FS_RemoveElement

\* A set of jobs has a first one.
LEMMA FirstExists ==
  ASSUME NEW S \in SUBSET Job, S # {}
  PROVE  \E i \in S : \A j \in S : i <= j
<1> DEFINE R == OpToRel(<, Nat)
<1>0. S \subseteq Nat BY DEF Job
<1>1. IsWellFoundedOn(R, Nat) BY NatLessThanWellFounded
<1>2. \A x, y \in Nat : x < y => <<x, y>> \in R BY DEF OpToRel
<1> HIDE DEF R
<1>3. PICK i \in S : \A j \in S : <<j, i>> \notin R BY <1>0, <1>1, WFMin
<1>4. \A j \in S : i <= j
  <2> SUFFICES ASSUME NEW j \in S PROVE i <= j OBVIOUS
  <2>1. ~(j < i) BY <1>0, <1>2, <1>3
  <2> QED BY <1>0, <2>1
<1> QED BY <1>4

----------------------------------------------------------------------------
(* What the operators on the record do, field by field.                     *)

\* Fields that settling jobs leaves alone.
SameBut(r, s) ==
  /\ s.asked = r.asked /\ s.running = r.running /\ s.shapeOK = r.shapeOK
  /\ s.ok = r.ok /\ s.failed = r.failed /\ s.auth = r.auth
  /\ s.owed = r.owed /\ s.rest = r.rest /\ s.parent = r.parent

\* The jobs of L have status st in s, and the others what they have in r.
Settling(r, s, L, st) ==
  \A i \in Job :
    /\ s.state[i] = IF i \in L THEN "settled" ELSE r.state[i]
    /\ s.entry[i] = IF i \in L THEN st ELSE r.entry[i]
    /\ s.row[i] = IF i \in L THEN st ELSE r.row[i]

LEMMA SettleAllFields ==
  ASSUME NEW r \in RunRec, NEW L \in SUBSET Job, NEW st \in Status,
         NEW s, s = SettleAll(r, L, st)
  PROVE  /\ s \in RunRec /\ Settling(r, s, L, st) /\ SameBut(r, s)
         /\ s.stop = r.stop /\ s.pausing = r.pausing /\ s.interrupted = r.interrupted
         /\ s.notStarted = r.notStarted /\ s.skipped = r.skipped
<1> DEFINE sf == [i \in Job |-> IF i \in L THEN "settled" ELSE r.state[i]]
           ef == [i \in Job |-> IF i \in L THEN st ELSE r.entry[i]]
           rf == [i \in Job |-> IF i \in L THEN st ELSE r.row[i]]
<1>1. s = [r EXCEPT !.state = sf, !.entry = ef, !.row = rf] BY DEF SettleAll, RunRec
<1>2. sf \in States /\ ef \in Entries /\ rf \in Rows BY DEF RunRec, States, Entries, Rows
<1>3. \A i \in Job : /\ sf[i] = IF i \in L THEN "settled" ELSE r.state[i]
                     /\ ef[i] = IF i \in L THEN st ELSE r.entry[i]
                     /\ rf[i] = IF i \in L THEN st ELSE r.row[i]
  OBVIOUS
<1> HIDE DEF sf, ef, rf
<1>4. s \in RunRec /\ s.state = sf /\ s.entry = ef /\ s.row = rf BY <1>1, <1>2 DEF RunRec
<1>5. SameBut(r, s) BY <1>1 DEF SameBut, RunRec
<1>6. /\ s.stop = r.stop /\ s.pausing = r.pausing /\ s.interrupted = r.interrupted
      /\ s.notStarted = r.notStarted /\ s.skipped = r.skipped
  BY <1>1 DEF RunRec
<1> QED BY <1>3, <1>4, <1>5, <1>6 DEF Settling

LEMMA StopForFields ==
  ASSUME NEW r \in RunRec, NEW why \in {"interrupted", "max-failures", "auth-failure"},
         NEW s, s = StopFor(r, why), r.stop = None
  PROVE  /\ s \in RunRec /\ SameBut(r, s) /\ s.stop # None
         /\ s.interrupted = r.interrupted /\ s.skipped = r.skipped
         /\ Settling(r, s, Unstarted(r), "not-started") /\ s.pausing = FALSE
         /\ s.notStarted = r.notStarted + Cardinality(Unstarted(r))
<1> DEFINE L == Unstarted(r)
           u == SettleAll(r, L, "not-started")
<1>1. L \in SUBSET Job /\ Cardinality(L) \in Int BY JobFinite DEF Unstarted
<1>2. s = [u EXCEPT !.stop = why, !.pausing = FALSE, !.notStarted = u.notStarted + Cardinality(L)]
  BY DEF StopFor
<1> HIDE DEF L
<1>3. /\ u \in RunRec /\ Settling(r, u, L, "not-started") /\ SameBut(r, u)
      /\ u.stop = r.stop /\ u.pausing = r.pausing /\ u.interrupted = r.interrupted
      /\ u.notStarted = r.notStarted /\ u.skipped = r.skipped
  BY <1>1, SettleAllFields DEF Status
<1> HIDE DEF u
<1>4. u.notStarted + Cardinality(L) \in Int BY <1>1, <1>3 DEF RunRec
<1> DEFINE k == u.notStarted + Cardinality(L)
<1> HIDE DEF k
<1>5. s = [u EXCEPT !.stop = why, !.pausing = FALSE, !.notStarted = k] BY <1>2 DEF k
<1>6. k \in Int BY <1>4 DEF k
<1>7. s \in RunRec BY <1>3, <1>5, <1>6, ZenonT(60) DEF RunRec
<1>8. /\ s.state = u.state /\ s.entry = u.entry /\ s.row = u.row /\ s.stop = why /\ s.pausing = FALSE
      /\ s.notStarted = k /\ s.skipped = u.skipped /\ s.interrupted = u.interrupted
  BY <1>3, <1>5 DEF RunRec
<1>9. SameBut(u, s) BY <1>3, <1>5 DEF RunRec, SameBut
<1>10. why # None BY DEF None
<1>11. Settling(r, s, L, "not-started") BY <1>3, <1>8 DEF Settling
<1>12. SameBut(r, s) BY <1>3, <1>9 DEF SameBut
<1> QED BY <1>3, <1>7, <1>8, <1>10, <1>11, <1>12 DEF L, k

LEMMA SkipShapeFields ==
  ASSUME NEW r \in RunRec, NEW c \in Job, NEW s, s = SkipShape(r, c),
         NEW L, L = {i \in Unstarted(r) : ~IsCanary(i) /\ Shape[i] = Shape[c]}
  PROVE  /\ s \in RunRec /\ SameBut(r, s) /\ Settling(r, s, L, "skipped")
         /\ s.interrupted = r.interrupted /\ s.stop = r.stop /\ s.pausing = r.pausing
         /\ s.notStarted = r.notStarted /\ s.skipped = r.skipped + Cardinality(L)
<1> DEFINE u == SettleAll(r, L, "skipped")
<1>1. L \in SUBSET Job /\ Cardinality(L) \in Int BY JobFinite DEF Unstarted
<1>2. s = [u EXCEPT !.skipped = u.skipped + Cardinality(L)] BY DEF SkipShape
<1>3. /\ u \in RunRec /\ Settling(r, u, L, "skipped") /\ SameBut(r, u)
      /\ u.stop = r.stop /\ u.pausing = r.pausing /\ u.interrupted = r.interrupted
      /\ u.notStarted = r.notStarted /\ u.skipped = r.skipped
  BY <1>1, SettleAllFields DEF Status
<1> HIDE DEF u
<1> DEFINE k == u.skipped + Cardinality(L)
<1>4. k \in Int BY <1>1, <1>3 DEF RunRec
<1> HIDE DEF k
<1>5. s = [u EXCEPT !.skipped = k] BY <1>2 DEF k
<1>6. s \in RunRec BY <1>3, <1>4, <1>5 DEF RunRec
<1>7. /\ s.state = u.state /\ s.entry = u.entry /\ s.row = u.row /\ s.stop = u.stop
      /\ s.pausing = u.pausing /\ s.notStarted = u.notStarted /\ s.skipped = k
      /\ s.interrupted = u.interrupted
  BY <1>3, <1>5 DEF RunRec
<1>8. SameBut(u, s) BY <1>3, <1>5 DEF RunRec, SameBut
<1>9. Settling(r, s, L, "skipped") BY <1>3, <1>7 DEF Settling
<1>10. SameBut(r, s) BY <1>3, <1>8 DEF SameBut
<1> QED BY <1>3, <1>6, <1>7, <1>9, <1>10 DEF k

\* Job i, which was running in r, has ended in s.
Ending(r, s, i, st) ==
  /\ Settling(r, s, {i}, st)
  /\ s.asked = r.asked /\ s.shapeOK = r.shapeOK /\ s.parent = r.parent
  /\ s.stop = r.stop /\ s.pausing = r.pausing /\ s.interrupted = r.interrupted
  /\ s.notStarted = r.notStarted /\ s.skipped = r.skipped
  /\ s.running = r.running - 1 /\ s.owed = TRUE /\ s.rest = "due"
  /\ s.ok = IF st = "ok" THEN r.ok + 1 ELSE r.ok
  /\ s.failed = IF st \in Failure THEN r.failed + 1 ELSE r.failed
  /\ s.auth = IF st = "auth-failed" THEN r.auth + 1 ELSE r.auth

LEMMA EndedFields ==
  ASSUME NEW r \in RunRec, NEW i \in Job, NEW st \in Ran, NEW s, s = Ended(r, i, st)
  PROVE  s \in RunRec /\ Ending(r, s, i, st)
<1> DEFINE sf == [r.state EXCEPT ![i] = "settled"]
           ef == [r.entry EXCEPT ![i] = st]
           rf == [r.row EXCEPT ![i] = st]
           k == r.running - 1
           ko == IF st = "ok" THEN r.ok + 1 ELSE r.ok
           kf == IF st \in Failure THEN r.failed + 1 ELSE r.failed
           ka == IF st = "auth-failed" THEN r.auth + 1 ELSE r.auth
<1>1. s = [r EXCEPT !.running = k, !.owed = TRUE, !.rest = "due", !.state = sf, !.entry = ef, !.row = rf,
             !.ok = ko, !.failed = kf, !.auth = ka]
  BY DEF Ended, RunRec
<1>2. sf \in States /\ ef \in Entries /\ rf \in Rows BY DEF RunRec, States, Entries, Rows, Status
<1>3. k \in Int /\ ko \in Int /\ kf \in Int /\ ka \in Int BY DEF RunRec
<1>4. \A j \in Job : /\ sf[j] = IF j \in {i} THEN "settled" ELSE r.state[j]
                     /\ ef[j] = IF j \in {i} THEN st ELSE r.entry[j]
                     /\ rf[j] = IF j \in {i} THEN st ELSE r.row[j]
  BY DEF RunRec, States, Entries, Rows
<1>5. /\ k = r.running - 1 /\ ko = IF st = "ok" THEN r.ok + 1 ELSE r.ok
      /\ kf = IF st \in Failure THEN r.failed + 1 ELSE r.failed
      /\ ka = IF st = "auth-failed" THEN r.auth + 1 ELSE r.auth
  OBVIOUS
<1> HIDE DEF sf, ef, rf, k, ko, kf, ka
<1>6. s \in RunRec BY <1>1, <1>2, <1>3, ZenonT(60) DEF RunRec
<1>7. s.state = sf /\ s.entry = ef /\ s.row = rf BY <1>1 DEF RunRec
<1>8. s.running = k /\ s.ok = ko /\ s.failed = kf /\ s.auth = ka /\ s.owed = TRUE /\ s.rest = "due"
  BY <1>1 DEF RunRec
<1>9. /\ s.asked = r.asked /\ s.shapeOK = r.shapeOK /\ s.parent = r.parent
      /\ s.stop = r.stop /\ s.pausing = r.pausing /\ s.interrupted = r.interrupted
      /\ s.notStarted = r.notStarted /\ s.skipped = r.skipped
  BY <1>1 DEF RunRec
<1> QED BY <1>4, <1>5, <1>6, <1>7, <1>8, <1>9 DEF Settling, Ending

----------------------------------------------------------------------------
(* The inductive invariant.                                                  *)

In(r, x) == {i \in Job : r.state[i] = x}
Having(r, S) == {i \in Job : r.entry[i] \in S}

\* A job's state, entry and row go together.
JobsInv(r) ==
  \A i \in Job :
    /\ r.state[i] = "unstarted" => r.entry[i] = None /\ r.row[i] = "queued"
    /\ r.state[i] = "running" => r.entry[i] = None /\ r.row[i] = "running"
    /\ r.state[i] = "settled" => r.entry[i] # None /\ r.row[i] = r.entry[i]

\* The counters count.
CountsInv(r) ==
  /\ r.running = Cardinality(In(r, "running"))
  /\ r.ok = Cardinality(Having(r, {"ok"})) /\ r.failed = Cardinality(Having(r, Failure))
  /\ r.auth = Cardinality(Having(r, {"auth-failed"}))
  /\ r.notStarted = Cardinality(Having(r, {"not-started"}))
  /\ r.skipped = Cardinality(Having(r, {"skipped"}))

\* A stop settles whatever was not started.
StopInv(r) ==
  /\ r.stop # None => Unstarted(r) = {}
  /\ r.interrupted => r.stop # None
  /\ ~r.parent => r.interrupted

\* A canary that ended has released its followers or settled them.
CanaryInv(r) ==
  \A c \in Job : IsCanary(c) =>
    /\ Shape[c] \in r.shapeOK <=> r.entry[c] = "ok"
    /\ r.entry[c] # "skipped" /\ (r.entry[c] = "not-started" => r.stop # None)
    /\ r.entry[c] \in Failure => \A i \in Unstarted(r) : Shape[i] = Shape[c] => IsCanary(i)

SkipInv(r) ==
  \A i \in Job : r.entry[i] = "skipped" =>
    \E c \in Job \ {i} : IsCanary(c) /\ Shape[c] = Shape[i] /\ r.entry[c] \in Failure \ {"interrupted"}

\* The running jobs are all that may still fail once the run is stopped.
BudgetInv(r) ==
  /\ r.running <= Pool
  /\ MaxFailures > 0 => r.failed + r.running < MaxFailures + Pool
  /\ StopOnAuth => r.auth + r.running <= Pool
  /\ r.stop = None => (MaxFailures > 0 => r.failed < MaxFailures) /\ (StopOnAuth => r.auth = 0)

\* A pause that is due is owed, and one that was begun is not over.
RestInv(r) ==
  Pause =>
    /\ r.rest = "due" => r.owed
    /\ r.rest = "resting" /\ ~ctxDone => r.pausing \/ r.stop # None

RunInv(r) ==
  /\ JobsInv(r) /\ CountsInv(r) /\ StopInv(r) /\ CanaryInv(r) /\ SkipInv(r)
  /\ BudgetInv(r) /\ RestInv(r)

\* What a job's goroutine is doing fits its state, and it has one end to send.
WorkInv(r) ==
  \A i \in Job :
    /\ r.state[i] = "unstarted" => work[i] = "idle"
    /\ r.state[i] = "running" => work[i] # "idle"
    /\ r.state[i] = "settled" => work[i] \in {"idle", "gone"}
    /\ r.state[i] = "settled" /\ work[i] = "gone" => r.entry[i] \in Ran

\* Every message is of a running job, nothing follows a job's end, and the end
\* of a job that is gone is on its way.
ChanInv(r, q) ==
  /\ \A k \in 1 .. Len(q) : r.state[q[k].job] = "running"
  /\ \A k \in 1 .. Len(q) : q[k].kind = "end" => work[q[k].job] = "gone" /\ q[k].status \in Ran
  /\ \A k, l \in 1 .. Len(q) : k < l /\ q[k].job = q[l].job => q[k].kind # "end"
  /\ \A i \in Job : r.state[i] = "running" /\ work[i] = "gone" =>
       \E k \in 1 .. Len(q) : q[k].job = i /\ q[k].kind = "end"

\* A job that was begun had the success of its canary.
FollowInv(r) ==
  \A i, c \in Job : work[i] # "idle" /\ c # i /\ IsCanary(c) /\ Shape[c] = Shape[i] => r.entry[c] = "ok"

\* Who has cut the jobs off.
SignalInv ==
  /\ runDone => (ctxDone \/ run.interrupted) /\ (ctxDone \/ given > 1)
  /\ ints <= given
  /\ run.interrupted /\ ~ctxDone => ints < given
  /\ \A i \in Job : "interrupted" \in {work[i], run.entry[i]} => runDone
  /\ \A k \in 1 .. Len(results) : results[k].status = "interrupted" => runDone
  /\ sleeper = "cut" => runDone

TypeInv ==
  /\ pc \in {"fill", "select", "end"}
  /\ run \in RunRec
  /\ work \in [Job -> {"idle", "do", "gone"} \cup Ran]
  /\ steps \in [Job -> 0 .. MaxSteps]
  /\ results \in Seq(Msg)
  /\ sleeper \in {"idle", "asleep", "slept", "cut"}
  /\ ints \in 0 .. 4 /\ given \in 0 .. MaxSignals
  /\ ctxDone \in BOOLEAN /\ runDone \in BOOLEAN

EndInv == pc = "end" => \A i \in Job : run.state[i] = "settled"

Inv ==
  /\ TypeInv /\ RunInv(run) /\ WorkInv(run) /\ ChanInv(run, results) /\ FollowInv(run) /\ SignalInv /\ EndInv

----------------------------------------------------------------------------
(* What the operators on the record keep of it.                              *)

\* The parts of RunInv that also hold in the middle of a step.
Base(r) ==
  /\ JobsInv(r) /\ CountsInv(r) /\ CanaryInv(r) /\ SkipInv(r) /\ RestInv(r)
  /\ r.stop # None => Unstarted(r) = {}
  /\ r.running <= Pool
  /\ MaxFailures > 0 => r.failed + r.running < MaxFailures + Pool
  /\ StopOnAuth => r.auth + r.running <= Pool

\* Jobs that were not started are settled, and nothing else happens to any.
Drops(r, s) ==
  \A i \in Job :
    \/ s.state[i] = r.state[i] /\ s.entry[i] = r.entry[i]
    \/ r.state[i] = "unstarted" /\ s.state[i] = "settled" /\ s.entry[i] \in {"not-started", "skipped"}

LEMMA RunInvParts ==
  ASSUME NEW r
  PROVE  RunInv(r) <=>
           /\ Base(r) /\ (r.interrupted => r.stop # None) /\ (~r.parent => r.interrupted)
           /\ r.stop = None => (MaxFailures > 0 => r.failed < MaxFailures) /\ (StopOnAuth => r.auth = 0)
BY DEF RunInv, Base, StopInv, BudgetInv

LEMMA DropsFrom ==
  ASSUME NEW r, NEW u, NEW s, Drops(u, s), u.state = r.state, u.entry = r.entry
  PROVE  Drops(r, s)
BY DEF Drops

LEMMA Asking ==
  ASSUME run.asked \in Asked
  PROVE  /\ Pool \in Job /\ Pool \in Nat /\ MaxFailures \in Nat /\ Pause \in BOOLEAN
         /\ MaxSteps \in Nat /\ Canary \in BOOLEAN
BY BatchAssumption DEF Pool, MaxFailures, Pause, MaxSteps, Canary, Job

LEMMA CanaryUnique ==
  ASSUME NEW c \in Job, NEW d \in Job, IsCanary(c), IsCanary(d), Shape[c] = Shape[d]
  PROVE  c = d
<1>1. ~(c < d) /\ ~(d < c) BY DEF IsCanary
<1> QED BY <1>1 DEF Job

\* Settled jobs are counted where their status belongs.
LEMMA SettlingCount ==
  ASSUME NEW r, NEW s, NEW L \in SUBSET Job, NEW st, Settling(r, s, L, st),
         \A i \in L : r.entry[i] = None, NEW S, None \notin S, st \in S
  PROVE  Cardinality(Having(s, S)) = Cardinality(Having(r, S)) + Cardinality(L)
<1>1. Having(r, S) \in SUBSET Job /\ Cardinality(Having(r, S)) \in Nat BY JobFinite DEF Having
<1>2. Having(s, S) = Having(r, S) \cup L BY DEF Having, Settling
<1>3. Having(r, S) \cap L = {} BY DEF Having
<1> QED BY <1>1, <1>2, <1>3, Disjoint

LEMMA SettlingOthers ==
  ASSUME NEW r, NEW s, NEW L \in SUBSET Job, NEW st, Settling(r, s, L, st),
         \A i \in L : r.entry[i] = None, NEW S, None \notin S, st \notin S
  PROVE  Having(s, S) = Having(r, S)
BY DEF Having, Settling

\* The jobs of a set of unstarted ones are settled.
LEMMA SettlingKeeps ==
  ASSUME NEW r \in RunRec, NEW s \in RunRec, NEW L \in SUBSET Unstarted(r),
         NEW st \in {"not-started", "skipped"}, Settling(r, s, L, st), SameBut(r, s),
         JobsInv(r), CountsInv(r),
         s.notStarted = IF st = "not-started" THEN r.notStarted + Cardinality(L) ELSE r.notStarted,
         s.skipped = IF st = "skipped" THEN r.skipped + Cardinality(L) ELSE r.skipped
  PROVE  JobsInv(s) /\ CountsInv(s) /\ Drops(r, s) /\ Unstarted(s) = Unstarted(r) \ L
<1>1. \A i \in L : i \in Job /\ r.state[i] = "unstarted" /\ r.entry[i] = None
  BY DEF Unstarted, JobsInv
<1>2. L \in SUBSET Job BY <1>1
<1>3. JobsInv(s) BY <1>1 DEF JobsInv, Settling, None
<1>4. Drops(r, s) BY <1>1 DEF Drops, Settling
<1>5. Unstarted(s) = Unstarted(r) \ L BY <1>1 DEF Unstarted, Settling
<1>6. In(s, "running") = In(r, "running") BY <1>1 DEF In, Settling
<1>7. \A i \in L : r.entry[i] = None BY <1>1
<1>8. \A S \in SUBSET Status : Cardinality(Having(r, S)) \in Nat /\ None \notin S
  BY JobFinite DEF Having, Status, Ran, None
<1>9. Cardinality(L) \in Nat BY <1>2, JobFinite
<1>10. /\ Having(s, {"ok"}) = Having(r, {"ok"}) /\ Having(s, Failure) = Having(r, Failure)
       /\ Having(s, {"auth-failed"}) = Having(r, {"auth-failed"})
  <2>1. {"ok"} \in SUBSET Status /\ Failure \in SUBSET Status /\ {"auth-failed"} \in SUBSET Status
        /\ st \notin {"ok"} /\ st \notin Failure /\ st \notin {"auth-failed"}
    BY DEF Status, Failure, Ran
  <2>2. ASSUME NEW S \in SUBSET Status, st \notin S PROVE Having(s, S) = Having(r, S)
    BY <1>2, <1>7, <1>8, <2>2, SettlingOthers
  <2> QED BY <2>1, <2>2
<1>11. ASSUME NEW x \in {"not-started", "skipped"}
       PROVE  Cardinality(Having(s, {x})) =
                IF st = x THEN Cardinality(Having(r, {x})) + Cardinality(L) ELSE Cardinality(Having(r, {x}))
  <2>1. None \notin {x} BY DEF None
  <2>2. CASE st = x
    <3>1. st \in {x} BY <2>2
    <3>2. Cardinality(Having(s, {x})) = Cardinality(Having(r, {x})) + Cardinality(L)
      BY <1>2, <1>7, <2>1, <3>1, SettlingCount
    <3> QED BY <2>2, <3>2
  <2>3. CASE st # x
    <3>1. st \notin {x} BY <2>3
    <3>2. Having(s, {x}) = Having(r, {x}) BY <1>7, <2>1, <3>1 DEF Having, Settling
    <3> QED BY <2>3, <3>2
  <2> QED BY <2>2, <2>3
<1>12. {"not-started"} \in SUBSET Status /\ {"skipped"} \in SUBSET Status BY DEF Status
<1>13. s.notStarted = Cardinality(Having(s, {"not-started"})) /\ s.skipped = Cardinality(Having(s, {"skipped"}))
  BY <1>8, <1>9, <1>11, <1>12 DEF CountsInv
<1>14. CountsInv(s) BY <1>6, <1>10, <1>13 DEF CountsInv, SameBut
<1> QED BY <1>3, <1>4, <1>5, <1>14

LEMMA StopForKeeps ==
  ASSUME NEW r \in RunRec, Base(r), NEW why \in {"interrupted", "max-failures", "auth-failure"},
         NEW s, s = StopFor(r, why)
  PROVE  /\ s \in RunRec /\ Base(s) /\ s.stop # None /\ Drops(r, s)
         /\ s.asked = r.asked /\ s.interrupted = r.interrupted /\ s.parent = r.parent
<1>2. CASE r.stop # None
  <2>1. s = r BY <1>2 DEF StopFor
  <2> QED BY <1>2, <2>1 DEF Drops
<1>3. CASE r.stop = None
  <2> DEFINE L == Unstarted(r)
  <2>0. /\ s \in RunRec /\ SameBut(r, s) /\ s.stop # None
        /\ s.interrupted = r.interrupted /\ s.skipped = r.skipped
        /\ Settling(r, s, L, "not-started") /\ s.pausing = FALSE
        /\ s.notStarted = r.notStarted + Cardinality(L)
    BY <1>3, StopForFields
  <2>1. /\ Settling(r, s, L, "not-started") /\ s.pausing = FALSE
        /\ s.notStarted = r.notStarted + Cardinality(L)
    BY <2>0
  <2>2. JobsInv(s) /\ CountsInv(s) /\ Drops(r, s) /\ Unstarted(s) = {}
    BY <2>0, <2>1, SettlingKeeps DEF Base
  <2>3. \A i \in Job : r.entry[i] # None => s.entry[i] = r.entry[i]
    BY <2>1 DEF Base, JobsInv, Settling, Unstarted
  <2>4. \A i \in Job : s.entry[i] # r.entry[i] => s.entry[i] = "not-started" BY <2>1 DEF Settling
  <2>5. CanaryInv(s)
    <3> SUFFICES ASSUME NEW c \in Job, IsCanary(c)
        PROVE  /\ Shape[c] \in s.shapeOK <=> s.entry[c] = "ok"
               /\ s.entry[c] # "skipped"
      BY <2>0, <2>2 DEF CanaryInv
    <3>1. (Shape[c] \in r.shapeOK <=> r.entry[c] = "ok") /\ r.entry[c] # "skipped" BY DEF Base, CanaryInv
    <3>2. s.shapeOK = r.shapeOK BY <2>0 DEF SameBut
    <3>3. r.entry[c] = "ok" => r.entry[c] # None BY DEF None
    <3> QED BY <3>1, <3>2, <3>3, <2>3, <2>4
  <2>6. SkipInv(s)
    <3> SUFFICES ASSUME NEW i \in Job, s.entry[i] = "skipped"
        PROVE  \E c \in Job \ {i} : IsCanary(c) /\ Shape[c] = Shape[i] /\ s.entry[c] \in Failure \ {"interrupted"}
      BY DEF SkipInv
    <3>1. r.entry[i] = "skipped" BY <2>4
    <3>2. PICK c \in Job \ {i} : IsCanary(c) /\ Shape[c] = Shape[i] /\ r.entry[c] \in Failure \ {"interrupted"}
      BY <3>1 DEF Base, SkipInv
    <3>3. s.entry[c] = r.entry[c] BY <2>3, <3>2 DEF Failure, Ran, None
    <3> QED BY <3>2, <3>3
  <2>7. RestInv(s) BY <2>0 DEF Base, RestInv, SameBut
  <2> QED BY <2>0, <2>2, <2>5, <2>6, <2>7 DEF Base, SameBut
<1> QED BY <1>2, <1>3

LEMMA InterruptKeeps ==
  ASSUME NEW r \in RunRec, Base(r), NEW s, s = Interrupt(r)
  PROVE  /\ s \in RunRec /\ RunInv(s) /\ s.stop # None /\ Drops(r, s)
         /\ s.asked = r.asked /\ s.interrupted = TRUE /\ s.parent = r.parent
<1> DEFINE u == [r EXCEPT !.interrupted = TRUE]
<1>1. u \in RunRec BY DEF RunRec
<1>2. /\ u.asked = r.asked /\ u.state = r.state /\ u.entry = r.entry /\ u.row = r.row /\ u.running = r.running
      /\ u.shapeOK = r.shapeOK /\ u.stop = r.stop /\ u.interrupted = TRUE /\ u.parent = r.parent
      /\ u.pausing = r.pausing /\ u.owed = r.owed /\ u.ok = r.ok /\ u.failed = r.failed /\ u.auth = r.auth
      /\ u.notStarted = r.notStarted /\ u.skipped = r.skipped /\ u.rest = r.rest
  BY DEF RunRec
<1>3. s = StopFor(u, "interrupted") BY DEF Interrupt
<1> HIDE DEF u
<1>4. Base(u)
  BY <1>2 DEF Base, JobsInv, CountsInv, CanaryInv, SkipInv, RestInv, Unstarted, In, Having
<1>5. /\ s \in RunRec /\ Base(s) /\ s.stop # None /\ Drops(u, s)
      /\ s.asked = u.asked /\ s.interrupted = u.interrupted /\ s.parent = u.parent
  BY <1>1, <1>3, <1>4, StopForKeeps
<1>6. Drops(r, s) BY <1>2, <1>5, DropsFrom
<1> QED BY <1>2, <1>5, <1>6, RunInvParts

\* The cancellation of Run's context is taken as an interrupt.
LEMMA CancelKeeps ==
  ASSUME NEW r \in RunRec, Base(r), NEW s, s = Interrupt([r EXCEPT !.parent = FALSE])
  PROVE  /\ s \in RunRec /\ RunInv(s) /\ s.stop # None /\ Drops(r, s)
         /\ s.asked = r.asked /\ s.interrupted = TRUE
<1> DEFINE u == [r EXCEPT !.parent = FALSE]
<1>1. u \in RunRec BY DEF RunRec
<1>2. /\ u.asked = r.asked /\ u.state = r.state /\ u.entry = r.entry /\ u.row = r.row /\ u.running = r.running
      /\ u.shapeOK = r.shapeOK /\ u.stop = r.stop
      /\ u.pausing = r.pausing /\ u.owed = r.owed /\ u.ok = r.ok /\ u.failed = r.failed /\ u.auth = r.auth
      /\ u.notStarted = r.notStarted /\ u.skipped = r.skipped /\ u.rest = r.rest
  BY DEF RunRec
<1> HIDE DEF u
<1>4. Base(u)
  BY <1>2 DEF Base, JobsInv, CountsInv, CanaryInv, SkipInv, RestInv, Unstarted, In, Having
<1>5. /\ s \in RunRec /\ RunInv(s) /\ s.stop # None /\ Drops(u, s)
      /\ s.asked = u.asked /\ s.interrupted = TRUE
  BY <1>1, <1>4, InterruptKeeps DEF u
<1>6. Drops(r, s) BY <1>2, <1>5, DropsFrom
<1> QED BY <1>2, <1>5, <1>6

LEMMA NoticeKeeps ==
  ASSUME NEW r \in RunRec, RunInv(r), NEW s, s = NoticeFirst(r)
  PROVE  /\ s \in RunRec /\ RunInv(s) /\ Drops(r, s) /\ s.asked = r.asked
         /\ ctxDone => s.stop # None
         /\ r.interrupted => s.interrupted
         /\ s.interrupted => r.interrupted \/ ctxDone
<1>1. CASE ctxDone /\ r.parent
  <2>1. Base(r) BY RunInvParts
  <2>2. s = Interrupt([r EXCEPT !.parent = FALSE]) BY <1>1 DEF NoticeFirst
  <2> QED BY <1>1, <2>1, <2>2, CancelKeeps
<1>2. CASE ~(ctxDone /\ r.parent)
  <2>1. s = r BY <1>2 DEF NoticeFirst
  <2>2. ctxDone => r.stop # None BY <1>2 DEF RunInv, StopInv
  <2> QED BY <2>1, <2>2 DEF Drops
<1> QED BY <1>1, <1>2

\* What a canary that has not just ended knows of its shape.
CanaryOf(r, c) ==
  /\ Shape[c] \in r.shapeOK <=> r.entry[c] = "ok"
  /\ r.entry[c] # "skipped" /\ (r.entry[c] = "not-started" => r.stop # None)
  /\ r.entry[c] \in Failure => \A i \in Unstarted(r) : Shape[i] = Shape[c] => IsCanary(i)

LEMMA EndedKeeps ==
  ASSUME NEW r \in RunRec, Base(r), run.asked \in Asked, NEW i \in Job, r.state[i] = "running", NEW st \in Ran,
         NEW s, s = Ended(r, i, st)
  PROVE  /\ s \in RunRec /\ JobsInv(s) /\ CountsInv(s) /\ SkipInv(s) /\ RestInv(s)
         /\ Unstarted(s) = Unstarted(r)
         /\ \A c \in Job : IsCanary(c) /\ c # i => CanaryOf(s, c)
         /\ s.running <= Pool
         /\ MaxFailures > 0 => s.failed + s.running < MaxFailures + Pool
         /\ StopOnAuth => s.auth + s.running <= Pool
<1>1. /\ s \in RunRec /\ Settling(r, s, {i}, st)
      /\ s.asked = r.asked /\ s.shapeOK = r.shapeOK /\ s.parent = r.parent
      /\ s.stop = r.stop /\ s.pausing = r.pausing /\ s.interrupted = r.interrupted
      /\ s.notStarted = r.notStarted /\ s.skipped = r.skipped
      /\ s.running = r.running - 1 /\ s.owed = TRUE /\ s.rest = "due"
      /\ s.ok = IF st = "ok" THEN r.ok + 1 ELSE r.ok
      /\ s.failed = IF st \in Failure THEN r.failed + 1 ELSE r.failed
      /\ s.auth = IF st = "auth-failed" THEN r.auth + 1 ELSE r.auth
  <2>1. s \in RunRec /\ Ending(r, s, i, st) BY EndedFields
  <2> QED BY <2>1 DEF Ending
<1>2. r.entry[i] = None /\ st # None BY DEF Base, JobsInv, Ran, None
<1>3. JobsInv(s) BY <1>1, <1>2 DEF Base, JobsInv, Settling
<1>4. Unstarted(s) = Unstarted(r) BY <1>1 DEF Unstarted, Settling
<1>5. In(s, "running") = In(r, "running") \ {i} BY <1>1 DEF In, Settling
<1>6. i \in In(r, "running") /\ In(r, "running") \in SUBSET Job BY DEF In
<1>7. s.running = Cardinality(In(s, "running"))
  <2>1. Cardinality(In(r, "running") \ {i}) = Cardinality(In(r, "running")) - 1 BY <1>6, OneLess
  <2> QED BY <1>1, <1>5, <2>1 DEF Base, CountsInv
<1>8. {i} \in SUBSET Job /\ Cardinality({i}) = 1 /\ \A j \in {i} : r.entry[j] = None
  BY <1>2, FS_Singleton
<1>9. ASSUME NEW S, None \notin S, st \in S PROVE Cardinality(Having(s, S)) = Cardinality(Having(r, S)) + 1
  <2>1. Cardinality(Having(s, S)) = Cardinality(Having(r, S)) + Cardinality({i})
    BY <1>1, <1>8, <1>9, SettlingCount
  <2> QED BY <1>8, <2>1
<1>10. ASSUME NEW S, None \notin S, st \notin S PROVE Having(s, S) = Having(r, S)
  BY <1>2, <1>10, <1>1 DEF Having, Settling
<1>11. /\ None \notin {"ok"} /\ None \notin Failure /\ None \notin {"auth-failed"}
       /\ None \notin {"not-started"} /\ None \notin {"skipped"}
       /\ st \notin {"not-started"} /\ st \notin {"skipped"}
  BY DEF None, Failure, Ran
<1>12. s.ok = Cardinality(Having(s, {"ok"}))
  <2>1. CASE st = "ok"
    <3>1. st \in {"ok"} BY <2>1
    <3> QED BY <1>1, <1>9, <1>11, <2>1, <3>1 DEF Base, CountsInv
  <2>2. CASE st # "ok"
    <3>1. st \notin {"ok"} BY <2>2
    <3>2. Having(s, {"ok"}) = Having(r, {"ok"}) BY <1>10, <1>11, <3>1
    <3> QED BY <1>1, <2>2, <3>2 DEF Base, CountsInv
  <2> QED BY <2>1, <2>2
<1>13. s.failed = Cardinality(Having(s, Failure))
  <2>1. CASE st \in Failure BY <1>1, <1>9, <1>11, <2>1 DEF Base, CountsInv
  <2>2. CASE st \notin Failure
    <3>2. Having(s, Failure) = Having(r, Failure) BY <1>10, <1>11, <2>2
    <3> QED BY <1>1, <2>2, <3>2 DEF Base, CountsInv
  <2> QED BY <2>1, <2>2
<1>14. s.auth = Cardinality(Having(s, {"auth-failed"}))
  <2>1. CASE st = "auth-failed"
    <3>1. st \in {"auth-failed"} BY <2>1
    <3> QED BY <1>1, <1>9, <1>11, <2>1, <3>1 DEF Base, CountsInv
  <2>2. CASE st # "auth-failed"
    <3>1. st \notin {"auth-failed"} BY <2>2
    <3>2. Having(s, {"auth-failed"}) = Having(r, {"auth-failed"}) BY <1>10, <1>11, <3>1
    <3> QED BY <1>1, <2>2, <3>2 DEF Base, CountsInv
  <2> QED BY <2>1, <2>2
<1>15. CountsInv(s)
  <2>1. Having(s, {"not-started"}) = Having(r, {"not-started"}) BY <1>10, <1>11
  <2>2. Having(s, {"skipped"}) = Having(r, {"skipped"}) BY <1>10, <1>11
  <2>3. s.notStarted = Cardinality(Having(s, {"not-started"})) /\ s.skipped = Cardinality(Having(s, {"skipped"}))
    BY <1>1, <2>1, <2>2 DEF Base, CountsInv
  <2> QED BY <1>7, <1>12, <1>13, <1>14, <2>3 DEF CountsInv
<1>16. \A j \in Job : j # i => s.entry[j] = r.entry[j] BY <1>1 DEF Settling
<1>17. SkipInv(s)
  <2> SUFFICES ASSUME NEW j \in Job, s.entry[j] = "skipped"
      PROVE  \E c \in Job \ {j} : IsCanary(c) /\ Shape[c] = Shape[j] /\ s.entry[c] \in Failure \ {"interrupted"}
    BY DEF SkipInv
  <2>1. r.entry[j] = "skipped"
    <3>1. s.entry[i] = st /\ st # "skipped" BY <1>1 DEF Settling, Ran
    <3> QED BY <1>16, <3>1
  <2>2. PICK c \in Job \ {j} : IsCanary(c) /\ Shape[c] = Shape[j] /\ r.entry[c] \in Failure \ {"interrupted"}
    BY <2>1 DEF Base, SkipInv
  <2>3. c # i BY <1>2, <2>2 DEF Failure, Ran, None
  <2> QED BY <1>16, <2>2, <2>3
<1>18. RestInv(s) BY <1>1 DEF RestInv
<1>19. ASSUME NEW c \in Job, IsCanary(c), c # i PROVE CanaryOf(s, c)
  <2>1. s.entry[c] = r.entry[c] /\ s.shapeOK = r.shapeOK /\ s.stop = r.stop BY <1>1, <1>16, <1>19
  <2> QED BY <1>4, <1>19, <2>1 DEF CanaryOf, Base, CanaryInv
<1>20. r.running \in Int /\ r.failed \in Int /\ r.auth \in Int BY DEF RunRec
<1>21. MaxFailures \in Nat /\ Pool \in Nat BY Asking
<1>22. /\ r.running <= Pool /\ (MaxFailures > 0 => r.failed + r.running < MaxFailures + Pool)
       /\ StopOnAuth => r.auth + r.running <= Pool
  BY DEF Base
<1>23. s.running <= Pool BY <1>1, <1>20, <1>21, <1>22
<1>24. MaxFailures > 0 => s.failed + s.running < MaxFailures + Pool BY <1>1, <1>20, <1>21, <1>22
<1>25. StopOnAuth => s.auth + s.running <= Pool
  <2> SUFFICES ASSUME StopOnAuth PROVE s.auth + s.running <= Pool OBVIOUS
  <2>1. r.auth + r.running <= Pool BY <1>22
  <2> QED BY <1>1, <1>20, <1>21, <2>1
<1> QED BY <1>1, <1>3, <1>4, <1>15, <1>17, <1>18, <1>19, <1>23, <1>24, <1>25

\* The end of a job, as far as its shape is concerned.
LEMMA AfterCanaryKeeps ==
  ASSUME NEW r \in RunRec, Base(r), run.asked \in Asked, NEW i \in Job, r.state[i] = "running", NEW st \in Ran,
         st = "interrupted" => Unstarted(r) = {},
         NEW e, e = Ended(r, i, st), NEW s, s = AfterCanary(e, i, st)
  PROVE  /\ s \in RunRec /\ Base(s) /\ Drops(e, s) /\ s.asked = r.asked
         /\ s.stop = r.stop /\ s.interrupted = r.interrupted /\ s.parent = r.parent
         /\ s.failed = e.failed /\ s.auth = e.auth
<1>1. /\ e \in RunRec /\ JobsInv(e) /\ CountsInv(e) /\ SkipInv(e) /\ RestInv(e)
      /\ Unstarted(e) = Unstarted(r)
      /\ \A c \in Job : IsCanary(c) /\ c # i => CanaryOf(e, c)
      /\ e.running <= Pool
      /\ MaxFailures > 0 => e.failed + e.running < MaxFailures + Pool
      /\ StopOnAuth => e.auth + e.running <= Pool
  BY EndedKeeps
<1>2. /\ Settling(r, e, {i}, st) /\ e.asked = r.asked /\ e.shapeOK = r.shapeOK /\ e.parent = r.parent
      /\ e.stop = r.stop /\ e.interrupted = r.interrupted
  <2>1. Ending(r, e, i, st) BY EndedFields
  <2> QED BY <2>1 DEF Ending
<1>3. e.entry[i] = st /\ e.state[i] = "settled" BY <1>2 DEF Settling
<1>4. e.stop # None => Unstarted(e) = {} BY <1>1, <1>2 DEF Base
<1>5. CASE ~IsCanary(i)
  <2>1. s = e BY <1>5 DEF AfterCanary
  <2>2. CanaryInv(e) BY <1>1, <1>5 DEF CanaryInv, CanaryOf
  <2>3. Base(e) BY <1>1, <1>4, <2>2 DEF Base
  <2>4. Drops(e, e) BY DEF Drops
  <2> QED BY <1>1, <1>2, <2>1, <2>3, <2>4
<1>6. CASE IsCanary(i) /\ st = "ok"
  <2> DEFINE o == e.shapeOK \cup {Shape[i]}
  <2>1. s = [e EXCEPT !.shapeOK = o] BY <1>6 DEF AfterCanary
  <2>2. o \in SUBSET Shapes BY <1>1 DEF RunRec, Shapes, Shape
  <2> HIDE DEF o
  <2>3. s \in RunRec BY <1>1, <2>1, <2>2 DEF RunRec
  <2>4. /\ s.asked = e.asked /\ s.state = e.state /\ s.entry = e.entry /\ s.row = e.row /\ s.running = e.running
        /\ s.shapeOK = o /\ s.stop = e.stop /\ s.interrupted = e.interrupted /\ s.parent = e.parent
        /\ s.pausing = e.pausing /\ s.owed = e.owed /\ s.ok = e.ok /\ s.failed = e.failed /\ s.auth = e.auth
        /\ s.notStarted = e.notStarted /\ s.skipped = e.skipped /\ s.rest = e.rest
    BY <1>1, <2>1 DEF RunRec
  <2>5. Unstarted(s) = Unstarted(e) BY <2>4 DEF Unstarted
  <2>6. CanaryInv(s)
    <3> SUFFICES ASSUME NEW c \in Job, IsCanary(c) PROVE CanaryOf(s, c) BY DEF CanaryInv, CanaryOf
    <3>1. CASE c = i BY <1>3, <1>6, <2>4, <3>1 DEF CanaryOf, o, Failure
    <3>2. CASE c # i
      <4>1. Shape[c] # Shape[i] BY <1>6, <3>2, CanaryUnique
      <4>2. CanaryOf(e, c) BY <1>1, <3>2
      <4> QED BY <2>4, <2>5, <4>1, <4>2 DEF CanaryOf, o
    <3> QED BY <3>1, <3>2
  <2>7. JobsInv(s) /\ CountsInv(s) /\ SkipInv(s) /\ RestInv(s)
    BY <1>1, <2>4 DEF JobsInv, CountsInv, SkipInv, RestInv, In, Having
  <2>8. Base(s) BY <1>1, <1>4, <2>4, <2>5, <2>6, <2>7 DEF Base
  <2>9. Drops(e, s) BY <2>4 DEF Drops
  <2> QED BY <1>2, <2>3, <2>4, <2>8, <2>9
<1>7. CASE IsCanary(i) /\ st # "ok"
  <2> DEFINE L == {j \in Unstarted(e) : ~IsCanary(j) /\ Shape[j] = Shape[i]}
  <2>1. s = SkipShape(e, i) BY <1>7 DEF AfterCanary
  <2>2. /\ s \in RunRec /\ SameBut(e, s) /\ Settling(e, s, L, "skipped")
        /\ s.interrupted = e.interrupted /\ s.stop = e.stop /\ s.pausing = e.pausing
        /\ s.notStarted = e.notStarted /\ s.skipped = e.skipped + Cardinality(L)
    BY <1>1, <2>1, SkipShapeFields
  <2>3. JobsInv(s) /\ CountsInv(s) /\ Drops(e, s) /\ Unstarted(s) = Unstarted(e) \ L
    BY <1>1, <2>2, SettlingKeeps
  <2>4. \A j \in L : j \in Job /\ e.entry[j] = None /\ ~IsCanary(j) /\ Shape[j] = Shape[i]
    BY <1>1 DEF Unstarted, JobsInv
  <2>5. st \in Failure BY <1>7 DEF Failure
  <2>6. i \notin L BY <1>7
  <2> HIDE DEF L
  <2>7. \A j \in Job : j \notin L => s.entry[j] = e.entry[j] BY <2>2 DEF Settling
  <2>8. CanaryInv(s)
    <3> SUFFICES ASSUME NEW c \in Job, IsCanary(c) PROVE CanaryOf(s, c) BY DEF CanaryInv, CanaryOf
    <3>0. s.entry[c] = e.entry[c] /\ s.shapeOK = e.shapeOK /\ s.stop = e.stop BY <2>2, <2>4, <2>7 DEF SameBut
    <3>1. CASE c = i
      <4>1. s.entry[c] = st /\ st # "ok" /\ st # "skipped" /\ st # "not-started" BY <1>3, <1>7, <3>0, <3>1 DEF Ran
      <4>2. Shape[c] \notin s.shapeOK
        <5>1. r.entry[i] # "ok" BY DEF Base, JobsInv, None
        <5> QED BY <1>2, <1>7, <3>0, <3>1, <5>1 DEF Base, CanaryInv
      <4>3. \A j \in Unstarted(s) : Shape[j] = Shape[c] => IsCanary(j) BY <2>3, <3>1 DEF L
      <4> QED BY <4>1, <4>2, <4>3 DEF CanaryOf
    <3>2. CASE c # i
      <4>1. CanaryOf(e, c) BY <1>1, <3>2
      <4> QED BY <2>3, <3>0, <4>1 DEF CanaryOf
    <3> QED BY <3>1, <3>2
  <2>9. SkipInv(s)
    <3> SUFFICES ASSUME NEW j \in Job, s.entry[j] = "skipped"
        PROVE  \E c \in Job \ {j} : IsCanary(c) /\ Shape[c] = Shape[j] /\ s.entry[c] \in Failure \ {"interrupted"}
      BY DEF SkipInv
    <3>1. CASE j \in L
      <4>1. st # "interrupted" BY <1>1, <3>1 DEF L
      <4>2. i # j /\ Shape[i] = Shape[j] /\ s.entry[i] = st BY <1>3, <2>4, <2>6, <2>7, <3>1
      <4> QED BY <1>7, <2>5, <4>1, <4>2
    <3>2. CASE j \notin L
      <4>1. e.entry[j] = "skipped" BY <2>7, <3>2
      <4>2. PICK c \in Job \ {j} : IsCanary(c) /\ Shape[c] = Shape[j] /\ e.entry[c] \in Failure \ {"interrupted"}
        BY <1>1, <4>1 DEF SkipInv
      <4>3. s.entry[c] = e.entry[c] BY <2>4, <2>7, <4>2
      <4> QED BY <4>2, <4>3
    <3> QED BY <3>1, <3>2
  <2>10. RestInv(s) BY <1>1, <2>2 DEF RestInv, SameBut
  <2>11. s.stop # None => Unstarted(s) = {} BY <1>4, <2>2, <2>3
  <2>12. s.running = e.running /\ s.failed = e.failed /\ s.auth = e.auth /\ s.asked = e.asked /\ s.parent = e.parent
    BY <2>2 DEF SameBut
  <2>13. Base(s) BY <1>1, <2>3, <2>8, <2>9, <2>10, <2>11, <2>12 DEF Base
  <2> QED BY <1>2, <2>2, <2>3, <2>12, <2>13
<1> QED BY <1>5, <1>6, <1>7

LEMMA DropsTwice ==
  ASSUME NEW r, NEW u, NEW s, Drops(r, u), Drops(u, s)
  PROVE  Drops(r, s)
BY DEF Drops

\* The end of a job, with the stop it may bring.
LEMMA AfterFailureKeeps ==
  ASSUME NEW r \in RunRec, RunInv(r), run.asked \in Asked, NEW i \in Job, r.state[i] = "running", NEW st \in Ran,
         st = "interrupted" => Unstarted(r) = {},
         NEW e, e = Ended(r, i, st), NEW s, s = AfterFailure(AfterCanary(e, i, st), st)
  PROVE  /\ s \in RunRec /\ RunInv(s) /\ Drops(e, s) /\ s.asked = r.asked
         /\ s.interrupted = r.interrupted /\ s.parent = r.parent
<1> DEFINE u == AfterCanary(e, i, st)
<1>1. /\ Base(r) /\ (r.interrupted => r.stop # None) /\ (~r.parent => r.interrupted)
      /\ r.stop = None => (MaxFailures > 0 => r.failed < MaxFailures) /\ (StopOnAuth => r.auth = 0)
  BY RunInvParts
<1>2. /\ u \in RunRec /\ Base(u) /\ Drops(e, u) /\ u.asked = r.asked
      /\ u.stop = r.stop /\ u.interrupted = r.interrupted /\ u.parent = r.parent
      /\ u.failed = e.failed /\ u.auth = e.auth
  BY <1>1, AfterCanaryKeeps
<1>3. s = AfterFailure(u, st) OBVIOUS
<1> HIDE DEF u
<1>4. ASSUME NEW why \in {"interrupted", "max-failures", "auth-failure"}, s = StopFor(u, why)
      PROVE  /\ s \in RunRec /\ RunInv(s) /\ Drops(e, s) /\ s.asked = r.asked
             /\ s.interrupted = r.interrupted /\ s.parent = r.parent
  <2>1. /\ s \in RunRec /\ Base(s) /\ s.stop # None /\ Drops(u, s)
        /\ s.asked = u.asked /\ s.interrupted = u.interrupted /\ s.parent = u.parent
    BY <1>2, <1>4, StopForKeeps
  <2>2. Drops(e, s) BY <1>2, <2>1, DropsTwice
  <2>3. RunInv(s) BY <1>1, <1>2, <2>1, RunInvParts
  <2> QED BY <1>2, <2>1, <2>2, <2>3
<1>5. CASE st = "auth-failed" /\ StopOnAuth
  <2>1. s = StopFor(u, "auth-failure") BY <1>3, <1>5 DEF AfterFailure
  <2> QED BY <1>4, <2>1
<1>6. CASE ~(st = "auth-failed" /\ StopOnAuth) /\ MaxFailures > 0 /\ u.failed >= MaxFailures /\ st \in Failure
  <2>1. s = StopFor(u, "max-failures") BY <1>3, <1>6 DEF AfterFailure
  <2> QED BY <1>4, <2>1
<1>7. CASE ~(st = "auth-failed" /\ StopOnAuth) /\ ~(MaxFailures > 0 /\ u.failed >= MaxFailures /\ st \in Failure)
  <2>1. s = u BY <1>3, <1>7 DEF AfterFailure
  <2>2. /\ e.failed = IF st \in Failure THEN r.failed + 1 ELSE r.failed
        /\ e.auth = IF st = "auth-failed" THEN r.auth + 1 ELSE r.auth
    <3>1. Ending(r, e, i, st) BY EndedFields
    <3> QED BY <3>1 DEF Ending
  <2>3. u.failed \in Int /\ MaxFailures \in Nat BY <1>2, Asking DEF RunRec
  <2>4. u.stop = None /\ MaxFailures > 0 => u.failed < MaxFailures
    <3>1. CASE st \in Failure BY <1>7, <2>3, <3>1
    <3>2. CASE st \notin Failure BY <1>1, <1>2, <2>2, <3>2
    <3> QED BY <3>1, <3>2
  <2>5. u.stop = None /\ StopOnAuth => u.auth = 0
    <3> SUFFICES ASSUME u.stop = None, StopOnAuth PROVE u.auth = 0 OBVIOUS
    <3>1. st # "auth-failed" BY <1>7
    <3>2. r.auth = 0 BY <1>1, <1>2
    <3> QED BY <1>2, <2>2, <3>1, <3>2
  <2>6. RunInv(u) BY <1>1, <1>2, <2>4, <2>5, RunInvParts
  <2> QED BY <1>2, <2>1, <2>6
<1> QED BY <1>5, <1>6, <1>7

\* The goroutines and the channel do not notice the jobs that are dropped.
LEMMA DropsKeepWork ==
  ASSUME NEW r \in RunRec, NEW s \in RunRec, Drops(r, s), WorkInv(r)
  PROVE  WorkInv(s)
<1> SUFFICES ASSUME NEW i \in Job
    PROVE  /\ s.state[i] = "unstarted" => work[i] = "idle"
           /\ s.state[i] = "running" => work[i] # "idle"
           /\ s.state[i] = "settled" => work[i] \in {"idle", "gone"}
           /\ s.state[i] = "settled" /\ work[i] = "gone" => s.entry[i] \in Ran
  BY DEF WorkInv
<1>1. CASE s.state[i] = r.state[i] /\ s.entry[i] = r.entry[i] BY <1>1 DEF WorkInv
<1>2. CASE r.state[i] = "unstarted" /\ s.state[i] = "settled"
  <2>1. work[i] = "idle" BY <1>2 DEF WorkInv
  <2> QED BY <1>2, <2>1
<1> QED BY <1>1, <1>2 DEF Drops

LEMMA MsgOf ==
  ASSUME NEW q \in Seq(Msg), NEW k \in 1 .. Len(q)
  PROVE  /\ q[k] \in Msg /\ q[k].job \in Job /\ q[k].kind \in {"step", "mark", "end"}
         /\ q[k].status \in Ran \cup {None}
<1>1. q[k] \in Msg OBVIOUS
<1> QED BY <1>1 DEF Msg

LEMMA DropsKeepChan ==
  ASSUME NEW r \in RunRec, NEW s \in RunRec, Drops(r, s), NEW q \in Seq(Msg), ChanInv(r, q)
  PROVE  ChanInv(s, q)
<1>1. \A i \in Job : r.state[i] = "running" <=> s.state[i] = "running" BY DEF Drops
<1>2. \A k \in 1 .. Len(q) : q[k].job \in Job BY MsgOf
<1>3. \A k \in 1 .. Len(q) : s.state[q[k].job] = "running" BY <1>1, <1>2 DEF ChanInv
<1>4. \A i \in Job : s.state[i] = "running" /\ work[i] = "gone" =>
       \E k \in 1 .. Len(q) : q[k].job = i /\ q[k].kind = "end"
  BY <1>1 DEF ChanInv
<1> QED BY <1>3, <1>4 DEF ChanInv

LEMMA TailOf ==
  ASSUME NEW q \in Seq(Msg), q # <<>>
  PROVE  /\ Tail(q) \in Seq(Msg) /\ Len(Tail(q)) = Len(q) - 1 /\ Len(q) \in Nat \ {0}
         /\ \A k \in 1 .. Len(Tail(q)) : k + 1 \in 1 .. Len(q) /\ Tail(q)[k] = q[k + 1]
         /\ 1 \in 1 .. Len(q) /\ Head(q) = q[1]
         /\ \A l \in 1 .. Len(q) : l # 1 => \E k \in 1 .. Len(Tail(q)) : l = k + 1
<1>1. Len(q) \in Nat \ {0} OBVIOUS
<1>2. Tail(q) \in Seq(Msg) /\ Len(Tail(q)) = Len(q) - 1 /\ Head(q) = q[1] OBVIOUS
<1>3. \A k \in 1 .. Len(Tail(q)) : k + 1 \in 1 .. Len(q) /\ Tail(q)[k] = q[k + 1] OBVIOUS
<1>4. ASSUME NEW l \in 1 .. Len(q), l # 1 PROVE \E k \in 1 .. Len(Tail(q)) : l = k + 1
  <2>1. l - 1 \in 1 .. Len(Tail(q)) /\ l = (l - 1) + 1 BY <1>1, <1>2, <1>4
  <2> QED BY <2>1
<1> QED BY <1>1, <1>2, <1>3, <1>4

\* A report is taken.
LEMMA ReportTaken ==
  ASSUME NEW r, NEW q \in Seq(Msg), q # <<>>, ChanInv(r, q), Head(q).kind # "end"
  PROVE  ChanInv(r, Tail(q))
<1> DEFINE t == Tail(q)
<1>1. /\ t \in Seq(Msg) /\ Len(t) = Len(q) - 1 /\ Len(q) \in Nat \ {0}
      /\ \A k \in 1 .. Len(t) : k + 1 \in 1 .. Len(q) /\ t[k] = q[k + 1]
      /\ 1 \in 1 .. Len(q) /\ Head(q) = q[1]
      /\ \A l \in 1 .. Len(q) : l # 1 => \E k \in 1 .. Len(t) : l = k + 1
  BY TailOf
<1> HIDE DEF t
<1>2. ASSUME NEW k \in 1 .. Len(t) PROVE r.state[t[k].job] = "running"
  <2>1. k + 1 \in 1 .. Len(q) /\ t[k] = q[k + 1] BY <1>1
  <2>2. r.state[q[k + 1].job] = "running" BY <2>1 DEF ChanInv
  <2> QED BY <2>1, <2>2
<1>3. \A k \in 1 .. Len(t) : t[k].kind = "end" => work[t[k].job] = "gone" /\ t[k].status \in Ran
  BY <1>1 DEF ChanInv
<1>4. ASSUME NEW k \in 1 .. Len(t), NEW l \in 1 .. Len(t), k < l, t[k].job = t[l].job PROVE t[k].kind # "end"
  <2>1. k + 1 \in 1 .. Len(q) /\ l + 1 \in 1 .. Len(q) /\ k + 1 < l + 1 BY <1>1, <1>4
  <2>2. t[k] = q[k + 1] /\ t[l] = q[l + 1] BY <1>1
  <2> QED BY <1>4, <2>1, <2>2 DEF ChanInv
<1>5. ASSUME NEW i \in Job, r.state[i] = "running", work[i] = "gone"
      PROVE  \E k \in 1 .. Len(t) : t[k].job = i /\ t[k].kind = "end"
  <2>1. PICK l \in 1 .. Len(q) : q[l].job = i /\ q[l].kind = "end" BY <1>5 DEF ChanInv
  <2>2. l # 1 BY <1>1, <2>1
  <2>3. PICK k \in 1 .. Len(t) : l = k + 1 BY <1>1, <2>2
  <2> QED BY <1>1, <2>1, <2>3
<1>6. ChanInv(r, t) BY <1>2, <1>3, <1>4, <1>5 DEF ChanInv
<1> QED BY <1>6 DEF t

\* The end of a job is taken: nothing of that job is left in the channel.
LEMMA EndTaken ==
  ASSUME NEW r \in RunRec, WorkInv(r), NEW q \in Seq(Msg), q # <<>>, ChanInv(r, q),
         NEW i \in Job, i = Head(q).job, NEW st \in Ran, Head(q).kind = "end",
         NEW e, e = Ended(r, i, st)
  PROVE  WorkInv(e) /\ ChanInv(e, Tail(q))
<1> DEFINE t == Tail(q)
<1>1. /\ t \in Seq(Msg) /\ Len(t) = Len(q) - 1 /\ Len(q) \in Nat \ {0}
      /\ \A k \in 1 .. Len(t) : k + 1 \in 1 .. Len(q) /\ t[k] = q[k + 1]
      /\ 1 \in 1 .. Len(q) /\ Head(q) = q[1]
      /\ \A l \in 1 .. Len(q) : l # 1 => \E k \in 1 .. Len(t) : l = k + 1
  BY TailOf
<1>2. Settling(r, e, {i}, st)
  <2>1. Ending(r, e, i, st) BY EndedFields
  <2> QED BY <2>1 DEF Ending
<1>3. /\ e.state[i] = "settled" /\ e.entry[i] = st
      /\ \A j \in Job : j # i => e.state[j] = r.state[j] /\ e.entry[j] = r.entry[j]
  BY <1>2 DEF Settling
<1>4. work[i] = "gone" BY <1>1 DEF ChanInv
<1>5. WorkInv(e) BY <1>3, <1>4 DEF WorkInv
<1> HIDE DEF t
<1>6. \A k \in 1 .. Len(t) : t[k].job \in Job /\ t[k].job # i
  <2> SUFFICES ASSUME NEW k \in 1 .. Len(t) PROVE t[k].job \in Job /\ t[k].job # i OBVIOUS
  <2>1. t[k].job \in Job BY <1>1, MsgOf
  <2>2. 1 < k + 1 /\ k + 1 \in 1 .. Len(q) /\ t[k] = q[k + 1] BY <1>1
  <2>3. t[k].job # i BY <1>1, <2>2 DEF ChanInv
  <2> QED BY <2>1, <2>3
<1>7. \A k \in 1 .. Len(t) : e.state[t[k].job] = "running"
  <2>1. \A k \in 1 .. Len(t) : r.state[t[k].job] = "running" BY <1>1 DEF ChanInv
  <2> QED BY <1>3, <1>6, <2>1
<1>8. \A k \in 1 .. Len(t) : t[k].kind = "end" => work[t[k].job] = "gone" /\ t[k].status \in Ran
  BY <1>1 DEF ChanInv
<1>9. ASSUME NEW k \in 1 .. Len(t), NEW l \in 1 .. Len(t), k < l, t[k].job = t[l].job PROVE t[k].kind # "end"
  <2>1. k + 1 \in 1 .. Len(q) /\ l + 1 \in 1 .. Len(q) /\ k + 1 < l + 1 BY <1>1, <1>9
  <2>2. t[k] = q[k + 1] /\ t[l] = q[l + 1] BY <1>1
  <2> QED BY <1>9, <2>1, <2>2 DEF ChanInv
<1>10. ASSUME NEW j \in Job, e.state[j] = "running", work[j] = "gone"
      PROVE  \E k \in 1 .. Len(t) : t[k].job = j /\ t[k].kind = "end"
  <2>0. j # i /\ r.state[j] = "running" BY <1>3, <1>10
  <2>1. PICK l \in 1 .. Len(q) : q[l].job = j /\ q[l].kind = "end" BY <1>10, <2>0 DEF ChanInv
  <2>2. l # 1 BY <1>1, <2>0, <2>1
  <2>3. PICK k \in 1 .. Len(t) : l = k + 1 BY <1>1, <2>2
  <2> QED BY <1>1, <2>1, <2>3
<1>11. ChanInv(e, t) BY <1>7, <1>8, <1>9, <1>10 DEF ChanInv
<1> QED BY <1>5, <1>11 DEF t

----------------------------------------------------------------------------
(* The steps.                                                                *)

\* A step asks for what Run was asked for.
LEMMA AskedStays ==
  ASSUME run'.asked = run.asked
  PROVE  /\ Shape' = Shape /\ MaxSteps' = MaxSteps /\ Pool' = Pool /\ Canary' = Canary
         /\ Pause' = Pause /\ MaxFailures' = MaxFailures
         /\ \A c \in Job : IsCanary(c)' <=> IsCanary(c)
<1>1. /\ Shape' = Shape /\ MaxSteps' = MaxSteps /\ Pool' = Pool /\ Canary' = Canary
      /\ Pause' = Pause /\ MaxFailures' = MaxFailures
  BY DEF Shape, MaxSteps, Pool, Canary, Pause, MaxFailures
<1> QED BY <1>1 DEF IsCanary

LEMMA RunPrimed ==
  ASSUME run'.asked = run.asked, ctxDone => ctxDone', RunInv(run')
  PROVE  RunInv(run)'
<1>1. /\ Shape' = Shape /\ MaxSteps' = MaxSteps /\ Pool' = Pool /\ Canary' = Canary
      /\ Pause' = Pause /\ MaxFailures' = MaxFailures
      /\ \A c \in Job : IsCanary(c)' <=> IsCanary(c)
  BY AskedStays
<1>2. JobsInv(run)' BY DEF RunInv, JobsInv
<1>3. CountsInv(run)' BY DEF RunInv, CountsInv, In, Having
<1>4. StopInv(run)' BY DEF RunInv, StopInv, Unstarted
<1>5. CanaryInv(run)'
  <2> SUFFICES ASSUME NEW c \in Job, IsCanary(c)
      PROVE  /\ Shape[c] \in run'.shapeOK <=> run'.entry[c] = "ok"
             /\ run'.entry[c] # "skipped" /\ (run'.entry[c] = "not-started" => run'.stop # None)
             /\ run'.entry[c] \in Failure => \A i \in Unstarted(run') : Shape[i] = Shape[c] => IsCanary(i)'
    BY <1>1 DEF CanaryInv, Unstarted
  <2>1. \A i \in Unstarted(run') : i \in Job BY DEF Unstarted
  <2> QED BY <1>1, <2>1 DEF RunInv, CanaryInv
<1>6. SkipInv(run)'
  <2> SUFFICES ASSUME NEW i \in Job, run'.entry[i] = "skipped"
      PROVE  \E c \in Job \ {i} : IsCanary(c)' /\ Shape[c] = Shape[i] /\ run'.entry[c] \in Failure \ {"interrupted"}
    BY <1>1 DEF SkipInv
  <2> QED BY <1>1 DEF RunInv, SkipInv
<1>7. BudgetInv(run)' BY <1>1 DEF RunInv, BudgetInv
<1>8. RestInv(run)' BY <1>1 DEF RunInv, RestInv
<1> QED BY <1>2, <1>3, <1>4, <1>5, <1>6, <1>7, <1>8 DEF RunInv

\* What stays when the dispatcher's record does.
LEMMA RunStays ==
  ASSUME Inv, UNCHANGED run, ctxDone => ctxDone'
  PROVE  RunInv(run)' /\ MaxSteps' = MaxSteps
<1>1. RunInv(run') BY DEF Inv
<1> QED BY <1>1, RunPrimed, AskedStays

\* The record when job i is begun.
Begun(r, i) ==
  [r EXCEPT !.owed = FALSE, !.state[i] = "running", !.row[i] = "running", !.running = @ + 1]

LEMMA StartKeeps ==
  ASSUME NEW r \in RunRec, RunInv(r), run.asked \in Asked, NEW i \in Job, r.state[i] = "unstarted",
         r.stop = None, ~r.pausing, r.running < Pool, ~(r.owed /\ Pause),
         NEW s, s = Begun(r, i)
  PROVE  /\ s \in RunRec /\ RunInv(s) /\ s.asked = r.asked /\ s.entry = r.entry /\ s.interrupted = r.interrupted
         /\ s.state[i] = "running" /\ \A j \in Job : j # i => s.state[j] = r.state[j]
<1> DEFINE sf == [r.state EXCEPT ![i] = "running"]
           rf == [r.row EXCEPT ![i] = "running"]
           k == r.running + 1
<1>1. s = [r EXCEPT !.owed = FALSE, !.state = sf, !.row = rf, !.running = k] BY DEF RunRec, Begun
<1>2. sf \in States /\ rf \in Rows /\ k \in Int BY DEF RunRec, States, Rows
<1>3. \A j \in Job : /\ sf[j] = IF j = i THEN "running" ELSE r.state[j]
                     /\ rf[j] = IF j = i THEN "running" ELSE r.row[j]
  BY DEF RunRec, States, Rows
<1>4. k = r.running + 1 OBVIOUS
<1> HIDE DEF sf, rf, k
<1>5. s \in RunRec BY <1>1, <1>2 DEF RunRec
<1>6. /\ s.state = sf /\ s.row = rf /\ s.running = k /\ s.owed = FALSE
      /\ s.asked = r.asked /\ s.entry = r.entry /\ s.shapeOK = r.shapeOK /\ s.stop = r.stop
      /\ s.interrupted = r.interrupted /\ s.parent = r.parent /\ s.pausing = r.pausing
      /\ s.ok = r.ok /\ s.failed = r.failed /\ s.auth = r.auth
      /\ s.notStarted = r.notStarted /\ s.skipped = r.skipped /\ s.rest = r.rest
  BY <1>1 DEF RunRec
<1>7. JobsInv(s)
  <2> SUFFICES ASSUME NEW j \in Job
      PROVE  /\ s.state[j] = "unstarted" => s.entry[j] = None /\ s.row[j] = "queued"
             /\ s.state[j] = "running" => s.entry[j] = None /\ s.row[j] = "running"
             /\ s.state[j] = "settled" => s.entry[j] # None /\ s.row[j] = s.entry[j]
    BY DEF JobsInv
  <2>0. JobsInv(r) BY DEF RunInv
  <2>1. CASE j = i
    <3>1. s.state[i] = "running" /\ s.row[i] = "running" BY <1>3, <1>6
    <3>2. s.entry[i] = None BY <1>6, <2>0 DEF JobsInv
    <3> QED BY <2>1, <3>1, <3>2
  <2>2. CASE j # i
    <3>1. s.state[j] = r.state[j] /\ s.row[j] = r.row[j] /\ s.entry[j] = r.entry[j] BY <1>3, <1>6, <2>2
    <3> QED BY <2>0, <3>1 DEF JobsInv
  <2> QED BY <2>1, <2>2
<1>8. CountsInv(s)
  <2>1. In(s, "running") = In(r, "running") \cup {i} BY <1>3, <1>6 DEF In
  <2>2. i \notin In(r, "running") /\ In(r, "running") \in SUBSET Job BY DEF In
  <2>3. Cardinality(In(s, "running")) = Cardinality(In(r, "running")) + 1 BY <2>1, <2>2, OneMore
  <2>4. s.running = Cardinality(In(s, "running")) BY <1>4, <1>6, <2>3 DEF RunInv, CountsInv
  <2> QED BY <1>6, <2>4 DEF RunInv, CountsInv, Having
<1>9. StopInv(s) BY <1>6 DEF RunInv, StopInv
<1>10. CanaryInv(s)
  <2>1. Unstarted(s) \subseteq Unstarted(r) BY <1>3, <1>6 DEF Unstarted
  <2> QED BY <1>6, <2>1 DEF RunInv, CanaryInv
<1>11. SkipInv(s) BY <1>6 DEF RunInv, SkipInv
<1>12. BudgetInv(s)
  <2>1. r.running \in Int /\ r.failed \in Int /\ r.auth \in Int /\ MaxFailures \in Nat /\ Pool \in Nat
    BY Asking DEF RunRec
  <2>2. (MaxFailures > 0 => r.failed < MaxFailures) /\ (StopOnAuth => r.auth = 0) BY DEF RunInv, BudgetInv
  <2>3. s.running <= Pool /\ (MaxFailures > 0 => s.failed + s.running < MaxFailures + Pool)
    BY <1>4, <1>6, <2>1, <2>2
  <2>4. StopOnAuth => s.auth + s.running <= Pool
    <3> SUFFICES ASSUME StopOnAuth PROVE s.auth + s.running <= Pool OBVIOUS
    <3>1. r.auth = 0 BY <2>2
    <3> QED BY <1>4, <1>6, <2>1, <3>1
  <2> QED BY <1>6, <2>2, <2>3, <2>4 DEF BudgetInv
<1>13. RestInv(s) BY <1>6 DEF RunInv, RestInv
<1>14. s.state[i] = "running" /\ \A j \in Job : j # i => s.state[j] = r.state[j] BY <1>3, <1>6
<1> QED BY <1>5, <1>6, <1>7, <1>8, <1>9, <1>10, <1>11, <1>12, <1>13, <1>14 DEF RunInv

\* The job that is picked has not been started, and its canary has succeeded.
LEMMA Picked ==
  ASSUME Inv, NEW i \in Job, i \in Picks
  PROVE  /\ run.state[i] = "unstarted"
         /\ \A c \in Job : c # i /\ IsCanary(c) /\ Shape[c] = Shape[i] => run.entry[c] = "ok"
<1> DEFINE unstarted == {j \in Job : run.state[j] = "unstarted"}
           canaries == {j \in unstarted : IsCanary(j)}
           free == {j \in unstarted : ~Canary \/ Shape[j] = NoShape \/ Shape[j] \in run.shapeOK}
<1>1. i \in canaries \/ i \in free BY DEF Picks
<1>2. run.state[i] = "unstarted" BY <1>1
<1> SUFFICES ASSUME NEW c \in Job, c # i, IsCanary(c), Shape[c] = Shape[i] PROVE run.entry[c] = "ok"
  BY <1>2
<1>3. ~IsCanary(i) BY CanaryUnique
<1>4. Canary /\ Shape[i] # NoShape BY DEF IsCanary
<1>5. Shape[i] \in run.shapeOK BY <1>1, <1>3, <1>4
<1> QED BY <1>5 DEF Inv, RunInv, CanaryInv

LEMMA StepStart ==
  ASSUME Inv, NEW i \in Job, Start(i)
  PROVE  Inv'
<1>0. TypeInv /\ RunInv(run) /\ WorkInv(run) /\ ChanInv(run, results) /\ FollowInv(run) /\ SignalInv /\ EndInv BY DEF Inv
<1>1. run \in RunRec /\ run.asked \in Asked BY <1>0 DEF TypeInv, RunRec
<1>2. /\ run.state[i] = "unstarted"
      /\ \A c \in Job : c # i /\ IsCanary(c) /\ Shape[c] = Shape[i] => run.entry[c] = "ok"
  BY Picked DEF Start
<1>3. /\ run' \in RunRec /\ RunInv(run') /\ run'.asked = run.asked /\ run'.entry = run.entry
      /\ run'.interrupted = run.interrupted
      /\ run'.state[i] = "running" /\ \A j \in Job : j # i => run'.state[j] = run.state[j]
  <2>1. run.stop = None /\ ~run.pausing /\ run.running < Pool /\ ~(run.owed /\ Pause) BY DEF Start, MayStart
  <2>2. run' = Begun(run, i) BY DEF Start, Begun
  <2> QED BY <1>0, <1>1, <1>2, <2>1, <2>2, StartKeeps
<1>4. UNCHANGED <<pc, steps, results, sleeper, ints, given, ctxDone, runDone>> BY DEF Start
<1>5. RunInv(run)' BY <1>3, <1>4, RunPrimed
<1>6. /\ Shape' = Shape /\ MaxSteps' = MaxSteps /\ \A c \in Job : IsCanary(c)' <=> IsCanary(c)
  BY <1>3, AskedStays
<1>7. /\ work' \in [Job -> {"idle", "do", "gone"} \cup Ran] /\ work'[i] = "do"
      /\ \A j \in Job : j # i => work'[j] = work[j]
  BY <1>0 DEF TypeInv, Start
<1>8. TypeInv' BY <1>0, <1>3, <1>4, <1>6, <1>7 DEF TypeInv
<1>9. WorkInv(run)'
  <2> SUFFICES ASSUME NEW j \in Job
      PROVE  /\ run'.state[j] = "unstarted" => work'[j] = "idle"
             /\ run'.state[j] = "running" => work'[j] # "idle"
             /\ run'.state[j] = "settled" => work'[j] \in {"idle", "gone"}
             /\ run'.state[j] = "settled" /\ work'[j] = "gone" => run'.entry[j] \in Ran
    BY DEF WorkInv
  <2>1. CASE j = i BY <1>3, <1>7, <2>1
  <2>2. CASE j # i BY <1>0, <1>3, <1>7, <2>2 DEF WorkInv
  <2> QED BY <2>1, <2>2
<1>10. ChanInv(run, results)'
  <2>1. \A k \in 1 .. Len(results) : results[k].job \in Job BY <1>0, MsgOf DEF TypeInv
  <2>2. \A k \in 1 .. Len(results) : results[k].job # i BY <1>0, <1>2 DEF ChanInv
  <2>3. \A k \in 1 .. Len(results) : run'.state[results[k].job] = "running"
    BY <1>0, <1>3, <2>1, <2>2 DEF ChanInv
  <2>4. \A k \in 1 .. Len(results) : results[k].kind = "end" => work'[results[k].job] = "gone" /\ results[k].status \in Ran
    BY <1>0, <1>7, <2>1, <2>2 DEF ChanInv
  <2>5. ASSUME NEW j \in Job, run'.state[j] = "running", work'[j] = "gone"
        PROVE  \E k \in 1 .. Len(results) : results[k].job = j /\ results[k].kind = "end"
    <3>1. j # i BY <1>7, <2>5
    <3> QED BY <1>0, <1>3, <1>7, <2>5, <3>1 DEF ChanInv
  <2> QED BY <1>0, <1>4, <2>3, <2>4, <2>5 DEF ChanInv
<1>11. FollowInv(run)'
  <2> SUFFICES ASSUME NEW j \in Job, NEW c \in Job, work'[j] # "idle", c # j, IsCanary(c), Shape[c] = Shape[j]
      PROVE  run.entry[c] = "ok"
    BY <1>3, <1>6 DEF FollowInv
  <2>1. CASE j = i BY <1>2, <2>1
  <2>2. CASE j # i BY <1>0, <1>7, <2>2 DEF FollowInv
  <2> QED BY <2>1, <2>2
<1>12. SignalInv'
  <2>1. \A j \in Job : "interrupted" \in {work'[j], run'.entry[j]} => "interrupted" \in {work[j], run.entry[j]}
    BY <1>3, <1>7
  <2> QED BY <1>0, <1>3, <1>4, <2>1 DEF SignalInv
<1>13. EndInv' BY <1>4 DEF EndInv, Start
<1> QED BY <1>5, <1>8, <1>9, <1>10, <1>11, <1>12, <1>13 DEF Inv

LEMMA DropsKeepFollow ==
  ASSUME NEW r, NEW s, Drops(r, s), JobsInv(r), FollowInv(r)
  PROVE  FollowInv(s)
<1> SUFFICES ASSUME NEW i \in Job, NEW c \in Job, work[i] # "idle", c # i, IsCanary(c), Shape[c] = Shape[i]
    PROVE  s.entry[c] = "ok"
  BY DEF FollowInv
<1>1. r.entry[c] = "ok" BY DEF FollowInv
<1>2. r.state[c] # "unstarted" BY <1>1 DEF JobsInv, None
<1> QED BY <1>1, <1>2 DEF Drops

\* The goroutines stay as they are.
LEMMA WorkPrimed ==
  ASSUME run'.asked = run.asked, UNCHANGED work, WorkInv(run'), ChanInv(run', results'), FollowInv(run')
  PROVE  WorkInv(run)' /\ ChanInv(run, results)' /\ FollowInv(run)'
<1>1. Shape' = Shape /\ \A c \in Job : IsCanary(c)' <=> IsCanary(c) BY AskedStays
<1>2. WorkInv(run)' BY DEF WorkInv
<1>3. ChanInv(run, results)' BY DEF ChanInv
<1>4. FollowInv(run)' BY <1>1 DEF FollowInv
<1> QED BY <1>2, <1>3, <1>4

\* A step of the dispatcher that takes nothing from the channel.
LEMMA DropStep ==
  ASSUME Inv, run' \in RunRec, RunInv(run'), run'.asked = run.asked, Drops(run, run'),
         UNCHANGED <<work, steps, results, given, ctxDone>>
  PROVE  /\ RunInv(run)' /\ WorkInv(run)' /\ ChanInv(run, results)' /\ FollowInv(run)'
         /\ work' \in [Job -> {"idle", "do", "gone"} \cup Ran]
         /\ steps' \in [Job -> 0 .. MaxSteps'] /\ results' \in Seq(Msg) /\ given' \in 0 .. MaxSignals
         /\ ctxDone' \in BOOLEAN
         /\ \A i \in Job : "interrupted" \in {work'[i], run'.entry[i]} => "interrupted" \in {work[i], run.entry[i]}
<1>0. TypeInv /\ RunInv(run) /\ WorkInv(run) /\ ChanInv(run, results) /\ FollowInv(run) BY DEF Inv
<1>1. run \in RunRec BY <1>0 DEF TypeInv
<1>2. RunInv(run)' BY RunPrimed
<1>3. WorkInv(run') BY <1>0, <1>1, DropsKeepWork
<1>4. ChanInv(run', results')
  <2>1. results \in Seq(Msg) BY <1>0 DEF TypeInv
  <2> QED BY <1>0, <1>1, <2>1, DropsKeepChan
<1>5. FollowInv(run') BY <1>0, DropsKeepFollow DEF RunInv
<1>6. WorkInv(run)' /\ ChanInv(run, results)' /\ FollowInv(run)' BY <1>3, <1>4, <1>5, WorkPrimed
<1>7. MaxSteps' = MaxSteps BY AskedStays
<1>8. \A i \in Job : "interrupted" \in {work'[i], run'.entry[i]} => "interrupted" \in {work[i], run.entry[i]}
  BY DEF Drops
<1> QED BY <1>0, <1>2, <1>6, <1>7, <1>8 DEF TypeInv

\* A pause begins or is over.
PauseOnly(r, s) ==
  /\ s.asked = r.asked /\ s.state = r.state /\ s.entry = r.entry /\ s.row = r.row /\ s.running = r.running
  /\ s.shapeOK = r.shapeOK /\ s.stop = r.stop /\ s.interrupted = r.interrupted /\ s.parent = r.parent
  /\ s.ok = r.ok /\ s.failed = r.failed /\ s.auth = r.auth
  /\ s.notStarted = r.notStarted /\ s.skipped = r.skipped

LEMMA RestedKeeps ==
  ASSUME NEW r \in RunRec, RunInv(r), NEW s \in RunRec, PauseOnly(r, s), RestInv(s)
  PROVE  RunInv(s) /\ s.asked = r.asked /\ Drops(r, s) /\ s.interrupted = r.interrupted
<1>1. JobsInv(s) /\ CountsInv(s) /\ StopInv(s) /\ CanaryInv(s) /\ SkipInv(s) /\ BudgetInv(s)
  BY DEF PauseOnly, RunInv, JobsInv, CountsInv, StopInv, CanaryInv, SkipInv, BudgetInv, Unstarted, In, Having
<1>2. Drops(r, s) BY DEF Drops, PauseOnly
<1> QED BY <1>1, <1>2 DEF RunInv, PauseOnly

LEMMA StepBeginPause ==
  ASSUME Inv, BeginPause
  PROVE  Inv'
<1>0. TypeInv /\ RunInv(run) /\ SignalInv BY DEF Inv
<1>1. run \in RunRec BY <1>0 DEF TypeInv
<1>2. run' = [run EXCEPT !.owed = FALSE, !.pausing = TRUE, !.rest = "resting"] BY DEF BeginPause
<1>3. /\ run' \in RunRec /\ RunInv(run') /\ run'.asked = run.asked /\ Drops(run, run')
      /\ run'.interrupted = run.interrupted
  <2>1. run' \in RunRec /\ run'.pausing = TRUE /\ run'.rest = "resting" BY <1>1, <1>2 DEF RunRec
  <2>2. PauseOnly(run, run') BY <1>1, <1>2 DEF RunRec, PauseOnly
  <2>3. RestInv(run') BY <2>1 DEF RestInv
  <2> QED BY <1>0, <1>1, <2>1, <2>2, <2>3, RestedKeeps
<1>4. UNCHANGED <<work, steps, results, ints, given, ctxDone, runDone>> /\ pc' = "select" /\ sleeper' = "asleep"
  BY DEF BeginPause
<1>5. /\ RunInv(run)' /\ WorkInv(run)' /\ ChanInv(run, results)' /\ FollowInv(run)'
      /\ work' \in [Job -> {"idle", "do", "gone"} \cup Ran]
      /\ steps' \in [Job -> 0 .. MaxSteps'] /\ results' \in Seq(Msg) /\ given' \in 0 .. MaxSignals
      /\ ctxDone' \in BOOLEAN
      /\ \A i \in Job : "interrupted" \in {work'[i], run'.entry[i]} => "interrupted" \in {work[i], run.entry[i]}
  BY <1>3, <1>4, DropStep
<1>6. TypeInv' BY <1>0, <1>3, <1>4, <1>5 DEF TypeInv
<1>7. SignalInv' BY <1>0, <1>3, <1>4, <1>5 DEF SignalInv
<1>8. EndInv' BY <1>4 DEF EndInv
<1> QED BY <1>5, <1>6, <1>7, <1>8 DEF Inv

LEMMA StepTakePause ==
  ASSUME Inv, TakePause
  PROVE  Inv'
<1>0. TypeInv /\ RunInv(run) /\ SignalInv BY DEF Inv
<1>1. run \in RunRec BY <1>0 DEF TypeInv
<1> DEFINE x == IF sleeper = "slept" /\ run.rest = "resting" THEN "rested" ELSE run.rest
<1>2. x \in {"rested", "resting", "due"} BY <1>1 DEF RunRec
<1>3. /\ run' \in RunRec /\ RunInv(run') /\ run'.asked = run.asked /\ Drops(run, run')
      /\ run'.interrupted = run.interrupted
  <2>1. x = "due" => run.rest = "due" OBVIOUS
  <2>2. x = "resting" /\ ~ctxDone => run.stop # None
    <3> SUFFICES ASSUME x = "resting", ~ctxDone PROVE run.stop # None OBVIOUS
    <3>1. sleeper = "cut" BY DEF TakePause
    <3>2. run.interrupted BY <1>0, <3>1 DEF SignalInv
    <3> QED BY <1>0, <3>2 DEF RunInv, StopInv
  <2>3. run' = [run EXCEPT !.pausing = FALSE, !.rest = x] BY <1>1 DEF TakePause, RunRec
  <2> HIDE DEF x
  <2>4. run' \in RunRec /\ run'.rest = x /\ run'.owed = run.owed /\ run'.stop = run.stop BY <1>1, <1>2, <2>3 DEF RunRec
  <2>5. PauseOnly(run, run') BY <1>1, <2>3 DEF RunRec, PauseOnly
  <2>6. RestInv(run') BY <1>0, <2>1, <2>2, <2>4 DEF RunInv, RestInv
  <2> QED BY <1>0, <1>1, <2>4, <2>5, <2>6, RestedKeeps
<1>4. UNCHANGED <<work, steps, results, ints, given, ctxDone, runDone>> /\ pc' = "fill" /\ sleeper' = "idle"
  BY DEF TakePause
<1>5. /\ RunInv(run)' /\ WorkInv(run)' /\ ChanInv(run, results)' /\ FollowInv(run)'
      /\ work' \in [Job -> {"idle", "do", "gone"} \cup Ran]
      /\ steps' \in [Job -> 0 .. MaxSteps'] /\ results' \in Seq(Msg) /\ given' \in 0 .. MaxSignals
      /\ ctxDone' \in BOOLEAN
      /\ \A i \in Job : "interrupted" \in {work'[i], run'.entry[i]} => "interrupted" \in {work[i], run.entry[i]}
  BY <1>3, <1>4, DropStep
<1>6. TypeInv' BY <1>0, <1>3, <1>4, <1>5 DEF TypeInv
<1>7. SignalInv' BY <1>0, <1>3, <1>4, <1>5 DEF SignalInv
<1>8. EndInv' BY <1>4 DEF EndInv
<1> QED BY <1>5, <1>6, <1>7, <1>8 DEF Inv

\* When nothing runs and nothing may be begun, nothing is left to begin: the first job of
\* a shape that nobody settled would itself be picked.
LEMMA NothingLeft ==
  ASSUME Inv, run.running = 0, ~run.pausing, ~(MayStart /\ Picks # {})
  PROVE  \A i \in Job : run.state[i] = "settled"
<1>0. TypeInv /\ RunInv(run) BY DEF Inv
<1>1. run \in RunRec /\ run.asked \in Asked /\ run.state \in States BY <1>0 DEF TypeInv, RunRec
<1>2. In(run, "running") = {}
  <2>1. In(run, "running") \in SUBSET Job BY DEF In
  <2>2. Cardinality(In(run, "running")) = 0 BY <1>0 DEF RunInv, CountsInv
  <2> QED BY <2>1, <2>2, JobFinite, FS_EmptySet
<1> SUFFICES ASSUME NEW j \in Job, run.state[j] = "unstarted" PROVE FALSE
  BY <1>1, <1>2 DEF In, States
<1>3. run.stop = None BY <1>0 DEF RunInv, StopInv, Unstarted
<1>4. MayStart
  <2>1. Pool \in Job BY <1>1, Asking
  <2>2. 0 < Pool BY <2>1 DEF Job
  <2> QED BY <1>3, <2>2 DEF MayStart
<1> DEFINE unstarted == {i \in Job : run.state[i] = "unstarted"}
           canaries == {i \in unstarted : IsCanary(i)}
           free == {i \in unstarted : ~Canary \/ Shape[i] = NoShape \/ Shape[i] \in run.shapeOK}
           from == IF canaries # {} THEN canaries ELSE free
<1>5. from = {}
  <2>1. Picks = {i \in from : \A k \in from : i <= k} BY DEF Picks
  <2>2. from \in SUBSET Job OBVIOUS
  <2>3. Picks = {} BY <1>4
  <2> HIDE DEF from
  <2> QED BY <2>1, <2>2, <2>3, FirstExists
<1>6. canaries = {} /\ free = {} BY <1>5
<1>7. Canary /\ Shape[j] # NoShape /\ Shape[j] \notin run.shapeOK /\ ~IsCanary(j) BY <1>6
<1> DEFINE S == {k \in Job : Shape[k] = Shape[j]}
<1>8. PICK c \in S : \A k \in S : c <= k
  <2>1. S \in SUBSET Job /\ S # {} OBVIOUS
  <2> QED BY <2>1, FirstExists
<1>9. c \in Job /\ Shape[c] = Shape[j] /\ IsCanary(c)
  <2>1. ASSUME NEW k \in Job, k < c PROVE Shape[k] # Shape[c]
    <3>1. ~(c <= k) BY <2>1 DEF Job
    <3> QED BY <1>8, <3>1
  <2> QED BY <1>7, <2>1 DEF IsCanary
<1>10. run.state[c] = "settled"
  <2>1. run.state[c] # "unstarted" BY <1>6, <1>9
  <2>2. run.state[c] # "running" BY <1>2, <1>9 DEF In
  <2> QED BY <1>1, <1>9, <2>1, <2>2 DEF States
<1>11. run.entry[c] # None /\ run.entry[c] \in Status \cup {None}
  <2>1. run.entry \in Entries BY <1>1 DEF RunRec
  <2> QED BY <1>0, <1>9, <1>10, <2>1 DEF RunInv, JobsInv, Entries
<1>12. /\ run.entry[c] # "ok" /\ run.entry[c] # "skipped" /\ run.entry[c] # "not-started"
       /\ run.entry[c] \notin Failure
  <2>1. j \in Unstarted(run) BY DEF Unstarted
  <2> QED BY <1>0, <1>3, <1>7, <1>9, <2>1 DEF RunInv, CanaryInv
<1> QED BY <1>11, <1>12 DEF Status, Failure

LEMMA StepFillDone ==
  ASSUME Inv, FillDone
  PROVE  Inv'
<1>0. TypeInv /\ RunInv(run) /\ WorkInv(run) /\ ChanInv(run, results) /\ FollowInv(run) /\ SignalInv BY DEF Inv
<1>1. UNCHANGED <<run, work, steps, results, sleeper, ints, given, ctxDone, runDone>> /\ pc' \in {"select", "end"}
  BY DEF FillDone
<1>2. RunInv(run)' /\ MaxSteps' = MaxSteps BY <1>1, RunStays
<1>3. TypeInv' BY <1>0, <1>1, <1>2 DEF TypeInv
<1>4. WorkInv(run)' /\ ChanInv(run, results)' /\ FollowInv(run)'
  <2>1. run'.asked = run.asked /\ WorkInv(run') /\ ChanInv(run', results') /\ FollowInv(run') BY <1>0, <1>1
  <2> QED BY <1>1, <2>1, WorkPrimed
<1>5. SignalInv' BY <1>0, <1>1 DEF SignalInv
<1>6. EndInv'
  <2> SUFFICES ASSUME pc' = "end" PROVE \A i \in Job : run.state[i] = "settled" BY <1>1 DEF EndInv
  <2> QED BY NothingLeft DEF FillDone
<1> QED BY <1>2, <1>3, <1>4, <1>5, <1>6 DEF Inv

LEMMA StepTakeInterrupt ==
  ASSUME Inv, TakeInterrupt
  PROVE  Inv'
<1>0. TypeInv /\ RunInv(run) /\ SignalInv BY DEF Inv
<1>1. run \in RunRec /\ Base(run) BY <1>0, RunInvParts DEF TypeInv
<1>2. /\ run' \in RunRec /\ RunInv(run') /\ Drops(run, run')
      /\ run'.asked = run.asked /\ run'.interrupted = TRUE
  BY <1>1, InterruptKeeps DEF TakeInterrupt
<1>3. /\ UNCHANGED <<work, steps, results, given, ctxDone>> /\ pc' = "fill" /\ ints > 0 /\ ints' = ints - 1
      /\ runDone' = (runDone \/ run.interrupted) /\ (sleeper' = sleeper \/ sleeper' = "idle")
  BY DEF TakeInterrupt
<1>4. /\ RunInv(run)' /\ WorkInv(run)' /\ ChanInv(run, results)' /\ FollowInv(run)'
      /\ work' \in [Job -> {"idle", "do", "gone"} \cup Ran]
      /\ steps' \in [Job -> 0 .. MaxSteps'] /\ results' \in Seq(Msg) /\ given' \in 0 .. MaxSignals
      /\ ctxDone' \in BOOLEAN
      /\ \A i \in Job : "interrupted" \in {work'[i], run'.entry[i]} => "interrupted" \in {work[i], run.entry[i]}
  BY <1>2, <1>3, DropStep
<1>5. ints \in 0 .. 4 /\ ints' \in 0 .. 4 /\ ints \in Nat /\ given \in Nat BY <1>0, <1>3 DEF TypeInv
<1>6. TypeInv'
  <2>1. runDone' \in BOOLEAN BY <1>3
  <2> QED BY <1>0, <1>2, <1>3, <1>4, <1>5, <2>1 DEF TypeInv
<1>7. SignalInv'
  <2>1. ctxDone \/ run.interrupted => ctxDone \/ ints < given BY <1>0 DEF SignalInv
  <2>2. runDone' => ctxDone \/ given > 1
    <3>1. run.interrupted => ctxDone \/ given > 1 BY <1>3, <1>5, <2>1
    <3> QED BY <1>0, <1>3, <3>1 DEF SignalInv
  <2>3. runDone => runDone' BY <1>3
  <2>4. ints <= given BY <1>0 DEF SignalInv
  <2>5. ints' <= given' /\ ints' < given' BY <1>3, <1>5, <2>4
  <2>6. \A i \in Job : "interrupted" \in {work'[i], run'.entry[i]} => runDone' BY <1>0, <1>4, <2>3 DEF SignalInv
  <2>7. \A k \in 1 .. Len(results') : results'[k].status = "interrupted" => runDone' BY <1>0, <1>3, <2>3 DEF SignalInv
  <2>8. sleeper' = "cut" => runDone' BY <1>0, <1>3, <2>3 DEF SignalInv
  <2> QED BY <1>2, <1>3, <2>2, <2>5, <2>6, <2>7, <2>8 DEF SignalInv
<1>8. EndInv' BY <1>3 DEF EndInv
<1> QED BY <1>4, <1>6, <1>7, <1>8 DEF Inv

LEMMA StepTakeCancel ==
  ASSUME Inv, TakeCancel
  PROVE  Inv'
<1>0. TypeInv /\ RunInv(run) /\ SignalInv BY DEF Inv
<1>1. run \in RunRec /\ Base(run) BY <1>0, RunInvParts DEF TypeInv
<1>2. /\ run' \in RunRec /\ RunInv(run') /\ Drops(run, run')
      /\ run'.asked = run.asked /\ run'.interrupted = TRUE
  BY <1>1, CancelKeeps DEF TakeCancel
<1>3. /\ UNCHANGED <<work, steps, results, ints, given, ctxDone, runDone>> /\ pc' = "fill" /\ ctxDone
      /\ (sleeper' = sleeper \/ sleeper' = "idle")
  BY DEF TakeCancel
<1>4. /\ RunInv(run)' /\ WorkInv(run)' /\ ChanInv(run, results)' /\ FollowInv(run)'
      /\ work' \in [Job -> {"idle", "do", "gone"} \cup Ran]
      /\ steps' \in [Job -> 0 .. MaxSteps'] /\ results' \in Seq(Msg) /\ given' \in 0 .. MaxSignals
      /\ ctxDone' \in BOOLEAN
      /\ \A i \in Job : "interrupted" \in {work'[i], run'.entry[i]} => "interrupted" \in {work[i], run.entry[i]}
  BY <1>2, <1>3, DropStep
<1>6. TypeInv' BY <1>0, <1>2, <1>3, <1>4 DEF TypeInv
<1>7. SignalInv' BY <1>0, <1>3, <1>4 DEF SignalInv
<1>8. EndInv' BY <1>3 DEF EndInv
<1> QED BY <1>4, <1>6, <1>7, <1>8 DEF Inv

\* A progress step repaints a row that shows the job at work already.
LEMMA RowStays ==
  ASSUME NEW r \in RunRec, JobsInv(r), NEW j \in Job, r.state[j] = "running"
  PROVE  [r EXCEPT !.row[j] = "running"] = r
<1> DEFINE rf == [r.row EXCEPT ![j] = "running"]
<1>1. r.row[j] = "running" BY DEF JobsInv
<1>2. rf = r.row BY <1>1 DEF RunRec, Rows
<1>3. [r EXCEPT !.row[j] = "running"] = [r EXCEPT !.row = rf] BY DEF RunRec
<1> HIDE DEF rf
<1> QED BY <1>2, <1>3 DEF RunRec

LEMMA StepTakeResult ==
  ASSUME Inv, TakeResult
  PROVE  Inv'
<1> DEFINE m == Head(results)
           r == NoticeFirst(run)
<1>0. TypeInv /\ RunInv(run) /\ WorkInv(run) /\ ChanInv(run, results) /\ FollowInv(run) /\ SignalInv BY DEF Inv
<1>1. run \in RunRec /\ run.asked \in Asked /\ results \in Seq(Msg) /\ results # <<>>
  BY <1>0 DEF TypeInv, RunRec, TakeResult
<1>2. /\ r \in RunRec /\ RunInv(r) /\ Drops(run, r) /\ r.asked = run.asked
      /\ ctxDone => r.stop # None
      /\ run.interrupted => r.interrupted
      /\ r.interrupted => run.interrupted \/ ctxDone
  BY <1>0, <1>1, NoticeKeeps
<1>3. /\ run' = IF m.kind = "mark" THEN r
                ELSE IF m.kind = "step" THEN [r EXCEPT !.row[m.job] = "running"]
                ELSE AfterFailure(AfterCanary(Ended(r, m.job, m.status), m.job, m.status), m.status)
      /\ results' = Tail(results) /\ pc' = "fill" /\ (sleeper' = sleeper \/ sleeper' = "idle")
      /\ UNCHANGED <<work, steps, ints, given, ctxDone, runDone>>
  BY DEF TakeResult
<1>4. m.kind \in {"step", "mark", "end"} /\ m.job \in Job /\ 1 \in 1 .. Len(results) /\ m = results[1]
  <2>1. 1 \in 1 .. Len(results) /\ m = results[1] BY <1>1, TailOf
  <2> QED BY <1>1, <2>1, MsgOf
<1>5. results' \in Seq(Msg) /\ \A k \in 1 .. Len(results') : \E l \in 1 .. Len(results) : results'[k] = results[l]
  BY <1>1, <1>3, TailOf
<1> HIDE DEF m, r
<1>6. WorkInv(r) BY <1>0, <1>1, <1>2, DropsKeepWork
<1>7. ChanInv(r, results) BY <1>0, <1>1, <1>2, DropsKeepChan
<1>8. FollowInv(r) BY <1>0, <1>2, DropsKeepFollow DEF RunInv
<1>9. r.state[m.job] = "running" BY <1>4, <1>7 DEF ChanInv
<1>10. \A j \in Job : r.entry[j] = "interrupted" => runDone
  BY <1>0, <1>2 DEF SignalInv, Drops
<1>11. /\ run' \in RunRec /\ RunInv(run') /\ run'.asked = run.asked /\ WorkInv(run') /\ ChanInv(run', results')
       /\ FollowInv(run') /\ run'.interrupted = r.interrupted
       /\ \A j \in Job : run'.entry[j] = "interrupted" => runDone
  <2>1. CASE m.kind # "end"
    <3>1. run' = r BY <1>2, <1>3, <1>4, <1>9, <2>1, RowStays DEF RunInv
    <3>2. ChanInv(r, results') BY <1>1, <1>3, <1>7, <2>1, ReportTaken DEF m
    <3> QED BY <1>2, <1>6, <1>8, <1>10, <3>1, <3>2
  <2>2. CASE m.kind = "end"
    <3> DEFINE i == m.job
               st == m.status
               e == Ended(r, i, st)
    <3>1. i \in Job /\ st \in Ran /\ r.state[i] = "running" BY <1>4, <1>7, <1>9, <2>2 DEF ChanInv
    <3>2. st = "interrupted" => runDone BY <1>0, <1>4 DEF SignalInv
    <3>3. st = "interrupted" => Unstarted(r) = {}
      <4> SUFFICES ASSUME st = "interrupted" PROVE Unstarted(r) = {} OBVIOUS
      <4>1. ctxDone \/ run.interrupted BY <1>0, <3>2 DEF SignalInv
      <4>2. r.stop # None BY <1>2, <4>1 DEF RunInv, StopInv
      <4> QED BY <1>2, <4>2 DEF RunInv, StopInv
    <3>4. run' = AfterFailure(AfterCanary(e, i, st), st) BY <1>3, <2>2
    <3>5. WorkInv(e) /\ ChanInv(e, results')
      BY <1>1, <1>2, <1>3, <1>6, <1>7, <2>2, <3>1, EndTaken DEF m
    <3>6. e \in RunRec /\ Ending(r, e, i, st) BY <1>2, <3>1, EndedFields
    <3>7. \A j \in Job : e.entry[j] = IF j = i THEN st ELSE r.entry[j] BY <3>6 DEF Ending, Settling
    <3>8. JobsInv(e)
      <4>1. Base(r) BY <1>2, RunInvParts
      <4> HIDE DEF i, st
      <4> QED BY <1>1, <1>2, <3>1, <4>1, EndedKeeps
    <3> HIDE DEF i, st, e
    <3>9. FollowInv(e)
      <4> SUFFICES ASSUME NEW j \in Job, NEW c \in Job, work[j] # "idle", c # j, IsCanary(c), Shape[c] = Shape[j]
          PROVE  e.entry[c] = "ok"
        BY DEF FollowInv
      <4>1. r.entry[c] = "ok" BY <1>8 DEF FollowInv
      <4>2. c # i BY <1>2, <3>1, <4>1 DEF RunInv, JobsInv, None
      <4> QED BY <3>7, <4>1, <4>2
    <3>10. /\ run' \in RunRec /\ RunInv(run') /\ Drops(e, run') /\ run'.asked = r.asked
           /\ run'.interrupted = r.interrupted
      BY <1>1, <1>2, <3>1, <3>3, <3>4, AfterFailureKeeps DEF e
    <3>11. WorkInv(run') BY <3>5, <3>6, <3>10, DropsKeepWork
    <3>12. ChanInv(run', results') BY <1>5, <3>5, <3>6, <3>10, DropsKeepChan
    <3>13. FollowInv(run') BY <3>8, <3>9, <3>10, DropsKeepFollow
    <3>14. \A j \in Job : e.entry[j] = "interrupted" => runDone BY <1>10, <3>2, <3>7
    <3>15. \A j \in Job : run'.entry[j] = "interrupted" => runDone BY <3>10, <3>14 DEF Drops
    <3> QED BY <1>2, <3>10, <3>11, <3>12, <3>13, <3>15
  <2> QED BY <2>1, <2>2
<1>12. RunInv(run)' BY <1>3, <1>11, RunPrimed
<1>13. WorkInv(run)' /\ ChanInv(run, results)' /\ FollowInv(run)' BY <1>3, <1>11, WorkPrimed
<1>14. TypeInv'
  <2>1. MaxSteps' = MaxSteps BY <1>11, AskedStays
  <2> QED BY <1>0, <1>3, <1>5, <1>11, <2>1 DEF TypeInv
<1>15. SignalInv'
  <2>1. run'.interrupted => run.interrupted \/ ctxDone BY <1>2, <1>11
  <2>2. run.interrupted => run'.interrupted BY <1>2, <1>11
  <2>3. \A j \in Job : "interrupted" \in {work'[j], run'.entry[j]} => runDone BY <1>0, <1>3, <1>11 DEF SignalInv
  <2>4. \A k \in 1 .. Len(results') : results'[k].status = "interrupted" => runDone BY <1>0, <1>5 DEF SignalInv
  <2>5. sleeper' = "cut" => runDone BY <1>0, <1>3 DEF SignalInv
  <2> QED BY <1>0, <1>3, <2>1, <2>2, <2>3, <2>4, <2>5 DEF SignalInv
<1>16. EndInv' BY <1>3 DEF EndInv
<1> QED BY <1>12, <1>13, <1>14, <1>15, <1>16 DEF Inv

LEMMA Working ==
  ASSUME Inv, NEW i \in Job, work[i] \in {"do"} \cup Ran
  PROVE  run.state[i] = "running" /\ work[i] # "idle" /\ work[i] # "gone"
<1>1. run.state[i] \in {"unstarted", "running", "settled"} BY DEF Inv, TypeInv, RunRec, States
<1>2. work[i] # "idle" /\ work[i] # "gone" BY DEF Ran
<1> QED BY <1>1, <1>2 DEF Inv, WorkInv

LEMMA StepFinish ==
  ASSUME Inv, NEW i \in Job, Finish(i)
  PROVE  Inv'
<1>0. TypeInv /\ RunInv(run) /\ WorkInv(run) /\ ChanInv(run, results) /\ FollowInv(run) /\ SignalInv /\ EndInv BY DEF Inv
<1>1. UNCHANGED <<pc, run, steps, results, sleeper, ints, given, ctxDone, runDone>> /\ work[i] = "do" BY DEF Finish
<1>2. RunInv(run)' /\ MaxSteps' = MaxSteps BY <1>1, RunStays
<1>3. PICK raw \in {"ok", "ok-with-error", "failed", "auth-failed"}, late \in BOOLEAN :
        work' = [work EXCEPT ![i] = Settled(raw, late)]
  BY DEF Finish
<1>4. Settled(raw, late) \in Ran /\ (Settled(raw, late) = "interrupted" => runDone)
  BY DEF Settled, Ran
<1>5. /\ work' \in [Job -> {"idle", "do", "gone"} \cup Ran] /\ work'[i] \in Ran
      /\ work'[i] = "interrupted" => runDone
      /\ \A j \in Job : j # i => work'[j] = work[j]
  BY <1>0, <1>3, <1>4 DEF TypeInv
<1>6. run.state[i] = "running" /\ work[i] # "idle" /\ work[i] # "gone" BY <1>1, Working
<1>7. work'[i] # "idle" /\ work'[i] # "gone" BY <1>5 DEF Ran
<1>8. TypeInv' BY <1>0, <1>1, <1>2, <1>5 DEF TypeInv
<1>9. WorkInv(run)'
  <2> SUFFICES ASSUME NEW j \in Job
      PROVE  /\ run.state[j] = "unstarted" => work'[j] = "idle"
             /\ run.state[j] = "running" => work'[j] # "idle"
             /\ run.state[j] = "settled" => work'[j] \in {"idle", "gone"}
             /\ run.state[j] = "settled" /\ work'[j] = "gone" => run.entry[j] \in Ran
    BY <1>1 DEF WorkInv
  <2>1. CASE j = i BY <1>6, <1>7, <2>1
  <2>2. CASE j # i BY <1>0, <1>5, <2>2 DEF WorkInv
  <2> QED BY <2>1, <2>2
<1>10. ChanInv(run, results)'
  <2>1. \A k \in 1 .. Len(results) : results[k].job \in Job BY <1>0, MsgOf DEF TypeInv
  <2>2. \A k \in 1 .. Len(results) : results[k].kind = "end" => work'[results[k].job] = "gone" /\ results[k].status \in Ran
    BY <1>0, <1>5, <1>6, <2>1 DEF ChanInv
  <2>3. \A j \in Job : run.state[j] = "running" /\ work'[j] = "gone" =>
          \E k \in 1 .. Len(results) : results[k].job = j /\ results[k].kind = "end"
    BY <1>0, <1>5, <1>7 DEF ChanInv
  <2> QED BY <1>0, <1>1, <2>2, <2>3 DEF ChanInv
<1>11. FollowInv(run)'
  <2>1. Shape' = Shape /\ \A c \in Job : IsCanary(c)' <=> IsCanary(c) BY <1>1, AskedStays
  <2>2. \A j \in Job : work'[j] # "idle" => work[j] # "idle" BY <1>5, <1>6
  <2> QED BY <1>0, <1>1, <2>1, <2>2 DEF FollowInv
<1>12. SignalInv'
  <2>1. \A j \in Job : "interrupted" \in {work'[j], run.entry[j]} => runDone
    BY <1>0, <1>5 DEF SignalInv
  <2> QED BY <1>0, <1>1, <2>1 DEF SignalInv
<1>13. EndInv' BY <1>0, <1>1 DEF EndInv
<1> QED BY <1>2, <1>8, <1>9, <1>10, <1>11, <1>12, <1>13 DEF Inv

LEMMA AppendOf ==
  ASSUME NEW q \in Seq(Msg), NEW m \in Msg, NEW p, p = Append(q, m)
  PROVE  /\ p \in Seq(Msg) /\ Len(p) = Len(q) + 1 /\ Len(q) \in Nat /\ p[Len(q) + 1] = m
         /\ \A k \in 1 .. Len(q) : k \in 1 .. Len(p) /\ p[k] = q[k]
         /\ \A k \in 1 .. Len(p) : k \in 1 .. Len(q) \/ k = Len(q) + 1
OBVIOUS

\* A message of a job at work goes into the channel.
LEMMA Sent ==
  ASSUME Inv, NEW i \in Job, work[i] \in {"do"} \cup Ran, NEW m \in Msg, m.job = i,
         results' = Append(results, m), UNCHANGED <<run, ctxDone, runDone>>,
         \A j \in Job : j # i => work'[j] = work[j],
         m.kind = "end" => work'[i] = "gone" /\ m.status \in Ran, m.kind # "end" => work'[i] = work[i],
         m.status = "interrupted" => runDone
  PROVE  /\ ChanInv(run, results)' /\ results' \in Seq(Msg)
         /\ \A k \in 1 .. Len(results') : results'[k].status = "interrupted" => runDone
<1> DEFINE q == results
           p == results'
<1>0. q \in Seq(Msg) /\ ChanInv(run, q) BY DEF Inv, TypeInv
<1>1. run.state[i] = "running" /\ work[i] # "idle" /\ work[i] # "gone" BY Working
<1>2. /\ p \in Seq(Msg) /\ Len(p) = Len(q) + 1 /\ Len(q) \in Nat /\ p[Len(q) + 1] = m
      /\ \A k \in 1 .. Len(q) : k \in 1 .. Len(p) /\ p[k] = q[k]
      /\ \A k \in 1 .. Len(p) : k \in 1 .. Len(q) \/ k = Len(q) + 1
  BY <1>0, AppendOf
<1>3. \A k \in 1 .. Len(q) : q[k].job \in Job BY <1>0, MsgOf
<1>4. \A k \in 1 .. Len(q) : q[k].status = "interrupted" => runDone BY DEF Inv, SignalInv
<1> HIDE DEF q, p
<1>5. \A k \in 1 .. Len(p) : run.state[p[k].job] = "running" BY <1>0, <1>1, <1>2 DEF ChanInv
<1>6. \A k \in 1 .. Len(q) : q[k].kind = "end" => q[k].job # i /\ work'[q[k].job] = "gone" /\ q[k].status \in Ran
  BY <1>0, <1>1, <1>3 DEF ChanInv
<1>7. \A k \in 1 .. Len(p) : p[k].kind = "end" => work'[p[k].job] = "gone" /\ p[k].status \in Ran
  BY <1>2, <1>6
<1>8. ASSUME NEW k \in 1 .. Len(p), NEW l \in 1 .. Len(p), k < l, p[k].job = p[l].job PROVE p[k].kind # "end"
  <2>1. k \in 1 .. Len(q) BY <1>2, <1>8
  <2>2. CASE l \in 1 .. Len(q) BY <1>0, <1>2, <1>8, <2>1, <2>2 DEF ChanInv
  <2>3. CASE l = Len(q) + 1 BY <1>2, <1>6, <1>8, <2>1, <2>3
  <2> QED BY <1>2, <2>2, <2>3
<1>9. ASSUME NEW j \in Job, run.state[j] = "running", work'[j] = "gone"
      PROVE  \E k \in 1 .. Len(p) : p[k].job = j /\ p[k].kind = "end"
  <2>1. CASE j = i
    <3>1. m.kind = "end" BY <1>1, <1>9, <2>1
    <3>2. Len(q) + 1 \in 1 .. Len(p) BY <1>2
    <3> QED BY <1>2, <2>1, <3>1, <3>2
  <2>2. CASE j # i
    <3>1. PICK k \in 1 .. Len(q) : q[k].job = j /\ q[k].kind = "end" BY <1>0, <1>9, <2>2 DEF ChanInv
    <3> QED BY <1>2, <3>1
  <2> QED BY <2>1, <2>2
<1>10. ChanInv(run, results)' BY <1>5, <1>7, <1>8, <1>9 DEF ChanInv, p
<1>11. \A k \in 1 .. Len(p) : p[k].status = "interrupted" => runDone BY <1>2, <1>4
<1> QED BY <1>2, <1>10, <1>11 DEF p

LEMMA StepSendEnd ==
  ASSUME Inv, NEW i \in Job, SendEnd(i)
  PROVE  Inv'
<1>0. TypeInv /\ RunInv(run) /\ WorkInv(run) /\ ChanInv(run, results) /\ FollowInv(run) /\ SignalInv /\ EndInv BY DEF Inv
<1>1. UNCHANGED <<pc, run, steps, sleeper, ints, given, ctxDone, runDone>> /\ work[i] \in Ran BY DEF SendEnd
<1>2. RunInv(run)' /\ MaxSteps' = MaxSteps BY <1>1, RunStays
<1>3. /\ work' \in [Job -> {"idle", "do", "gone"} \cup Ran] /\ work'[i] = "gone"
      /\ \A j \in Job : j # i => work'[j] = work[j]
  BY <1>0 DEF TypeInv, SendEnd
<1>4. run.state[i] = "running" /\ work[i] # "idle" /\ work[i] # "gone" BY <1>1, Working
<1> DEFINE m == [job |-> i, kind |-> "end", status |-> work[i]]
<1>5. /\ ChanInv(run, results)' /\ results' \in Seq(Msg)
      /\ \A k \in 1 .. Len(results') : results'[k].status = "interrupted" => runDone
  <2>1. m \in Msg /\ m.job = i /\ m.kind = "end" /\ m.status = work[i] BY <1>1 DEF Msg
  <2>2. results' = Append(results, m) BY DEF SendEnd
  <2>3. m.status = "interrupted" => runDone BY <1>0, <2>1 DEF SignalInv
  <2> HIDE DEF m
  <2> QED BY <1>1, <1>3, <2>1, <2>2, <2>3, Sent
<1>6. TypeInv' BY <1>0, <1>1, <1>2, <1>3, <1>5 DEF TypeInv
<1>7. WorkInv(run)'
  <2> SUFFICES ASSUME NEW j \in Job
      PROVE  /\ run.state[j] = "unstarted" => work'[j] = "idle"
             /\ run.state[j] = "running" => work'[j] # "idle"
             /\ run.state[j] = "settled" => work'[j] \in {"idle", "gone"}
             /\ run.state[j] = "settled" /\ work'[j] = "gone" => run.entry[j] \in Ran
    BY <1>1 DEF WorkInv
  <2>1. CASE j = i BY <1>3, <1>4, <2>1
  <2>2. CASE j # i BY <1>0, <1>3, <2>2 DEF WorkInv
  <2> QED BY <2>1, <2>2
<1>8. FollowInv(run)'
  <2>1. Shape' = Shape /\ \A c \in Job : IsCanary(c)' <=> IsCanary(c) BY <1>1, AskedStays
  <2>2. \A j \in Job : work'[j] # "idle" => work[j] # "idle" BY <1>3, <1>4
  <2> QED BY <1>0, <1>1, <2>1, <2>2 DEF FollowInv
<1>9. SignalInv'
  <2>1. \A j \in Job : "interrupted" \in {work'[j], run.entry[j]} => runDone
    BY <1>0, <1>3 DEF SignalInv
  <2> QED BY <1>0, <1>1, <1>5, <2>1 DEF SignalInv
<1>10. EndInv' BY <1>0, <1>1 DEF EndInv
<1> QED BY <1>2, <1>5, <1>6, <1>7, <1>8, <1>9, <1>10 DEF Inv

LEMMA StepReport ==
  ASSUME Inv, NEW i \in Job, Report(i)
  PROVE  Inv'
<1>0. TypeInv /\ RunInv(run) /\ WorkInv(run) /\ ChanInv(run, results) /\ FollowInv(run) /\ SignalInv /\ EndInv BY DEF Inv
<1>1. UNCHANGED <<pc, run, work, sleeper, ints, given, ctxDone, runDone>> /\ work[i] = "do" BY DEF Report
<1>2. RunInv(run)' /\ MaxSteps' = MaxSteps BY <1>1, RunStays
<1>3. steps' \in [Job -> 0 .. MaxSteps]
  <2>1. MaxSteps \in Nat BY <1>0, Asking DEF TypeInv, RunRec
  <2> QED BY <1>0, <2>1 DEF TypeInv, Report
<1>4. /\ ChanInv(run, results)' /\ results' \in Seq(Msg)
      /\ \A k \in 1 .. Len(results') : results'[k].status = "interrupted" => runDone
  <2>1. CASE results' = results BY <1>0, <1>1, <2>1 DEF ChanInv, TypeInv, SignalInv
  <2>2. ASSUME NEW kind \in {"step", "mark"}, results' = Append(results, [job |-> i, kind |-> kind, status |-> None])
        PROVE  /\ ChanInv(run, results)' /\ results' \in Seq(Msg)
               /\ \A k \in 1 .. Len(results') : results'[k].status = "interrupted" => runDone
    <3> DEFINE m == [job |-> i, kind |-> kind, status |-> None]
    <3>1. m \in Msg /\ m.job = i /\ m.kind # "end" /\ m.status # "interrupted" BY DEF Msg, None
    <3>2. results' = Append(results, m) BY <2>2
    <3> HIDE DEF m
    <3> QED BY <1>1, <3>1, <3>2, Sent
  <2> QED BY <2>1, <2>2 DEF Report
<1>5. TypeInv' BY <1>0, <1>1, <1>2, <1>3, <1>4 DEF TypeInv
<1>6. WorkInv(run)' BY <1>0, <1>1 DEF WorkInv
<1>7. FollowInv(run)'
  <2>1. Shape' = Shape /\ \A c \in Job : IsCanary(c)' <=> IsCanary(c) BY <1>1, AskedStays
  <2> QED BY <1>0, <1>1, <2>1 DEF FollowInv
<1>8. SignalInv' BY <1>0, <1>1, <1>4 DEF SignalInv
<1>9. EndInv' BY <1>0, <1>1 DEF EndInv
<1> QED BY <1>2, <1>4, <1>5, <1>6, <1>7, <1>8, <1>9 DEF Inv

LEMMA StepOutside ==
  ASSUME Inv, Wake \/ Signal \/ Cancel
  PROVE  Inv'
<1>0. TypeInv /\ RunInv(run) /\ WorkInv(run) /\ ChanInv(run, results) /\ FollowInv(run) /\ SignalInv /\ EndInv BY DEF Inv
<1>1. UNCHANGED <<pc, run, work, steps, results>> /\ (ctxDone => ctxDone') BY DEF Wake, Signal, Cancel
<1>2. RunInv(run)' /\ MaxSteps' = MaxSteps BY <1>1, RunStays
<1>3. WorkInv(run)' /\ ChanInv(run, results)' /\ FollowInv(run)'
  <2>1. run'.asked = run.asked /\ WorkInv(run') /\ ChanInv(run', results') /\ FollowInv(run') BY <1>0, <1>1
  <2> QED BY <1>1, <2>1, WorkPrimed
<1>4. ints \in 0 .. 4 /\ given \in 0 .. MaxSignals /\ MaxSignals \in Nat BY <1>0, BatchAssumption DEF TypeInv
<1>5. TypeInv'
  <2>1. CASE Wake BY <1>0, <1>1, <1>2, <2>1 DEF TypeInv, Wake
  <2>2. CASE Signal
    <3>1. ints' \in 0 .. 4 /\ given' \in 0 .. MaxSignals BY <1>4, <2>2 DEF Signal
    <3> QED BY <1>0, <1>1, <1>2, <2>2, <3>1 DEF TypeInv, Signal
  <2>3. CASE Cancel BY <1>0, <1>1, <1>2, <2>3 DEF TypeInv, Cancel
  <2> QED BY <2>1, <2>2, <2>3
<1>6. SignalInv'
  <2>1. CASE Wake
    <3>1. sleeper' = "cut" => runDone BY <2>1 DEF Wake
    <3>2. UNCHANGED <<run, work, results, ints, given, ctxDone, runDone>> BY <2>1 DEF Wake
    <3> QED BY <1>0, <3>1, <3>2 DEF SignalInv
  <2>2. CASE Signal
    <3>1. UNCHANGED <<run, work, results, sleeper, ctxDone, runDone>> BY <2>2 DEF Signal
    <3>2. /\ ints <= given => ints' <= given' /\ (given > 1 => given' > 1)
          /\ ints < given => ints' < given'
      BY <1>4, <2>2 DEF Signal
    <3> QED BY <1>0, <3>1, <3>2 DEF SignalInv
  <2>3. CASE Cancel
    <3>1. UNCHANGED <<run, work, results, sleeper, ints, given>> /\ ctxDone' = TRUE /\ runDone' = TRUE BY <2>3 DEF Cancel
    <3> QED BY <1>0, <3>1 DEF SignalInv
  <2> QED BY <2>1, <2>2, <2>3
<1>7. EndInv' BY <1>0, <1>1 DEF EndInv
<1> QED BY <1>2, <1>3, <1>5, <1>6, <1>7 DEF Inv

LEMMA InitHolds == Init => Inv
<1> SUFFICES ASSUME Init PROVE Inv OBVIOUS
<1> USE DEF Init
<1>1. PICK b \in Asked :
     run = [asked |-> b, state |-> [i \in Job |-> "unstarted"], entry |-> [i \in Job |-> None],
            row |-> [i \in Job |-> "queued"], running |-> 0, shapeOK |-> {},
            stop |-> None, interrupted |-> FALSE, parent |-> TRUE,
            pausing |-> FALSE, owed |-> FALSE,
            ok |-> 0, failed |-> 0, auth |-> 0, notStarted |-> 0, skipped |-> 0,
            rest |-> "rested"]
  OBVIOUS
<1>2. run \in RunRec BY <1>1 DEF RunRec, States, Entries, Rows
<1>3. /\ run.asked = b /\ run.running = 0 /\ run.shapeOK = {} /\ run.stop = None /\ run.interrupted = FALSE
      /\ run.parent = TRUE /\ run.pausing = FALSE /\ run.owed = FALSE /\ run.ok = 0 /\ run.failed = 0
      /\ run.auth = 0 /\ run.notStarted = 0 /\ run.skipped = 0 /\ run.rest = "rested"
  BY <1>1
<1>4. \A i \in Job : run.state[i] = "unstarted" /\ run.entry[i] = None /\ run.row[i] = "queued" BY <1>1
<1>5. run.asked \in Asked BY <1>3
<1>6. /\ Pool \in Job /\ Pool \in Nat /\ MaxFailures \in Nat /\ MaxSteps \in Nat BY <1>5, Asking
<1>7. TypeInv
  <2>1. steps \in [Job -> 0 .. MaxSteps] BY <1>6
  <2>2. given \in 0 .. MaxSignals /\ ints \in 0 .. 4 BY BatchAssumption
  <2>3. work \in [Job -> {"idle", "do", "gone"} \cup Ran] /\ results \in Seq(Msg) OBVIOUS
  <2>4. /\ pc \in {"fill", "select", "end"} /\ sleeper \in {"idle", "asleep", "slept", "cut"}
        /\ ctxDone \in BOOLEAN /\ runDone \in BOOLEAN
    OBVIOUS
  <2> QED BY ONLY <1>2, <2>1, <2>2, <2>3, <2>4 DEF TypeInv
<1>8. JobsInv(run) BY <1>4 DEF JobsInv
<1>9. CountsInv(run)
  <2>1. In(run, "running") = {} BY <1>4 DEF In
  <2>2. ASSUME NEW S, None \notin S PROVE Having(run, S) = {} BY <1>4, <2>2 DEF Having
  <2>3. /\ None \notin {"ok"} /\ None \notin Failure /\ None \notin {"auth-failed"}
        /\ None \notin {"not-started"} /\ None \notin {"skipped"}
    BY DEF None, Failure, Ran
  <2>4. Cardinality({}) = 0 BY FS_EmptySet
  <2>5. /\ Having(run, {"ok"}) = {} /\ Having(run, Failure) = {} /\ Having(run, {"auth-failed"}) = {}
        /\ Having(run, {"not-started"}) = {} /\ Having(run, {"skipped"}) = {}
    BY <2>2, <2>3
  <2> QED BY <1>3, <2>1, <2>4, <2>5 DEF CountsInv
<1>10. StopInv(run) BY <1>3 DEF StopInv
<1>11. CanaryInv(run) /\ SkipInv(run) BY <1>3, <1>4 DEF CanaryInv, SkipInv, None, Failure, Ran
<1>12. BudgetInv(run)
  <2>1. 0 < Pool BY <1>6 DEF Job
  <2> QED BY <1>3, <1>6, <2>1 DEF BudgetInv
<1>13. RestInv(run) BY <1>3 DEF RestInv
<1>14. \A i \in Job : work[i] = "idle" OBVIOUS
<1>15. WorkInv(run) /\ FollowInv(run) BY <1>4, <1>14 DEF WorkInv, FollowInv
<1>16. ChanInv(run, results)
  <2>1. Len(results) = 0 OBVIOUS
  <2>2. 1 .. Len(results) = {} BY <2>1
  <2> QED BY <1>4, <1>14, <2>2 DEF ChanInv
<1>17. SignalInv
  <2>1. Len(results) = 0 OBVIOUS
  <2>2. 1 .. Len(results) = {} BY <2>1
  <2> QED BY <1>3, <1>4, <1>14, <2>2 DEF SignalInv, None
<1>18. EndInv BY DEF EndInv
<1> QED BY <1>7, <1>8, <1>9, <1>10, <1>11, <1>12, <1>13, <1>15, <1>16, <1>17, <1>18 DEF Inv, RunInv

LEMMA StepHolds == Inv /\ [Next]_vars => Inv'
<1> SUFFICES ASSUME Inv, [Next]_vars PROVE Inv' OBVIOUS
<1>1. CASE UNCHANGED vars
  <2>1. UNCHANGED <<pc, run, work, steps, results, sleeper, ints, given, ctxDone, runDone>> BY <1>1 DEF vars
  <2>2. RunInv(run)' /\ MaxSteps' = MaxSteps BY <2>1, RunStays
  <2>3. WorkInv(run)' /\ ChanInv(run, results)' /\ FollowInv(run)'
    <3>1. run'.asked = run.asked /\ WorkInv(run') /\ ChanInv(run', results') /\ FollowInv(run') BY <2>1 DEF Inv
    <3> QED BY <2>1, <3>1, WorkPrimed
  <2>4. TypeInv' BY <2>1, <2>2 DEF Inv, TypeInv
  <2>5. SignalInv' /\ EndInv' BY <2>1 DEF Inv, SignalInv, EndInv
  <2> QED BY <2>2, <2>3, <2>4, <2>5 DEF Inv
<1>2. ASSUME NEW i \in Job, Start(i) PROVE Inv' BY <1>2, StepStart
<1>3. CASE BeginPause BY <1>3, StepBeginPause
<1>4. CASE FillDone BY <1>4, StepFillDone
<1>5. CASE TakeResult BY <1>5, StepTakeResult
<1>6. CASE TakePause BY <1>6, StepTakePause
<1>7. CASE TakeInterrupt BY <1>7, StepTakeInterrupt
<1>8. CASE TakeCancel BY <1>8, StepTakeCancel
<1>9. ASSUME NEW i \in Job, Finish(i) PROVE Inv' BY <1>9, StepFinish
<1>10. ASSUME NEW i \in Job, SendEnd(i) PROVE Inv' BY <1>10, StepSendEnd
<1>11. ASSUME NEW i \in Job, Report(i) PROVE Inv' BY <1>11, StepReport
<1>12. CASE Wake \/ Signal \/ Cancel BY <1>12, StepOutside
<1> QED BY <1>1, <1>2, <1>3, <1>4, <1>5, <1>6, <1>7, <1>8, <1>9, <1>10, <1>11, <1>12 DEF Next, Dispatch

LEMMA InvHolds == Spec => []Inv
BY InitHolds, StepHolds, PTL DEF Spec

----------------------------------------------------------------------------
(* The results.                                                              *)

(* Whatever the list, the shapes, the pool and the signals are: a row tells  *)
(* a job's last word, and when Run returns every job has its one entry, no   *)
(* goroutine has a result left to send, the channel is empty and the counts  *)
(* of the Summary are the counts of its entries.                              *)
THEOREM EveryJobAccounted == Spec => []AllAccounted
<1>1. Inv => AllAccounted
  <2> SUFFICES ASSUME Inv PROVE AllAccounted OBVIOUS
  <2>0. TypeInv /\ RunInv(run) /\ WorkInv(run) /\ ChanInv(run, results) /\ EndInv BY DEF Inv
  <2>1. run \in RunRec /\ results \in Seq(Msg) BY <2>0 DEF TypeInv
  <2>2. /\ run.running \in 0 .. N /\ run.ok \in 0 .. N /\ run.failed \in 0 .. N /\ run.auth \in 0 .. N
        /\ run.notStarted \in 0 .. N /\ run.skipped \in 0 .. N
    <3>1. In(run, "running") \in SUBSET Job /\ \A S : Having(run, S) \in SUBSET Job BY DEF In, Having
    <3>2. Cardinality(In(run, "running")) \in 0 .. N /\ \A S : Cardinality(Having(run, S)) \in 0 .. N
      BY <3>1, JobFinite
    <3> QED BY <2>0, <3>2 DEF RunInv, CountsInv
  <2>3. run \in Runs BY <2>1, <2>2 DEF RunRec, Runs, Shapes, States, Entries, Rows
  <2>4. TypeOK BY <2>0, <2>3 DEF TypeOK, TypeInv
  <2>5. \A i \in Job :
         /\ run.state[i] = "settled" => run.row[i] = run.entry[i]
         /\ run.state[i] = "unstarted" => run.row[i] = "queued"
    BY <2>0 DEF RunInv, JobsInv
  <2>6. ASSUME pc = "end"
        PROVE  /\ \A i \in Job : run.entry[i] # None /\ work[i] \in {"idle", "gone"}
               /\ results = <<>>
    <3>1. \A i \in Job : run.state[i] = "settled" BY <2>0, <2>6 DEF EndInv
    <3>2. \A i \in Job : run.entry[i] # None /\ work[i] \in {"idle", "gone"}
      BY <2>0, <3>1 DEF RunInv, JobsInv, WorkInv
    <3>3. results = <<>>
      <4> SUFFICES ASSUME results # <<>> PROVE FALSE OBVIOUS
      <4>1. 1 \in 1 .. Len(results) BY <2>1, TailOf
      <4>2. results[1].job \in Job BY <2>1, <4>1, MsgOf
      <4>3. run.state[results[1].job] = "running" BY <2>0, <4>1 DEF ChanInv
      <4> QED BY <3>1, <4>2, <4>3
    <3> QED BY <3>2, <3>3
  <2>7. \A S : CountOf(S) = Cardinality(Having(run, S)) BY DEF CountOf, Having
  <2>8. /\ run.ok = CountOf({"ok"}) /\ run.failed = CountOf(Failure) /\ run.auth = CountOf({"auth-failed"})
        /\ run.notStarted = CountOf({"not-started"}) /\ run.skipped = CountOf({"skipped"})
    BY <2>0, <2>7 DEF RunInv, CountsInv
  <2> QED BY <2>4, <2>5, <2>6, <2>8 DEF AllAccounted
<1> QED BY <1>1, InvHolds, PTL

(* For every list of shapes: a job is begun only behind a canary that        *)
(* succeeded, and skipped only behind one that failed by itself.              *)
THEOREM CanariesDecide == Spec => []CanaryDecides
<1>1. Inv => CanaryDecides
  <2> SUFFICES ASSUME Inv, NEW i \in Job
      PROVE  LET canaries == {c \in Job \ {i} : IsCanary(c) /\ Shape[c] = Shape[i]} IN
             /\ work[i] # "idle" => \A c \in canaries : run.entry[c] = "ok"
             /\ run.entry[i] = "skipped" => \E c \in canaries : run.entry[c] \in Failure \ {"interrupted"}
    BY DEF CanaryDecides
  <2>1. FollowInv(run) /\ SkipInv(run) BY DEF Inv, RunInv
  <2>2. \A c \in Job \ {i} : work[i] # "idle" /\ IsCanary(c) /\ Shape[c] = Shape[i] => run.entry[c] = "ok"
    BY <2>1 DEF FollowInv
  <2>3. run.entry[i] = "skipped" =>
          \E c \in Job \ {i} : IsCanary(c) /\ Shape[c] = Shape[i] /\ run.entry[c] \in Failure \ {"interrupted"}
    BY <2>1 DEF SkipInv
  <2> QED BY <2>2, <2>3
<1> QED BY <1>1, InvHolds, PTL

(* For every pool and every budget: a single Ctrl-C cuts no running job off, *)
(* the failures stay below the budget and the pool together, and a rejected  *)
(* password is tried on no more devices than there are workers.              *)
THEOREM StopsInTime == Spec => []StopsAreKept
<1>1. Inv => StopsAreKept
  <2> SUFFICES ASSUME Inv PROVE StopsAreKept OBVIOUS
  <2>0. TypeInv /\ RunInv(run) /\ SignalInv BY DEF Inv
  <2>1. run \in RunRec /\ run.asked \in Asked BY <2>0 DEF TypeInv, RunRec
  <2>2. Pool \in Nat /\ MaxFailures \in Nat BY <2>1, Asking
  <2>3. run.failed \in Int /\ run.auth \in Int /\ run.running \in Nat
    <3>1. In(run, "running") \in SUBSET Job BY DEF In
    <3>2. Cardinality(In(run, "running")) \in 0 .. N BY <3>1, JobFinite
    <3> QED BY <2>0, <2>1, <3>2 DEF RunInv, CountsInv, RunRec
  <2>4. \A i \in Job : "interrupted" \in {run.entry[i], work[i]} => given > 1 \/ ctxDone BY <2>0 DEF SignalInv
  <2>5. MaxFailures > 0 => run.failed < MaxFailures + Pool
    <3>1. MaxFailures > 0 => run.failed + run.running < MaxFailures + Pool BY <2>0 DEF RunInv, BudgetInv
    <3> QED BY <2>2, <2>3, <3>1
  <2>6. StopOnAuth => run.auth <= Pool
    <3> SUFFICES ASSUME StopOnAuth PROVE run.auth <= Pool OBVIOUS
    <3>1. run.auth + run.running <= Pool BY <2>0 DEF RunInv, BudgetInv
    <3> QED BY <2>2, <2>3, <3>1
  <2> QED BY <2>4, <2>5, <2>6 DEF StopsAreKept
<1> QED BY <1>1, InvHolds, PTL

(* With a pause asked for, a job is begun only when a full pause has passed  *)
(* since the last one ended, unless Run's context was cancelled.              *)
THEOREM PauseIsFull == Spec => FullPauseBeforeStart
<1> DEFINE A == \A i \in Job : work[i] = "idle" /\ work'[i] = "do" => ~Pause \/ ctxDone \/ run.rest = "rested"
<1>1. Inv /\ [Next]_vars => [A]_vars
  <2> SUFFICES ASSUME Inv, Next, NEW i \in Job, work[i] = "idle", work'[i] = "do", Pause, ~ctxDone
      PROVE  run.rest = "rested"
    BY DEF A
  <2>0. TypeInv /\ RunInv(run) BY DEF Inv
  <2>1. run.rest \in {"rested", "resting", "due"} BY <2>0 DEF TypeInv, RunRec
  <2>2. PICK j \in Job : Start(j)
    <3>1. work' # work OBVIOUS
    <3>2. ASSUME NEW j \in Job, Finish(j) PROVE FALSE
      <4>1. work[j] = "do" BY <3>2 DEF Finish
      <4>2. work'[i] = work[i] BY <2>0, <3>2, <4>1 DEF Finish, TypeInv
      <4> QED BY <4>2
    <3>3. ASSUME NEW j \in Job, SendEnd(j) PROVE FALSE
      <4>1. work'[i] = work[i] \/ work'[i] = "gone" BY <2>0, <3>3 DEF SendEnd, TypeInv
      <4> QED BY <4>1
    <3>4. ~(BeginPause \/ FillDone \/ TakeResult \/ TakePause \/ TakeInterrupt \/ TakeCancel \/ Wake \/ Signal \/ Cancel)
      BY <3>1 DEF BeginPause, FillDone, TakeResult, TakePause, TakeInterrupt, TakeCancel, Wake, Signal, Cancel
    <3>5. ~\E j \in Job : Report(j) BY <3>1 DEF Report
    <3> QED BY <3>2, <3>3, <3>4, <3>5 DEF Next, Dispatch
  <2>3. run.stop = None /\ ~run.pausing /\ ~(run.owed /\ Pause) BY <2>2 DEF Start, MayStart
  <2> QED BY <2>0, <2>1, <2>3 DEF RunInv, RestInv
<1>2. Spec => [][A]_vars BY <1>1, InvHolds, PTL DEF Spec
<1> QED BY <1>2 DEF FullPauseBeforeStart

=============================================================================
