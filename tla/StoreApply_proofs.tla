------------------------- MODULE StoreApply_proofs -------------------------
(***************************************************************************)
(* Proofs about StoreApply, for any number of commands, generated files,    *)
(* snapshots and hand edits, and any set of faults.                          *)
(***************************************************************************)
EXTENDS StoreApply, FiniteSetTheorems, TLAPS

Both == [store : Content, conf : Content]
Snap == [id : Nat, store : Content, conf : Content]
Arts == [Art -> ArtContent]
JobType ==
  [view : Content, pick : Nat, keep : Both, post : Both, werr : BOOLEAN,
   force : SUBSET Backend, next : Art, staged : Arts, word : [Art -> Word],
   keptArt : Arts, keptRec : Arts, changed : SUBSET Backend,
   at : [store : Content, conf : Content, art : Arts, recd : Arts, source : SUBSET Snap]]

\* A newest snapshot exists.
SnapsOK == snaps \subseteq Snap /\ \E s \in snaps : \A t \in snaps : t.id <= s.id

TypeInv == TypeOK /\ job \in [Proc -> JobType] /\ SnapsOK

----------------------------------------------------------------------------
(* What the operators return.                                               *)

LEMMA ArtFacts ==
  /\ 1 \in Art
  /\ Art \subseteq Nat
  /\ \A a \in Art : a # NArt => a + 1 \in Art
  /\ \A a \in Art : BackendOf(a) \in Backend
  /\ \A b \in Backend : b \in Art
  /\ \A b \in Art : b + 1 \in Backend => b + 1 \in Art
BY StoreApplyAssumption DEF Art, Backend, BackendOf

LEMMA RenderType ==
  ASSUME NEW a \in Art, NEW s \in Content, NEW c \in Content
  PROVE  Render(a, s, c) \in ArtContent
BY DEF Render, ArtContent, Content

LEMMA StatusType ==
  ASSUME NEW a \in Art, NEW bytes
  PROVE  Status(a) \in Word /\ LiveStatus(a, bytes) \in Word
BY DEF Status, LiveStatus, Word

LEMMA NoJobType == NoJob \in JobType
<1>1. {} \in Content BY DEF Content
<1>2. [a \in Art |-> {}] \in Arts BY DEF Arts, ArtContent
<1>3. [a \in Art |-> NoFile] \in Arts BY DEF Arts, ArtContent
<1>4. [a \in Art |-> "none"] \in [Art -> Word] BY DEF Word
<1> QED BY <1>1, <1>2, <1>3, <1>4, ArtFacts DEF NoJob, JobType, Both, Files

LEMMA NewestType ==
  ASSUME SnapsOK
  PROVE  Newest \in snaps /\ \A t \in snaps : t.id <= Newest.id
BY DEF SnapsOK, Newest

\* Retention never takes the snapshot that was just made.
LEMMA PrunedType ==
  ASSUME SnapsOK, NEW s \in Content, NEW c \in Content, NEW keepID,
         NEW n, n = [id |-> Newest.id + 1, store |-> s, conf |-> c]
  PROVE  LET S == Pruned(snaps \cup {n}, keepID) IN
         S \subseteq Snap /\ n \in S /\ \A t \in S : t.id <= n.id
<1> DEFINE N == snaps \cup {n}
<1>1. Newest \in Snap BY NewestType DEF SnapsOK
<1>2. n \in Snap /\ n.id = Newest.id + 1 BY <1>1 DEF Snap
<1>3. \A t \in N : t \in Snap /\ t.id <= n.id
  BY <1>1, <1>2, NewestType DEF SnapsOK, Snap
<1>4. {t \in N : t.id > n.id} = {} BY <1>3, <1>2 DEF Snap
<1>5. Cardinality({t \in N : t.id > n.id}) < Retention
  <2> HIDE DEF N
  <2>1. Cardinality({}) = 0 BY FS_EmptySet, Zenon
  <2>2. Cardinality({t \in N : t.id > n.id}) = 0 BY <1>4, <2>1, Zenon
  <2>3. Retention \in Nat \ {0} BY StoreApplyAssumption, Zenon
  <2> QED BY <2>2, <2>3
<1>6. n \in Pruned(N, keepID) BY <1>5 DEF Pruned
<1>7. Pruned(N, keepID) \subseteq N BY DEF Pruned
<1> QED BY <1>3, <1>6, <1>7

----------------------------------------------------------------------------
(* Type correctness, and the section the lock protects.                     *)

LEMMA InitTypeInv == Init => TypeInv
<1> SUFFICES ASSUME Init PROVE TypeInv OBVIOUS
<1>1. {} \in Content BY DEF Content
<1>2. [Art -> {NoFile, {}}] \subseteq Arts BY DEF Arts, ArtContent
<1>3. art \in Arts /\ recd \in Arts /\ daemon \in Arts BY <1>2 DEF Init
<1>4. \A p \in Proc : job[p] = NoJob BY DEF Init
<1>5. SnapsOK BY <1>1 DEF Init, SnapsOK, Snap
<1>6. lock \notin Proc BY StoreApplyAssumption DEF Init
<1>7. \A p \in Proc : NoJob.next \in Art /\ NoJob.word \in [Art -> Word]
  BY NoJobType DEF JobType
<1>8. job \in [Proc -> JobType] BY NoJobType DEF Init
<1> QED
  BY <1>1, <1>3, <1>4, <1>5, <1>6, <1>7, <1>8
  DEF TypeInv, TypeOK, Init, Arts, Phase, Ended

\* One lemma per group of actions: what a step of the command that holds the
\* lock does to the types.
LEMMA StartType == ASSUME TypeInv, NEW p \in Proc, Start(p) PROVE TypeInv'
<1>1. PICK pick \in IF p \in Restorers THEN {s.id : s \in snaps} ELSE {0} :
        job' = [job EXCEPT ![p] = [NoJob EXCEPT !.view = conf, !.pick = pick,
                  !.force = IF p \in Restorers \cup Forced THEN Backend ELSE {}]]
  BY DEF Start
<1>2. pick \in Nat BY DEF TypeInv, SnapsOK, Snap
<1>3. job' \in [Proc -> JobType]
  BY <1>1, <1>2, NoJobType DEF TypeInv, TypeOK, JobType
<1>4. SnapsOK' BY DEF TypeInv, SnapsOK, Start, disk
<1>5. TypeOK'
  BY <1>3 DEF TypeInv, TypeOK, Start, Go, disk, Phase, Ended, JobType
<1> QED BY <1>3, <1>4, <1>5 DEF TypeInv

LEMMA AcquireType == ASSUME TypeInv, NEW p \in Proc, Acquire(p) PROVE TypeInv'
<1>1. Picked(p) \subseteq Snap BY DEF Picked, TypeInv, SnapsOK
<1>2. Found(p) \in [store : Content, conf : Content, art : Arts, recd : Arts, source : SUBSET Snap]
  BY <1>1 DEF Found, TypeInv, TypeOK, Arts
<1>3. job' \in [Proc -> JobType]
  <2>1. job[p] \in JobType BY DEF TypeInv
  <2>2. [job[p] EXCEPT !.at = Found(p)] \in JobType BY <2>1, <1>2 DEF JobType
  <2> QED BY <2>2 DEF TypeInv, Acquire
<1>4. SnapsOK' BY DEF TypeInv, SnapsOK, Acquire, disk
<1>5. First(p) \in Phase \ (Ended \cup {"wait"}) BY DEF First, Phase, Ended
<1>6. TypeOK'
  BY <1>3, <1>5, StoreApplyAssumption DEF TypeInv, TypeOK, Acquire, Go, disk, JobType
<1> QED BY <1>3, <1>4, <1>6 DEF TypeInv

LEMMA EndType ==
  ASSUME TypeInv, NEW p \in Proc, CancelWait(p) \/ Unlock(p) \/ Crash(p)
  PROVE  TypeInv'
<1>1. job' \in [Proc -> JobType]
  BY NoJobType DEF TypeInv, CancelWait, Unlock, Crash
<1>2. SnapsOK' BY DEF TypeInv, SnapsOK, CancelWait, Unlock, Crash, disk
<1>3. \A q \in Proc : job'[q].next \in Art /\ job'[q].word \in [Art -> Word]
  BY <1>1 DEF JobType
<1>4. CancelWait(p) => TypeOK'
  BY <1>3 DEF TypeInv, TypeOK, CancelWait, Go, disk, Phase, Ended
<1>5. Unlock(p) => TypeOK'
  BY <1>3, StoreApplyAssumption DEF TypeInv, TypeOK, Unlock, Go, disk, Phase, Ended
<1>6. Crash(p) => TypeOK'
  BY <1>3, StoreApplyAssumption DEF TypeInv, TypeOK, Crash, Go, disk, Phase, Ended
<1>7. TypeOK' BY <1>4, <1>5, <1>6
<1> QED BY <1>1, <1>2, <1>7 DEF TypeInv

\* A step within the section keeps the lock, moves the holder to another of
\* its phases and gives the changed variables values of their types.
Section == Phase \ (Ended \cup {"wait"})

LEMMA InSection ==
  ASSUME TypeInv, NEW p \in Proc, pc[p] \in Section,
         lock' = lock,
         NEW x \in Section, pc' = [pc EXCEPT ![p] = x],
         store' \in Content, conf' \in Content,
         art' \in Arts, recd' \in Arts, daemon' \in Arts,
         out' \in [Proc -> {"none", "ok", "failed", "refused", "cancelled"}],
         job' \in [Proc -> JobType]
  PROVE  TypeOK'
<1>1. \A q \in Proc : job'[q].next \in Art /\ job'[q].word \in [Art -> Word]
  BY DEF JobType
<1>2. lock = p BY DEF TypeInv, TypeOK, Section
<1>3. pc' \in [Proc -> Phase] BY DEF TypeInv, TypeOK, Section
<1>4. \A q \in Proc : (lock' = q) <=> pc'[q] \notin Ended \cup {"wait"}
  BY <1>2 DEF TypeInv, TypeOK, Section
<1> QED BY <1>1, <1>3, <1>4 DEF TypeInv, TypeOK, Arts

\* The parts of TypeInv that the action lemmas start from.
LEMMA Parts ==
  ASSUME TypeInv
  PROVE  /\ store \in Content /\ conf \in Content
         /\ art \in Arts /\ recd \in Arts /\ daemon \in Arts
         /\ out \in [Proc -> {"none", "ok", "failed", "refused", "cancelled"}]
         /\ pc \in [Proc -> Phase]
         /\ job \in [Proc -> JobType]
         /\ SnapsOK
         /\ \A p \in Proc : job[p] \in JobType
BY DEF TypeInv, TypeOK, Arts

LEMMA MoveType ==
  ASSUME TypeInv, NEW p \in Proc,
         Gate(p) \/ Copy(p) \/ WriterFails(p) \/ Post(p) \/ Keep(p)
  PROVE  TypeInv'
<1> USE Parts
<1>1. job' \in [Proc -> JobType]
  <2>1. Gate(p) => job' \in [Proc -> JobType]
    <3>1. \A f \in SUBSET Backend : [job[p] EXCEPT !.force = f] \in JobType BY ZenonT(60) DEF JobType
    <3>2. {BackendOf(a) : a \in {x \in Art : Status(x) = "unrecorded"}} \in SUBSET Backend BY ArtFacts
    <3> QED BY <3>1, <3>2 DEF Gate
  <2>2. Copy(p) => job' \in [Proc -> JobType]
    <3>1. [job[p] EXCEPT !.keep = Files(store, conf)] \in JobType BY ZenonT(60) DEF JobType, Files, Both
    <3> QED BY <3>1 DEF Copy
  <2>3. WriterFails(p) => job' \in [Proc -> JobType]
    <3>1. [job[p] EXCEPT !.werr = TRUE] \in JobType BY DEF JobType
    <3> QED BY <3>1 DEF WriterFails
  <2>4. Post(p) => job' \in [Proc -> JobType]
    <3>1. [job[p] EXCEPT !.view = conf, !.post = Files(store, conf)] \in JobType BY ZenonT(60) DEF JobType, Files, Both
    <3> QED BY <3>1 DEF Post
  <2>5. Keep(p) => job' \in [Proc -> JobType]
    <3>1. [job[p] EXCEPT !.keptArt = art, !.keptRec = recd] \in JobType BY ZenonT(60) DEF JobType
    <3> QED BY <3>1 DEF Keep
  <2> QED BY <2>1, <2>2, <2>3, <2>4, <2>5
<1>2. UNCHANGED <<store, conf, art, recd, daemon, snaps, lock>>
  BY DEF Gate, Copy, WriterFails, Post, Keep, disk
<1>3. pc[p] \in Section
  BY DEF Gate, Copy, WriterFails, Post, Keep, Section, Phase, Ended
<1>4. out' \in [Proc -> {"none", "ok", "failed", "refused", "cancelled"}]
  BY DEF Gate, Copy, WriterFails, Post, Keep, Undo, Verdict
<1>5. \E x \in Section : pc' = [pc EXCEPT ![p] = x]
  BY DEF Gate, Copy, WriterFails, Post, Keep, Undo, Verdict, Go, Section, Phase, Ended
<1>6. TypeOK' BY <1>1, <1>2, <1>3, <1>4, <1>5, InSection
<1> QED BY <1>1, <1>2, <1>6 DEF TypeInv, SnapsOK

LEMMA SnapshotType == ASSUME TypeInv, NEW p \in Proc, Snapshot(p) PROVE TypeInv'
<1> USE Parts
<1>1. SnapsOK'
  <2>1. CASE snaps' = snaps BY <2>1 DEF SnapsOK
  <2>2. CASE snaps' # snaps
    <3> DEFINE n == [id |-> Newest.id + 1, store |-> store, conf |-> conf]
    <3>1. snaps' = Pruned(snaps \cup {n}, job[p].pick) BY <2>2 DEF Snapshot
    <3> HIDE DEF n
    <3>2. snaps' \subseteq Snap /\ n \in snaps' /\ \A t \in snaps' : t.id <= n.id
      BY <3>1, PrunedType DEF n
    <3> QED BY <3>2 DEF SnapsOK
  <2> QED BY <2>1, <2>2
<1>2. UNCHANGED <<store, conf, art, recd, daemon, lock, job>> BY DEF Snapshot
<1>3. pc[p] \in Section BY DEF Snapshot, Section, Phase, Ended
<1>4. out' \in [Proc -> {"none", "ok", "failed", "refused", "cancelled"}]
  BY DEF Snapshot, Verdict
<1>5. \E x \in Section : pc' = [pc EXCEPT ![p] = x]
  BY DEF Snapshot, Verdict, Go, Section, Phase, Ended
<1>6. TypeOK' BY <1>2, <1>3, <1>4, <1>5, InSection
<1> QED BY <1>1, <1>2, <1>6 DEF TypeInv

\* The steps that write store.yaml or tacctl.yaml.
LEMMA WriteType ==
  ASSUME TypeInv, NEW p \in Proc,
         WriteStore(p) \/ WriteConf(p) \/ UndoStore(p) \/ UndoConf(p) \/ ConfEdit(p)
  PROVE  TypeInv'
<1> USE Parts
<1>1. \A x \in Content : x \cup {p} \in Content BY DEF Content, Token
<1>2. \A s \in Picked(p) : s.store \in Content /\ s.conf \in Content
  BY DEF Picked, SnapsOK, Snap
<1>3. job[p].keep.store \in Content /\ job[p].keep.conf \in Content
  BY DEF JobType, Both
<1>4. store' \in Content /\ conf' \in Content
  BY <1>1, <1>2, <1>3 DEF WriteStore, WriteConf, UndoStore, UndoConf, ConfEdit
<1>5. UNCHANGED <<art, recd, daemon, snaps, lock, job>>
  BY DEF WriteStore, WriteConf, UndoStore, UndoConf, ConfEdit
<1>6. pc[p] \in Section
  BY DEF WriteStore, WriteConf, UndoStore, UndoConf, ConfEdit, Section, Phase, Ended
<1>7. out' \in [Proc -> {"none", "ok", "failed", "refused", "cancelled"}]
  BY DEF WriteStore, WriteConf, UndoStore, UndoConf, ConfEdit, Verdict
<1>8. \E x \in Section : pc' = [pc EXCEPT ![p] = x]
  BY DEF WriteStore, WriteConf, UndoStore, UndoConf, ConfEdit, Verdict, Go, Section, Phase, Ended
<1>9. TypeOK' BY <1>4, <1>5, <1>6, <1>7, <1>8, InSection
<1> QED BY <1>5, <1>9 DEF TypeInv, SnapsOK

LEMMA StageJob ==
  ASSUME TypeInv, NEW p \in Proc, Stage(p)
  PROVE  /\ job' \in [Proc -> JobType]
         /\ job'[p].at = job[p].at /\ job'[p].keep = job[p].keep /\ job'[p].pick = job[p].pick
         /\ job'[p].force = job[p].force /\ job'[p].changed = job[p].changed
         /\ job'[p].post = job[p].post
<1> USE Parts
<1> DEFINE b == job[p].next
           new(a) == Render(a, store, job[p].view)
           word(a) == LiveStatus(a, new(a))
           st == [a \in Art |-> IF a \in FilesOf(b) THEN new(a) ELSE job[p].staged[a]]
           wd == [a \in Art |-> IF a \in FilesOf(b) THEN word(a) ELSE job[p].word[a]]
           nx == IF b + 1 \in Backend THEN b + 1 ELSE 1
<1>1. job[p].view \in Content /\ b \in Art BY DEF JobType
<1>2. st \in Arts BY <1>1, RenderType DEF Arts, JobType
<1>3. wd \in [Art -> Word] BY StatusType DEF JobType
<1>4. nx \in Art BY <1>1, ArtFacts
<1>5. job' = job \/ job' = [job EXCEPT ![p] = [job[p] EXCEPT !.staged = st, !.word = wd, !.next = nx]]
  BY DEF Stage, JobType
<1> HIDE DEF st, wd, nx
<1> DEFINE new_job == [job[p] EXCEPT !.staged = st, !.word = wd, !.next = nx]
<1>6. /\ new_job \in JobType /\ new_job.at = job[p].at /\ new_job.keep = job[p].keep
      /\ new_job.pick = job[p].pick /\ new_job.force = job[p].force /\ new_job.changed = job[p].changed
      /\ new_job.post = job[p].post
  BY <1>2, <1>3, <1>4 DEF JobType
<1> HIDE DEF new_job
<1>7. job' = job \/ job' = [job EXCEPT ![p] = new_job] BY <1>5 DEF new_job
<1> QED BY <1>6, <1>7

LEMMA StageType == ASSUME TypeInv, NEW p \in Proc, Stage(p) PROVE TypeInv'
<1> USE Parts
<1>1. job' \in [Proc -> JobType] BY StageJob
<1>2. UNCHANGED <<store, conf, art, recd, daemon, snaps, lock>> BY DEF Stage, disk
<1>3. pc[p] \in Section BY DEF Stage, Section, Phase, Ended
<1>4. out' \in [Proc -> {"none", "ok", "failed", "refused", "cancelled"}]
  BY DEF Stage, Undo, Verdict
<1>5. \E x \in Section : pc' = [pc EXCEPT ![p] = x]
  BY DEF Stage, Undo, Verdict, Go, Section, Phase, Ended
<1>6. TypeOK' BY <1>1, <1>2, <1>3, <1>4, <1>5, InSection
<1> QED BY <1>1, <1>2, <1>6 DEF TypeInv, SnapsOK

\* The steps of the commit of the generated files, and of its restore.
LEMMA CommitType ==
  ASSUME TypeInv, NEW p \in Proc,
         Install(p) \/ Record(p) \/ Restore(p) \/ RestoreRecords(p) \/ Restart(p)
  PROVE  TypeInv'
<1> USE Parts
<1>1. job[p].next \in Art /\ job[p].changed \in SUBSET Backend BY DEF JobType
<1>2. \A n \in Art, c \in SUBSET Backend : [job[p] EXCEPT !.next = n, !.changed = c] \in JobType
  BY ZenonT(60) DEF JobType
<1>3. \A c \in SUBSET Backend : NextFile(p, c) => job' \in [Proc -> JobType]
  <2> SUFFICES ASSUME NEW c \in SUBSET Backend, NextFile(p, c) PROVE job' \in [Proc -> JobType]
    OBVIOUS
  <2> DEFINE n == IF job[p].next = NArt THEN 1 ELSE job[p].next + 1
  <2>1. n \in Art BY <1>1, ArtFacts
  <2>2. job' = [job EXCEPT ![p] = [job[p] EXCEPT !.next = n, !.changed = c]]
    BY DEF NextFile, JobType
  <2> QED BY <2>1, <2>2, <1>2
<1>4. \A n \in Art : [job[p] EXCEPT !.next = n] \in JobType BY ZenonT(60) DEF JobType
<1>5. CommitFails(p) => job' \in [Proc -> JobType] BY <1>4, ArtFacts DEF CommitFails
<1>6. job' \in [Proc -> JobType]
  <2>1. CASE Install(p) BY <2>1, <1>1, <1>3, <1>5 DEF Install
  <2>2. CASE Record(p)
    <3>1. BackendOf(job[p].next) \in Backend BY <1>1, ArtFacts
    <3> QED BY <2>2, <3>1, <1>1, <1>3, <1>5 DEF Record
  <2>3. CASE Restore(p) BY <2>3, <1>1, <1>4, ArtFacts DEF Restore
  <2>4. CASE RestoreRecords(p) BY <2>4 DEF RestoreRecords
  <2>5. CASE Restart(p) BY <2>5 DEF Restart
  <2> QED BY <2>1, <2>2, <2>3, <2>4, <2>5
<1>7. art' \in Arts
  <2>1. /\ job[p].staged[job[p].next] \in ArtContent
        /\ job[p].keptArt[job[p].next] \in ArtContent
    BY <1>1 DEF JobType, Arts
  <2>2. CASE Install(p) BY <2>1, <2>2 DEF Install, Arts
  <2>3. CASE Restore(p) BY <2>1, <2>3 DEF Restore, Arts
  <2>4. CASE Record(p) \/ RestoreRecords(p) \/ Restart(p)
    BY <2>4 DEF Record, RestoreRecords, Restart
  <2> QED BY <2>2, <2>3, <2>4
<1>8. recd' \in Arts
  <2>1. CASE Record(p)
    <3>1. art[job[p].next] \in ArtContent BY <1>1 DEF Arts
    <3> QED BY <2>1, <3>1 DEF Record, Arts
  <2>2. CASE RestoreRecords(p) BY <2>2 DEF RestoreRecords, JobType
  <2>3. CASE Install(p) \/ Restore(p) \/ Restart(p) BY <2>3 DEF Install, Restore, Restart
  <2> QED BY <2>1, <2>2, <2>3
<1>9. daemon' \in Arts
  BY DEF Install, Record, Restore, RestoreRecords, Restart, Arts
<1>10. UNCHANGED <<store, conf, snaps, lock>>
  BY DEF Install, Record, Restore, RestoreRecords, Restart
<1>11. pc[p] \in Section
  BY DEF Install, Record, Restore, RestoreRecords, Restart, Section, Phase, Ended
<1>12. out' \in [Proc -> {"none", "ok", "failed", "refused", "cancelled"}]
  BY DEF Install, Record, Restore, RestoreRecords, Restart, Undo, Verdict
<1>13. \E x \in Section : pc' = [pc EXCEPT ![p] = x]
  BY DEF Install, Record, Restore, RestoreRecords, Restart, Undo, Verdict, NextFile,
         CommitFails, Go, Section, Phase, Ended
<1>14. TypeOK' BY <1>6, <1>7, <1>8, <1>9, <1>10, <1>11, <1>12, <1>13, InSection
<1> QED BY <1>6, <1>10, <1>14 DEF TypeInv, SnapsOK

LEMMA EditType == ASSUME TypeInv, EditFile \/ EditArt PROVE TypeInv'
<1> USE Parts
<1>1. \A x \in Content, h \in Hand : x \cup {h} \in Content BY DEF Content, Token
<1>2. \A x \in ArtContent, h \in Hand : x # NoFile => x \cup {<<"art", h>>} \in ArtContent
  BY DEF ArtContent, Token
<1>3. store' \in Content /\ conf' \in Content BY <1>1 DEF EditFile, EditArt, Unused
<1>4. art' \in Arts BY <1>2 DEF EditFile, EditArt, Unused, Arts
<1>5. UNCHANGED <<recd, daemon, snaps, lock, pc, job, out>> BY DEF EditFile, EditArt
<1> QED BY <1>3, <1>4, <1>5 DEF TypeInv, TypeOK, SnapsOK, Arts

LEMMA NextTypeInv == TypeInv /\ [Next]_vars => TypeInv'
<1> SUFFICES ASSUME TypeInv, [Next]_vars PROVE TypeInv' OBVIOUS
<1>1. CASE EditFile \/ EditArt BY <1>1, EditType
<1>2. CASE \E p \in Proc : Step(p)
  <2> PICK p \in Proc : Step(p) BY <1>2
  <2> QED
    BY StartType, AcquireType, EndType, MoveType, SnapshotType, WriteType, StageType, CommitType
    DEF Step
<1>3. CASE UNCHANGED vars
  BY <1>3 DEF vars, TypeInv, TypeOK, SnapsOK
<1> QED BY <1>1, <1>2, <1>3 DEF Next

\* The types, and with them the section of the apply lock: a command is
\* between its Acquire and its Unlock exactly while it holds the lock, so no
\* two commands ever are (HoldApply around StoreApply, ConfigRender and edit).
THEOREM StoreApplyType == Spec => []TypeOK
<1>1. TypeInv => TypeOK BY DEF TypeInv
<1> QED BY <1>1, InitTypeInv, NextTypeInv, PTL DEF Spec

----------------------------------------------------------------------------
(* All or nothing.  AllOrNothing speaks of the end of a failed command only;  *)
(* what carries it there is, for the command that holds the lock and by the   *)
(* phase it is in, where the state it found is to be had: still in the files, *)
(* in the copies of the store and tacctl.yaml, or in the copies of the        *)
(* generated files and their records.                                         *)

Failed(p) == pc[p] = "unlock" /\ out[p] \in {"failed", "refused"}

\* The phases before the first generated file is replaced, and those after
\* the last one was put back.
Untouched == {"gate", "snapshot", "copy", "write_store", "write_conf", "post", "stage", "keep",
              "undo_store", "undo_conf", "edit"}
Committing == {"install", "record", "restore", "restore_rec"}
Writing == {"write_store", "write_conf", "post", "stage", "keep", "undo_store", "undo_conf"} \cup Committing

KindInv(p) ==
  /\ pc[p] = "edit" => p \in ConfWriters
  /\ p \in ConfWriters => pc[p] \in {"edit", "unlock"}
  /\ p \in Renderers => pc[p] \in {"stage", "keep", "restart", "unlock"} \cup Committing

ArtsInv(p) ==
  /\ pc[p] \in Untouched \/ Failed(p) => art = job[p].at.art /\ recd = job[p].at.recd
  /\ pc[p] \in Committing => job[p].keptArt = job[p].at.art /\ job[p].keptRec = job[p].at.recd
  /\ pc[p] = "restore" => \A a \in Art : a < job[p].next => art[a] = job[p].at.art[a]
  /\ pc[p] = "restore_rec" => art = job[p].at.art

FilesInv(p) ==
  LET at == job[p].at
      keep == job[p].keep IN
  /\ p \in Renderers \/ pc[p] \in {"gate", "snapshot", "copy", "edit"} \/ Failed(p) =>
       Made(store) = Made(at.store) /\ Made(conf) = Made(at.conf)
  /\ pc[p] \in Writing /\ p \notin Renderers =>
       Made(keep.store) = Made(at.store) /\ Made(keep.conf) = Made(at.conf)
  /\ pc[p] = "undo_conf" => Made(store) = Made(at.store)

HolderInv == \A p \in Proc : lock = p => KindInv(p) /\ ArtsInv(p) /\ FilesInv(p)

\* A step of another command, or of nobody, that leaves the files alone.
LEMMA Aside ==
  ASSUME TypeInv, HolderInv, NEW q \in Proc,
         Start(q) \/ CancelWait(q) \/ Unlock(q) \/ Crash(q)
  PROVE  HolderInv'
<1> SUFFICES ASSUME NEW p \in Proc, lock' = p PROVE (KindInv(p) /\ ArtsInv(p) /\ FilesInv(p))'
  BY DEF HolderInv
<1>1. lock = p /\ p # q
  BY StoreApplyAssumption DEF TypeInv, TypeOK, Start, CancelWait, Unlock, Crash, Ended
<1>2. pc'[p] = pc[p] /\ job'[p] = job[p] /\ out'[p] = out[p]
  BY <1>1 DEF TypeInv, TypeOK, Start, CancelWait, Unlock, Crash, Go
<1>3. UNCHANGED <<store, conf, art, recd>>
  BY DEF Start, CancelWait, Unlock, Crash, disk
<1>4. KindInv(p) /\ ArtsInv(p) /\ FilesInv(p) BY <1>1 DEF HolderInv
<1> QED BY <1>2, <1>3, <1>4 DEF KindInv, ArtsInv, FilesInv, Failed, Made

LEMMA Taken == ASSUME TypeInv, HolderInv, NEW p \in Proc, Acquire(p) PROVE HolderInv'
<1>1. lock' = p BY DEF Acquire
<1>2. job[p] \in JobType BY Parts
<1>3. job'[p] = [job[p] EXCEPT !.at = Found(p)] BY Parts DEF Acquire
<1>4. job'[p].at = Found(p) BY <1>2, <1>3 DEF JobType
<1>5. pc'[p] = First(p) BY Parts DEF Acquire, Go
<1>6. UNCHANGED <<store, conf, art, recd>> BY DEF Acquire, disk
<1>7. KindInv(p)' BY <1>5, KindAssumption DEF KindInv, First, Proc
<1>8. ArtsInv(p)'
  BY <1>4, <1>5, <1>6 DEF ArtsInv, First, Found, Failed, Committing, Untouched
<1>9. FilesInv(p)'
  BY <1>4, <1>5, <1>6 DEF FilesInv, First, Found, Failed, Writing, Committing, Made
<1> QED BY <1>1, <1>7, <1>8, <1>9 DEF HolderInv

\* What an editor does to a file leaves what the commands put in it.
LEMMA Edited ==
  ASSUME TypeInv, HolderInv, ArtEditAt \subseteq {"start"}, EditFile \/ EditArt
  PROVE  HolderInv'
<1> SUFFICES ASSUME NEW p \in Proc, lock' = p PROVE (KindInv(p) /\ ArtsInv(p) /\ FilesInv(p))'
  BY DEF HolderInv
<1>1. UNCHANGED <<recd, lock, pc, job, out>> BY DEF EditFile, EditArt
<1>2. art' = art
  <2>1. CASE EditFile BY <2>1 DEF EditFile
  <2>2. CASE EditArt
    BY <2>2, <1>1, StoreApplyAssumption DEF EditArt, Now, TypeInv, TypeOK, Ended
  <2> QED BY <2>1, <2>2
<1>3. Made(store') = Made(store) /\ Made(conf') = Made(conf)
  BY DEF EditFile, EditArt, Unused, Made
<1>4. KindInv(p) /\ ArtsInv(p) /\ FilesInv(p) BY <1>1 DEF HolderInv
<1>5. KindInv(p)' BY <1>1, <1>4 DEF KindInv
<1>6. ArtsInv(p)' BY <1>1, <1>2, <1>4 DEF ArtsInv, Failed
<1>7. FilesInv(p)' BY <1>1, <1>3, <1>4 DEF FilesInv, Failed, Made
<1> QED BY <1>5, <1>6, <1>7

\* A step of the holder: what it must establish is about itself.
LEMMA Holder ==
  ASSUME TypeInv, HolderInv, NEW p \in Proc, pc[p] \in Section
  PROVE  /\ lock = p /\ KindInv(p) /\ ArtsInv(p) /\ FilesInv(p)
         /\ lock' = lock /\ (KindInv(p) /\ ArtsInv(p) /\ FilesInv(p))' => HolderInv'
BY DEF TypeInv, TypeOK, Section, HolderInv

LEMMA BeforeWriter ==
  ASSUME TypeInv, HolderInv, NEW p \in Proc,
         Gate(p) \/ Snapshot(p) \/ Copy(p)
  PROVE  HolderInv'
<1> USE Parts
<1>1. pc[p] \in {"gate", "snapshot", "copy"} /\ pc[p] \in Section
  BY DEF Gate, Snapshot, Copy, Section, Phase, Ended
<1>2. pc'[p] \in {"snapshot", "copy", "write_store", "unlock"} /\ UNCHANGED <<store, conf, art, recd, lock>>
  BY DEF Gate, Snapshot, Copy, Go, Verdict, disk
<1>3. job'[p].at = job[p].at
  BY DEF Gate, Snapshot, Copy, JobType
<1>4. pc'[p] = "write_store" => job'[p].keep = Files(store, conf)
  BY DEF Gate, Snapshot, Copy, JobType, Go, Verdict
<1>5. KindInv(p)'
  BY <1>1, <1>2, Holder DEF KindInv, Committing
<1>6. ArtsInv(p)'
  BY <1>1, <1>2, <1>3, Holder DEF ArtsInv, Committing, Untouched
<1>7. FilesInv(p)'
  BY <1>1, <1>2, <1>3, <1>4, Holder DEF FilesInv, Writing, Committing, Files, KindInv, Made
<1> QED BY <1>1, <1>2, <1>5, <1>6, <1>7, Holder

LEMMA Written ==
  ASSUME TypeInv, HolderInv, NEW p \in Proc,
         WriterFails(p) \/ WriteStore(p) \/ WriteConf(p)
  PROVE  HolderInv'
<1> USE Parts
<1>1. pc[p] \in {"write_store", "write_conf"} /\ pc[p] \in Section
  BY DEF WriterFails, WriteStore, WriteConf, Section, Phase, Ended
<1>2. pc'[p] \in {"write_conf", "post"} /\ UNCHANGED <<art, recd, lock>>
  BY DEF WriterFails, WriteStore, WriteConf, Go, disk
<1>3. job'[p].at = job[p].at /\ job'[p].keep = job[p].keep
  BY DEF WriterFails, WriteStore, WriteConf, JobType
<1>4. p \notin Renderers BY <1>1, Holder DEF KindInv, Committing
<1>5. KindInv(p)' BY <1>1, <1>2, <1>4, Holder DEF KindInv, Committing
<1>6. ArtsInv(p)' BY <1>1, <1>2, <1>3, Holder DEF ArtsInv, Committing, Untouched, Failed
<1>7. FilesInv(p)' BY <1>1, <1>2, <1>3, <1>4, Holder DEF FilesInv, Writing, Failed, Made
<1> QED BY <1>1, <1>2, <1>5, <1>6, <1>7, Holder

\* Undo: a render has nothing to put back, the others have their copies.
LEMMA UndoneInv ==
  ASSUME TypeInv, HolderInv, NEW p \in Proc, Undo(p), pc[p] \in Writing, pc[p] \in Section,
         p \notin ConfWriters, UNCHANGED <<store, conf, lock>>,
         job'[p].at = job[p].at, job'[p].keep = job[p].keep,
         art' = job[p].at.art, recd' = job[p].at.recd
  PROVE  HolderInv'
<1> USE Parts
<1>1. pc'[p] = IF p \in Renderers THEN "unlock" ELSE "undo_store"
  BY DEF Undo, Verdict, Go
<1>2. KindInv(p)' BY <1>1, Holder DEF KindInv, Committing
<1>3. ArtsInv(p)' BY <1>1 DEF ArtsInv, Committing
<1>4. FilesInv(p)' BY <1>1, Holder DEF FilesInv, Writing, Failed, Made
<1> QED BY <1>2, <1>3, <1>4, Holder

LEMMA Rendering ==
  ASSUME TypeInv, HolderInv, NEW p \in Proc, Post(p) \/ Stage(p) \/ Keep(p)
  PROVE  HolderInv'
<1> USE Parts
<1>1. pc[p] \in {"post", "stage", "keep"} /\ pc[p] \in Section
  BY DEF Post, Stage, Keep, Section, Phase, Ended
<1>2. UNCHANGED <<store, conf, art, recd, lock>> BY DEF Post, Stage, Keep, disk
<1>3. job'[p].at = job[p].at /\ job'[p].keep = job[p].keep
  <2>1. CASE Post(p) BY <2>1 DEF Post, JobType
  <2>2. CASE Stage(p) BY <2>2, StageJob
  <2>3. CASE Keep(p) BY <2>3 DEF Keep, JobType
  <2> QED BY <2>1, <2>2, <2>3
<1>4. p \notin ConfWriters BY <1>1, Holder DEF KindInv
<1>5. art = job[p].at.art /\ recd = job[p].at.recd BY <1>1, Holder DEF ArtsInv, Untouched
<1>6. CASE Undo(p)
  BY <1>1, <1>2, <1>3, <1>4, <1>5, <1>6, UndoneInv DEF Writing
<1>7. CASE ~Undo(p)
  <2>1. pc'[p] \in {"stage", "keep", "install"} BY <1>7 DEF Post, Stage, Keep, Go
  <2>2. pc'[p] = "install" => job'[p].keptArt = art /\ job'[p].keptRec = recd
    <3>1. CASE Keep(p) BY <3>1, <1>7 DEF Keep, JobType
    <3>2. CASE Post(p) \/ Stage(p) BY <3>2, <1>7 DEF Post, Stage, Go
    <3> QED BY <3>1, <3>2
  <2>3. KindInv(p)' BY <1>4, <2>1, Holder, <1>1 DEF KindInv, Committing
  <2>4. ArtsInv(p)' BY <1>2, <1>3, <1>5, <2>1, <2>2 DEF ArtsInv, Committing, Failed, Untouched
  <2>5. FilesInv(p)' BY <1>1, <1>2, <1>3, <2>1, Holder DEF FilesInv, Writing, Failed, Made
  <2> QED BY <1>1, <1>2, <2>3, <2>4, <2>5, Holder
<1> QED BY <1>6, <1>7

\* The commit moves on, is done, or fails and is restored from the copies.
LEMMA Committed ==
  ASSUME TypeInv, HolderInv, NEW p \in Proc, Install(p) \/ Record(p)
  PROVE  HolderInv'
<1> USE Parts
<1>1. pc[p] \in {"install", "record"} /\ pc[p] \in Section
  BY DEF Install, Record, Section, Phase, Ended
<1>2. UNCHANGED <<store, conf, lock>> BY DEF Install, Record
<1>3. /\ job'[p].at = job[p].at /\ job'[p].keep = job[p].keep
      /\ job'[p].keptArt = job[p].keptArt /\ job'[p].keptRec = job[p].keptRec
  BY DEF Install, Record, NextFile, CommitFails, JobType
<1>4. pc'[p] \in {"install", "record", "restart", "restore"}
  BY DEF Install, Record, NextFile, CommitFails, Go
<1>5. pc'[p] = "restore" => job'[p].next = 1
  BY DEF Install, Record, NextFile, CommitFails, Go, JobType
<1>6. p \notin ConfWriters BY <1>1, Holder DEF KindInv
<1>7. KindInv(p)' BY <1>4, <1>6, <1>1, Holder DEF KindInv, Committing
<1>8. ArtsInv(p)'
  <2>1. \A a \in Art : ~(a < 1) BY DEF Art
  <2> QED BY <2>1, <1>1, <1>3, <1>4, <1>5, Holder DEF ArtsInv, Committing, Failed, Untouched
<1>9. FilesInv(p)'
  BY <1>1, <1>2, <1>3, <1>4, Holder DEF FilesInv, Writing, Committing, Failed, Made
<1> QED BY <1>1, <1>2, <1>7, <1>8, <1>9, Holder

LEMMA Restored ==
  ASSUME TypeInv, HolderInv, NEW p \in Proc, Restore(p)
  PROVE  HolderInv'
<1> USE Parts
<1>1. pc[p] = "restore" /\ pc[p] \in Section BY DEF Restore, Section, Phase, Ended
<1>2. UNCHANGED <<store, conf, recd, lock>> BY DEF Restore
<1>3. /\ job'[p].at = job[p].at /\ job'[p].keep = job[p].keep
      /\ job'[p].keptArt = job[p].keptArt /\ job'[p].keptRec = job[p].keptRec
  BY DEF Restore, JobType
<1>4. job[p].next \in Art /\ job[p].at.art \in Arts BY DEF JobType
<1>5. \A a \in Art : a <= job[p].next => art'[a] = job[p].at.art[a]
  BY <1>1, <1>4, Holder, ArtFacts DEF Restore, ArtsInv, Committing, Arts
<1>6. /\ pc'[p] = IF job[p].next = NArt THEN "restore_rec" ELSE "restore"
      /\ job'[p].next = IF job[p].next = NArt THEN 1 ELSE job[p].next + 1
  BY DEF Restore, Go, JobType
<1>7. KindInv(p)' BY <1>1, <1>6, Holder DEF KindInv, Committing
<1>8. ArtsInv(p)'
  <2>1. CASE job[p].next = NArt
    <3>1. \A a \in Art : art'[a] = job[p].at.art[a] BY <2>1, <1>5 DEF Art
    <3>2. art' = job[p].at.art BY <3>1, <1>1, <1>4 DEF Restore, Arts
    <3> QED BY <3>2, <2>1, <1>1, <1>3, <1>6, Holder DEF ArtsInv, Committing, Failed, Untouched
  <2>2. CASE job[p].next # NArt
    <3>1. \A a \in Art : a < job[p].next + 1 => a <= job[p].next BY <1>4 DEF Art
    <3> QED
      BY <3>1, <2>2, <1>1, <1>3, <1>5, <1>6, Holder DEF ArtsInv, Committing, Failed, Untouched
  <2> QED BY <2>1, <2>2
<1>9. FilesInv(p)'
  BY <1>1, <1>2, <1>3, <1>6, Holder DEF FilesInv, Writing, Committing, Failed, Made
<1> QED BY <1>1, <1>2, <1>7, <1>8, <1>9, Holder

LEMMA RecordsRestored ==
  ASSUME TypeInv, HolderInv, NEW p \in Proc, RestoreRecords(p)
  PROVE  HolderInv'
<1>1. pc[p] = "restore_rec" /\ pc[p] \in Section BY DEF RestoreRecords, Section, Phase, Ended
<1>2. p \notin ConfWriters BY <1>1, Holder DEF KindInv
<1>3. art' = job[p].at.art /\ recd' = job[p].at.recd
  BY <1>1, Holder DEF RestoreRecords, ArtsInv, Committing
<1> QED BY <1>1, <1>2, <1>3, UndoneInv DEF RestoreRecords, Writing, Committing

LEMMA RolledBack ==
  ASSUME TypeInv, HolderInv, NEW p \in Proc, UndoStore(p) \/ UndoConf(p)
  PROVE  HolderInv'
<1> USE Parts
<1>1. pc[p] \in {"undo_store", "undo_conf"} /\ pc[p] \in Section
  BY DEF UndoStore, UndoConf, Section, Phase, Ended
<1>2. UNCHANGED <<art, recd, lock, job>> BY DEF UndoStore, UndoConf
<1>3. p \notin Renderers /\ p \notin ConfWriters BY <1>1, Holder DEF KindInv, Committing
<1>4. UndoStore(p) => pc'[p] = "undo_conf" /\ store' = job[p].keep.store
  BY DEF UndoStore, Go
<1>5. UndoConf(p) => pc'[p] = "unlock" /\ store' = store /\ conf' = job[p].keep.conf
  BY DEF UndoConf, Verdict, Go
<1>6. KindInv(p)' BY <1>3, <1>4, <1>5 DEF KindInv
<1>7. ArtsInv(p)' BY <1>1, <1>2, <1>4, <1>5, Holder DEF ArtsInv, Committing, Untouched
<1>8. FilesInv(p)'
  <2>1. CASE UndoStore(p)
    BY <2>1, <1>1, <1>2, <1>3, <1>4, Holder DEF FilesInv, Writing, Failed, Made
  <2>2. CASE UndoConf(p)
    <3>1. pc[p] = "undo_conf" BY <2>2 DEF UndoConf
    <3>2. Made(store) = Made(job[p].at.store) /\ Made(job[p].keep.conf) = Made(job[p].at.conf)
      BY <3>1, <1>1, <1>3, Holder DEF FilesInv, Writing
    <3> QED BY <3>2, <2>2, <1>2, <1>5 DEF FilesInv, Writing, Committing, Made
  <2> QED BY <2>1, <2>2
<1> QED BY <1>1, <1>2, <1>6, <1>7, <1>8, Holder

LEMMA Ending ==
  ASSUME TypeInv, HolderInv, NEW p \in Proc, Restart(p) \/ ConfEdit(p)
  PROVE  HolderInv'
<1> USE Parts
<1>1. pc[p] \in {"restart", "edit"} /\ pc[p] \in Section
  BY DEF Restart, ConfEdit, Section, Phase, Ended
<1>2. UNCHANGED <<store, art, recd, lock, job>> BY DEF Restart, ConfEdit
<1>3. pc'[p] = "unlock" BY DEF Restart, ConfEdit, Verdict, Go
<1>4. Restart(p) => out'[p] = "ok" /\ conf' = conf BY DEF Restart, Verdict
<1>5. ConfEdit(p) /\ out'[p] # "ok" => conf' = conf BY DEF ConfEdit, Verdict
<1>6. ConfEdit(p) => pc[p] = "edit" BY DEF ConfEdit
<1>7. KindInv(p)' BY <1>1, <1>3 DEF KindInv
<1>8. ArtsInv(p)'
  BY <1>1, <1>2, <1>3, <1>4, <1>6, Holder DEF ArtsInv, Committing, Untouched, Failed
<1>9. FilesInv(p)'
  <2>1. p \in Renderers => ~ConfEdit(p) BY <1>6, Holder, <1>1 DEF KindInv, Committing
  <2> QED BY <2>1, <1>1, <1>2, <1>3, <1>4, <1>5, <1>6, Holder
    DEF FilesInv, Writing, Committing, Failed, Made
<1> QED BY <1>1, <1>2, <1>7, <1>8, <1>9, Holder

LEMMA NextHolderInv ==
  ASSUME ArtEditAt \subseteq {"start"}, TypeInv, HolderInv, [Next]_vars
  PROVE  HolderInv'
<1>1. CASE EditFile \/ EditArt BY <1>1, Edited
<1>2. CASE \E p \in Proc : Step(p)
  <2> PICK p \in Proc : Step(p) BY <1>2
  <2> QED
    BY Aside, Taken, BeforeWriter, Written, Rendering, Committed, Restored, RecordsRestored,
       RolledBack, Ending
    DEF Step
<1>3. CASE UNCHANGED vars
  BY <1>3 DEF vars, HolderInv, KindInv, ArtsInv, FilesInv, Failed, Made
<1> QED BY <1>1, <1>2, <1>3 DEF Next

\* All or nothing, for any number of commands, files and faults: whichever
\* step of a change, a restore or a render fails, StoreApply's rollback and
\* RenderAll's Restore together put back everything the command found when it
\* got the lock, and no other command has touched it since.  The generated
\* files must not be edited by hand while a command runs.
THEOREM FailureUndone ==
  ASSUME ArtEditAt \subseteq {"start"}
  PROVE  Spec => []AllOrNothing
<1>1. Init => HolderInv BY StoreApplyAssumption DEF Init, HolderInv
<1>2. TypeInv /\ HolderInv /\ [Next]_vars => HolderInv' BY NextHolderInv
<1>3. TypeInv /\ HolderInv => AllOrNothing
  <2> SUFFICES ASSUME TypeInv, HolderInv, NEW p \in Proc, Failed(p)
      PROVE  /\ Made(store) = Made(job[p].at.store) /\ Made(conf) = Made(job[p].at.conf)
             /\ \A a \in Art : art[a] = job[p].at.art[a] /\ recd[a] = job[p].at.recd[a]
    BY DEF AllOrNothing, Failed
  <2>1. pc[p] \in Section BY DEF Failed, Section, Phase, Ended
  <2> QED BY <2>1, Holder DEF ArtsInv, FilesInv
<1> QED BY <1>1, <1>2, <1>3, InitTypeInv, NextTypeInv, PTL DEF Spec

----------------------------------------------------------------------------
(* Success means rendered.  By phase: what is staged is what the store and the *)
(* command's view say, and its word is what rendered.json says of the file     *)
(* that is there; file by file the commit turns that into the file and its     *)
(* record.                                                                      *)

\* Nobody edits a file between the read of the store and the command's verdict.
NoEditInRender ==
  (FileEditAt \cup ArtEditAt) \cap {"stage", "keep", "install", "record", "restart", "unlock"} = {}

Staged(p, a) ==
  /\ job[p].staged[a] = Render(a, store, job[p].view)
  /\ job[p].word[a] = LiveStatus(a, job[p].staged[a])

Rendered(p, a) == art[a] = Render(a, store, job[p].view) /\ recd[a] = art[a]

RenderInv(p) ==
  /\ pc[p] = "edit" => p \in ConfWriters
  /\ pc[p] \in {"wait", "gate", "snapshot", "copy", "write_store", "write_conf", "post"} =>
       job[p].next = 1
  /\ \/ pc[p] \in {"stage", "keep", "install", "record", "restart"}
     \/ pc[p] = "unlock" /\ out[p] = "ok" /\ p \notin ConfWriters
     => (p \notin Renderers => job[p].view = conf)
  /\ pc[p] = "stage" =>
       job[p].next \in Backend /\ \A a \in Art : BackendOf(a) < job[p].next => Staged(p, a)
  /\ pc[p] = "keep" => job[p].next = 1 /\ \A a \in Art : Staged(p, a)
  /\ pc[p] = "install" =>
       \A a \in Art : IF a < job[p].next THEN Rendered(p, a) ELSE Staged(p, a)
  /\ pc[p] = "record" =>
       /\ art[job[p].next] = Render(job[p].next, store, job[p].view)
       /\ \A a \in Art : (a < job[p].next => Rendered(p, a)) /\ (a > job[p].next => Staged(p, a))
  /\ \/ pc[p] = "restart"
     \/ pc[p] = "unlock" /\ out[p] = "ok" /\ p \notin ConfWriters
     => \A a \in Art : Rendered(p, a)
  /\ pc[p] = "unlock" => out[p] # "none"

RendersInv == \A p \in Proc : RenderInv(p)

\* A step of one command leaves the others where they are, and touches the disk
\* only under the lock.
LEMMA OneSteps ==
  ASSUME TypeInv, NEW q \in Proc, Step(q)
  PROVE  /\ \A p \in Proc \ {q} : pc'[p] = pc[p] /\ job'[p] = job[p] /\ out'[p] = out[p]
         /\ \A p \in Proc \ {q} : pc[p] \in Section => UNCHANGED disk
<1> USE Parts
<1>1. \A p \in Proc \ {q} : pc'[p] = pc[p]
  BY DEF Step, Start, Acquire, CancelWait, Gate, Snapshot, Copy, WriterFails, WriteStore, WriteConf,
         Post, Stage, Keep, Install, Record, Restore, RestoreRecords, UndoStore, UndoConf, Restart,
         ConfEdit, Unlock, Crash, Undo, Verdict, NextFile, CommitFails, Go
<1>2. \A p \in Proc \ {q} : job'[p] = job[p]
  BY DEF Step, Start, Acquire, CancelWait, Gate, Snapshot, Copy, WriterFails, WriteStore, WriteConf,
         Post, Stage, Keep, Install, Record, Restore, RestoreRecords, UndoStore, UndoConf, Restart,
         ConfEdit, Unlock, Crash, NextFile, CommitFails
<1>3. \A p \in Proc \ {q} : out'[p] = out[p]
  BY DEF Step, Start, Acquire, CancelWait, Gate, Snapshot, Copy, WriterFails, WriteStore, WriteConf,
         Post, Stage, Keep, Install, Record, Restore, RestoreRecords, UndoStore, UndoConf, Restart,
         ConfEdit, Unlock, Crash, Undo, Verdict
<1>4. UNCHANGED disk \/ pc[q] \in Section
  BY DEF Step, Start, Acquire, CancelWait, Gate, Snapshot, Copy, WriterFails, WriteStore, WriteConf,
         Post, Stage, Keep, Install, Record, Restore, RestoreRecords, UndoStore, UndoConf, Restart,
         ConfEdit, Unlock, Crash, Section, Phase, Ended
<1>5. \A p \in Proc \ {q} : pc[p] \in Section => pc[q] \notin Section
  BY DEF TypeInv, TypeOK, Section
<1> QED BY <1>1, <1>2, <1>3, <1>4, <1>5

\* What RenderInv asks of a command that is nowhere near a render.
LEMMA RenderFrame ==
  ASSUME TypeInv, NEW p \in Proc, RenderInv(p), pc'[p] = pc[p], job'[p] = job[p], out'[p] = out[p],
         pc[p] \in Section => UNCHANGED <<store, conf, art, recd>>
  PROVE  RenderInv(p)'
<1> USE Parts
<1>1. CASE pc[p] \in Section
  BY <1>1 DEF RenderInv, Staged, Rendered, LiveStatus, Status
<1>2. CASE pc[p] \notin Section
  BY <1>2 DEF RenderInv, Section, Phase, Ended
<1> QED BY <1>1, <1>2

\* The fields of a command in a stage that goes on.
LEMMA StagedJob ==
  ASSUME TypeInv, NEW p \in Proc, Stage(p), ~Undo(p)
  PROVE  LET b == job[p].next IN
         /\ job'[p].view = job[p].view
         /\ job'[p].next = IF b + 1 \in Backend THEN b + 1 ELSE 1
         /\ pc'[p] = IF b + 1 \in Backend THEN "stage" ELSE "keep"
         /\ \A a \in Art : BackendOf(a) = b =>
              /\ job'[p].staged[a] = Render(a, store, job[p].view)
              /\ job'[p].word[a] = LiveStatus(a, Render(a, store, job[p].view))
         /\ \A a \in Art : BackendOf(a) # b =>
              job'[p].staged[a] = job[p].staged[a] /\ job'[p].word[a] = job[p].word[a]
<1> USE Parts
<1> DEFINE b == job[p].next
           st == [a \in Art |-> IF a \in FilesOf(b) THEN Render(a, store, job[p].view) ELSE job[p].staged[a]]
           wd == [a \in Art |-> IF a \in FilesOf(b) THEN LiveStatus(a, Render(a, store, job[p].view))
                                ELSE job[p].word[a]]
           nx == IF b + 1 \in Backend THEN b + 1 ELSE 1
<1>1. job' = [job EXCEPT ![p] = [job[p] EXCEPT !.staged = st, !.word = wd, !.next = nx]]
  BY DEF Stage, JobType
<1>2. pc'[p] = IF b + 1 \in Backend THEN "stage" ELSE "keep" BY DEF Stage, Go
<1>3. \A a \in Art : BackendOf(a) = b =>
        st[a] = Render(a, store, job[p].view) /\ wd[a] = LiveStatus(a, Render(a, store, job[p].view))
  BY DEF FilesOf
<1>4. \A a \in Art : BackendOf(a) # b => st[a] = job[p].staged[a] /\ wd[a] = job[p].word[a]
  BY DEF FilesOf
<1>5. nx = IF b + 1 \in Backend THEN b + 1 ELSE 1 OBVIOUS
<1> HIDE DEF st, wd, nx
<1> DEFINE r == [job[p] EXCEPT !.staged = st, !.word = wd, !.next = nx]
<1>6. r.staged = st /\ r.word = wd /\ r.next = nx /\ r.view = job[p].view BY DEF JobType
<1>7. job'[p] = r BY <1>1
<1> HIDE DEF r
<1> QED BY <1>2, <1>3, <1>4, <1>5, <1>6, <1>7

LEMMA BackendFacts ==
  /\ 1 \in Backend
  /\ \A a \in Art : BackendOf(a) \in Backend
  /\ \A b \in Backend : b \in {1, 2}
BY ArtFacts DEF Backend, BackendOf

\* The word of a staged file, as Install reads it.
LEMMA WordMeans ==
  ASSUME NEW a \in Art, NEW bytes
  PROVE  /\ LiveStatus(a, bytes) = "current" => art[a] = bytes /\ recd[a] = art[a]
         /\ LiveStatus(a, bytes) = "same" => art[a] = bytes
BY DEF LiveStatus, Status

\* Up to the render.
LEMMA RenderBegins ==
  ASSUME TypeInv, NEW p \in Proc, RenderInv(p),
         \/ Start(p) \/ Acquire(p) \/ CancelWait(p) \/ Gate(p) \/ Snapshot(p) \/ Copy(p)
         \/ WriterFails(p) \/ WriteStore(p) \/ WriteConf(p) \/ Post(p)
  PROVE  RenderInv(p)'
<1> USE Parts
<1>1. CASE Start(p)
  <2>1. pc'[p] = "wait" BY <1>1 DEF Start, Go
  <2>2. job'[p].next = 1
    <3>1. PICK pick : job' = [job EXCEPT ![p] = [NoJob EXCEPT !.view = conf, !.pick = pick,
              !.force = IF p \in Restorers \cup Forced THEN Backend ELSE {}]]
      BY <1>1 DEF Start
    <3>2. NoJob.next = 1 BY DEF NoJob
    <3> DEFINE f == IF p \in Restorers \cup Forced THEN Backend ELSE {}
    <3> HIDE DEF f
    <3>3. job'[p] = [NoJob EXCEPT !.view = conf, !.pick = pick, !.force = f] BY <3>1 DEF f
    <3>4. [NoJob EXCEPT !.view = conf, !.pick = pick, !.force = f].next = NoJob.next
      BY NoJobType DEF JobType
    <3> QED BY <3>2, <3>3, <3>4
  <2> QED BY <2>1, <2>2 DEF RenderInv
<1>2. CASE Acquire(p)
  <2>1. pc'[p] = First(p) /\ pc[p] = "wait" BY <1>2 DEF Acquire, Go
  <2>2. job'[p].next = 1 /\ job'[p].view = job[p].view
    <3>1. job'[p] = [job[p] EXCEPT !.at = Found(p)] BY <1>2 DEF Acquire
    <3>2. job'[p].next = job[p].next /\ job'[p].view = job[p].view BY <3>1 DEF JobType
    <3> QED BY <2>1, <3>2 DEF RenderInv
  <2>3. 1 \in Backend /\ \A a \in Art : ~(BackendOf(a) < 1) BY BackendFacts DEF BackendOf
  <2> QED BY <2>1, <2>2, <2>3 DEF RenderInv, First, Proc
<1>3. CASE CancelWait(p) BY <1>3 DEF CancelWait, Go, RenderInv
<1>4. CASE Gate(p) \/ Snapshot(p) \/ Copy(p) \/ WriterFails(p) \/ WriteStore(p) \/ WriteConf(p)
  <2>1. job'[p].next = job[p].next
    BY <1>4 DEF Gate, Snapshot, Copy, WriterFails, WriteStore, WriteConf, JobType
  <2>2. /\ pc[p] \in {"gate", "snapshot", "copy", "write_store", "write_conf"}
        /\ \/ pc'[p] \in {"snapshot", "copy", "write_store", "write_conf", "post"}
           \/ pc'[p] = "unlock" /\ out'[p] \in {"failed", "refused"}
    BY <1>4 DEF Gate, Snapshot, Copy, WriterFails, WriteStore, WriteConf, Go, Verdict
  <2> QED BY <2>1, <2>2 DEF RenderInv
<1>5. CASE Post(p)
  <2>1. job'[p].next = job[p].next /\ job'[p].view = conf
    <3>1. [job[p] EXCEPT !.view = conf, !.post = Files(store, conf)].next = job[p].next
          /\ [job[p] EXCEPT !.view = conf, !.post = Files(store, conf)].view = conf
      BY DEF JobType
    <3> QED BY <1>5, <3>1 DEF Post
  <2>2. /\ pc[p] = "post" /\ conf' = conf
        /\ \/ pc'[p] \in {"stage", "undo_store"}
           \/ pc'[p] = "unlock" /\ out'[p] = "failed"
    BY <1>5 DEF Post, Undo, Go, Verdict, disk
  <2>3. 1 \in Backend /\ \A a \in Art : ~(BackendOf(a) < 1) BY BackendFacts DEF BackendOf
  <2> QED BY <2>1, <2>2, <2>3 DEF RenderInv
<1> QED BY <1>1, <1>2, <1>3, <1>4, <1>5

\* Undo leaves the render.
LEMMA RenderUndone ==
  ASSUME TypeInv, NEW p \in Proc, Undo(p)
  PROVE  RenderInv(p)'
<1> USE Parts
<1>1. pc'[p] = "undo_store" \/ (pc'[p] = "unlock" /\ out'[p] = "failed") BY DEF Undo, Go, Verdict
<1> QED BY <1>1 DEF RenderInv

LEMMA RenderStages == ASSUME TypeInv, NEW p \in Proc, RenderInv(p), Stage(p) PROVE RenderInv(p)'
<1> USE Parts
<1> DEFINE b == job[p].next
<1>1. pc[p] = "stage" /\ UNCHANGED <<store, conf, art, recd>> BY DEF Stage, disk
<1>2. CASE ~Undo(p)
  <2>1. \A a \in Art : BackendOf(a) <= b => Staged(p, a)'
    <3> SUFFICES ASSUME NEW a \in Art, BackendOf(a) <= b PROVE Staged(p, a)' OBVIOUS
    <3>1. BackendOf(a) \in {1, 2} /\ b \in {1, 2} BY <1>1, BackendFacts DEF RenderInv
    <3>2. CASE BackendOf(a) = b
      <4>1. job'[p].staged[a] = Render(a, store, job[p].view) /\ job'[p].view = job[p].view
            /\ job'[p].word[a] = LiveStatus(a, Render(a, store, job[p].view))
        BY <1>2, <3>2, StagedJob
      <4> QED BY <1>1, <4>1 DEF Staged, LiveStatus, Status
    <3>3. CASE BackendOf(a) < b
      <4>1. job'[p].staged[a] = job[p].staged[a] /\ job'[p].view = job[p].view
            /\ job'[p].word[a] = job[p].word[a]
        BY <1>2, <3>1, <3>3, StagedJob
      <4>2. Staged(p, a) BY <1>1, <3>3 DEF RenderInv
      <4> QED BY <1>1, <4>1, <4>2 DEF Staged, LiveStatus, Status
    <3> QED BY <3>1, <3>2, <3>3
  <2>2. b \in {1, 2} /\ b \in Backend BY <1>1, BackendFacts DEF RenderInv
  <2>3. CASE b + 1 \in Backend
    <3>1. job'[p].next = b + 1 /\ pc'[p] = "stage" /\ job'[p].view = job[p].view BY <1>2, <2>3, StagedJob
    <3>2. \A a \in Art : BackendOf(a) < b + 1 => BackendOf(a) <= b BY <2>2, BackendFacts
    <3> QED BY <1>1, <2>1, <2>3, <3>1, <3>2 DEF RenderInv
  <2>4. CASE b + 1 \notin Backend
    <3>1. job'[p].next = 1 /\ pc'[p] = "keep" /\ job'[p].view = job[p].view BY <1>2, <2>4, StagedJob
    <3>2. \A a \in Art : BackendOf(a) <= b BY <2>2, <2>4, BackendFacts
    <3> QED BY <1>1, <2>1, <3>1, <3>2 DEF RenderInv
  <2> QED BY <2>3, <2>4
<1>3. CASE Undo(p) BY <1>3, RenderUndone
<1> QED BY <1>2, <1>3

LEMMA RenderKeeps == ASSUME TypeInv, NEW p \in Proc, RenderInv(p), Keep(p) PROVE RenderInv(p)'
<1> USE Parts
<1>1. pc[p] = "keep" /\ UNCHANGED <<store, conf, art, recd>> BY DEF Keep, disk
<1>2. CASE ~Undo(p)
  <2>1. pc'[p] = "install" BY <1>2 DEF Keep, Go
  <2>2. job'[p] = [job[p] EXCEPT !.keptArt = art, !.keptRec = recd] BY <1>2 DEF Keep, JobType
  <2>3. job'[p].next = job[p].next /\ job'[p].view = job[p].view /\ job'[p].staged = job[p].staged
        /\ job'[p].word = job[p].word
    BY <2>2 DEF JobType
  <2>4. \A a \in Art : Staged(p, a)' BY <1>1, <2>3 DEF RenderInv, Staged, LiveStatus, Status
  <2>5. \A a \in Art : ~(a < 1) BY DEF Art
  <2> QED BY <1>1, <2>1, <2>3, <2>4, <2>5 DEF RenderInv
<1>3. CASE Undo(p) BY <1>3, RenderUndone
<1> QED BY <1>2, <1>3

\* The commit goes on to the next file, or is done.
LEMMA NextFileJob ==
  ASSUME TypeInv, NEW p \in Proc, NEW c \in SUBSET Backend, NextFile(p, c)
  PROVE  /\ job'[p].next = IF job[p].next = NArt THEN 1 ELSE job[p].next + 1
         /\ pc'[p] = IF job[p].next = NArt THEN "restart" ELSE "install"
         /\ job'[p].changed = c /\ job'[p].view = job[p].view /\ job'[p].staged = job[p].staged
         /\ job'[p].word = job[p].word /\ job'[p].at = job[p].at /\ job'[p].keep = job[p].keep
         /\ job'[p].keptArt = job[p].keptArt /\ job'[p].keptRec = job[p].keptRec
         /\ job'[p].force = job[p].force /\ job'[p].pick = job[p].pick
<1> USE Parts
<1> DEFINE n == IF job[p].next = NArt THEN 1 ELSE job[p].next + 1
<1>1. job' = [job EXCEPT ![p] = [job[p] EXCEPT !.next = n, !.changed = c]]
  BY DEF NextFile, JobType
<1>2. n = IF job[p].next = NArt THEN 1 ELSE job[p].next + 1 OBVIOUS
<1> HIDE DEF n
<1> DEFINE r == [job[p] EXCEPT !.next = n, !.changed = c]
<1>3. /\ r.next = n /\ r.changed = c /\ r.view = job[p].view /\ r.staged = job[p].staged
      /\ r.word = job[p].word /\ r.at = job[p].at /\ r.keep = job[p].keep
      /\ r.keptArt = job[p].keptArt /\ r.keptRec = job[p].keptRec
      /\ r.force = job[p].force /\ r.pick = job[p].pick
  BY DEF JobType
<1>4. job'[p] = r BY <1>1
<1> HIDE DEF r
<1>5. pc'[p] = IF job[p].next = NArt THEN "restart" ELSE "install" BY DEF NextFile, Go
<1> QED BY <1>2, <1>3, <1>4, <1>5

\* The file at next is rendered and recorded, and so are those before it.
LEMMA FileDone ==
  ASSUME TypeInv, NEW p \in Proc, RenderInv(p), NEW c \in SUBSET Backend, NextFile(p, c),
         pc[p] \in {"install", "record"}, UNCHANGED <<store, conf, art>>, recd' \in Arts,
         \A a \in Art : a # job[p].next => recd'[a] = recd[a],
         art[job[p].next] = Render(job[p].next, store, job[p].view),
         recd'[job[p].next] = art[job[p].next]
  PROVE  RenderInv(p)'
<1> USE Parts
<1> DEFINE n == job[p].next
<1>0. n \in Art /\ n \in Nat BY ArtFacts DEF JobType
<1>1. job'[p].view = job[p].view /\ job'[p].staged = job[p].staged /\ job'[p].word = job[p].word
  BY NextFileJob
<1>2. \A a \in Art : a <= n => Rendered(p, a)'
  <2> SUFFICES ASSUME NEW a \in Art, a <= n PROVE Rendered(p, a)' OBVIOUS
  <2>1. CASE a = n BY <1>1, <2>1 DEF Rendered
  <2>2. CASE a < n
    <3>1. Rendered(p, a) BY <2>2 DEF RenderInv
    <3> QED BY <1>0, <1>1, <2>2, <3>1 DEF Rendered, Art
  <2> QED BY <1>0, <2>1, <2>2 DEF Art
<1>3. \A a \in Art : a > n => Staged(p, a)'
  <2> SUFFICES ASSUME NEW a \in Art, a > n PROVE Staged(p, a)' OBVIOUS
  <2>1. Staged(p, a) /\ a # n BY <1>0 DEF RenderInv, Art
  <2> QED BY <1>1, <2>1 DEF Staged, LiveStatus, Status
<1>4. p \notin Renderers => job'[p].view = conf' BY <1>1 DEF RenderInv
<1>5. CASE n = NArt
  <2>1. pc'[p] = "restart" BY <1>5, NextFileJob
  <2>2. \A a \in Art : a <= n BY <1>5 DEF Art
  <2> QED BY <1>2, <1>4, <2>1, <2>2 DEF RenderInv
<1>6. CASE n # NArt
  <2>1. pc'[p] = "install" /\ job'[p].next = n + 1 BY <1>6, NextFileJob
  <2>2. \A a \in Art : (a < n + 1 => a <= n) /\ (~(a < n + 1) => a > n) BY <1>0 DEF Art
  <2> QED BY <1>2, <1>3, <1>4, <2>1, <2>2 DEF RenderInv
<1> QED BY <1>5, <1>6

LEMMA RenderInstalls == ASSUME TypeInv, NEW p \in Proc, RenderInv(p), Install(p) PROVE RenderInv(p)'
<1> USE Parts
<1> DEFINE n == job[p].next
<1>1. pc[p] = "install" /\ UNCHANGED <<store, conf, recd>> BY DEF Install
<1>2. n \in Art /\ n \in Nat /\ job[p].changed \in SUBSET Backend BY ArtFacts DEF JobType
<1>3. Staged(p, n) BY <1>1, <1>2 DEF RenderInv
<1>4. job[p].staged[n] = Render(n, store, job[p].view) /\ job[p].word[n] = LiveStatus(n, job[p].staged[n])
  BY <1>3 DEF Staged
<1>5. CASE job[p].word[n] = "current" /\ NextFile(p, job[p].changed) /\ UNCHANGED art
  <2>0. LiveStatus(n, job[p].staged[n]) = "current" BY <1>4, <1>5
  <2>1. art[n] = Render(n, store, job[p].view) /\ recd[n] = art[n]
    BY <1>2, <1>4, <2>0 DEF LiveStatus, Status
  <2> QED BY <1>1, <1>2, <1>5, <2>1, FileDone
<1>6. CASE CommitFails(p)
  <2>1. pc'[p] = "restore" BY <1>6 DEF CommitFails, Go
  <2> QED BY <2>1 DEF RenderInv
<1>7. CASE /\ pc' = [pc EXCEPT ![p] = "record"] /\ UNCHANGED job
           /\ \/ job[p].word[n] = "same" /\ art' = art
              \/ art' = [art EXCEPT ![n] = job[p].staged[n]]
  <2>1. art'[n] = Render(n, store, job[p].view) BY <1>2, <1>4, <1>7, WordMeans DEF Arts
  <2>2. \A a \in Art \ {n} : art'[a] = art[a] BY <1>2, <1>7 DEF Arts
  <2>3. pc'[p] = "record" /\ job' = job BY <1>7
  <2>4. \A a \in Art : a < n => Rendered(p, a)'
    BY <1>1, <1>2, <2>2, <2>3 DEF RenderInv, Rendered, Art
  <2>5. \A a \in Art : a > n => Staged(p, a)'
    <3> SUFFICES ASSUME NEW a \in Art, a > n PROVE Staged(p, a)' OBVIOUS
    <3>1. ~(a < n) /\ a # n BY <1>2 DEF Art
    <3>2. Staged(p, a) BY <1>1, <3>1 DEF RenderInv
    <3> QED BY <1>1, <2>2, <2>3, <3>1, <3>2 DEF Staged, LiveStatus, Status
  <2>6. p \notin Renderers => job'[p].view = conf' BY <1>1, <2>3 DEF RenderInv
  <2> QED BY <1>1, <2>1, <2>3, <2>4, <2>5, <2>6 DEF RenderInv
<1> QED BY <1>5, <1>6, <1>7 DEF Install, Go

LEMMA RenderRecords == ASSUME TypeInv, NEW p \in Proc, RenderInv(p), Record(p) PROVE RenderInv(p)'
<1> USE Parts
<1> DEFINE n == job[p].next
<1>1. pc[p] = "record" /\ UNCHANGED <<store, conf, art>> BY DEF Record
<1>2. n \in Art /\ job[p].changed \in SUBSET Backend BY DEF JobType
<1>3. CASE CommitFails(p)
  <2>1. pc'[p] = "restore" BY <1>3 DEF CommitFails, Go
  <2> QED BY <2>1 DEF RenderInv
<1>4. CASE recd' = [recd EXCEPT ![n] = art[n]] /\ ~CommitFails(p)
  <2> DEFINE c == job[p].changed \cup (IF job[p].word[n] = "same" THEN {} ELSE {BackendOf(n)})
  <2>1. NextFile(p, c) BY <1>4 DEF Record
  <2>2. c \in SUBSET Backend BY <1>2, ArtFacts
  <2> HIDE DEF c
  <2>3. art[n] = Render(n, store, job[p].view) BY <1>1 DEF RenderInv
  <2>4. recd' \in Arts /\ recd'[n] = art[n] /\ \A a \in Art : a # n => recd'[a] = recd[a]
    BY <1>2, <1>4 DEF Arts
  <2> QED BY <1>1, <2>1, <2>2, <2>3, <2>4, FileDone
<1> QED BY <1>3, <1>4 DEF Record

LEMMA RenderEnds ==
  ASSUME TypeInv, NEW p \in Proc, RenderInv(p),
         \/ Restore(p) \/ RestoreRecords(p) \/ UndoStore(p) \/ UndoConf(p) \/ Restart(p)
         \/ ConfEdit(p) \/ Unlock(p) \/ Crash(p)
  PROVE  RenderInv(p)'
<1> USE Parts
<1>1. CASE Restart(p)
  <2>1. pc[p] = "restart" /\ pc'[p] = "unlock" /\ out'[p] = "ok" BY <1>1 DEF Restart, Verdict, Go
  <2>2. UNCHANGED <<store, conf, art, recd, job>> BY <1>1 DEF Restart
  <2> QED BY <2>1, <2>2 DEF RenderInv, Rendered
<1>2. CASE ConfEdit(p)
  <2>1. pc[p] = "edit" /\ pc'[p] = "unlock" /\ out'[p] \in {"ok", "failed"}
    BY <1>2 DEF ConfEdit, Verdict, Go
  <2> QED BY <2>1 DEF RenderInv
<1>3. CASE Restore(p) \/ RestoreRecords(p) \/ UndoStore(p) \/ UndoConf(p) \/ Unlock(p) \/ Crash(p)
  <2>1. \/ pc'[p] \in {"restore", "restore_rec", "undo_store", "undo_conf", "done", "dead"}
        \/ pc'[p] = "unlock" /\ out'[p] = "failed"
    BY <1>3 DEF Restore, RestoreRecords, UndoStore, UndoConf, Unlock, Crash, Undo, Verdict, Go
  <2> QED BY <2>1 DEF RenderInv
<1> QED BY <1>1, <1>2, <1>3

LEMMA NextRenders ==
  ASSUME NoEditInRender, TypeInv, RendersInv, [Next]_vars
  PROVE  RendersInv'
<1> USE Parts
<1>1. CASE EditFile \/ EditArt
  <2> SUFFICES ASSUME NEW p \in Proc PROVE RenderInv(p)' BY DEF RendersInv
  <2>1. UNCHANGED <<recd, lock, pc, job, out>> BY <1>1 DEF EditFile, EditArt
  <2>2. RenderInv(p) BY DEF RendersInv
  <2>3. CASE pc[p] \in {"stage", "keep", "install", "record", "restart", "unlock"}
    <3>1. lock = p BY <2>3 DEF TypeInv, TypeOK, Ended
    <3>2. Now = pc[p] BY <3>1, StoreApplyAssumption DEF Now
    <3>3. FALSE BY <1>1, <2>3, <3>2 DEF NoEditInRender, EditFile, EditArt
    <3> QED BY <3>3
  <2>4. CASE pc[p] \notin {"stage", "keep", "install", "record", "restart", "unlock"}
    BY <2>1, <2>2, <2>4 DEF RenderInv
  <2> QED BY <2>3, <2>4
<1>2. CASE \E q \in Proc : Step(q)
  <2> PICK q \in Proc : Step(q) BY <1>2
  <2>1. RenderInv(q)'
    <3>1. RenderInv(q) BY DEF RendersInv
    <3> QED
      BY <3>1, RenderBegins, RenderStages, RenderKeeps, RenderInstalls, RenderRecords, RenderEnds
      DEF Step
  <2>2. ASSUME NEW p \in Proc \ {q} PROVE RenderInv(p)'
    <3>1. RenderInv(p) BY <2>2 DEF RendersInv
    <3>2. pc'[p] = pc[p] /\ job'[p] = job[p] /\ out'[p] = out[p] BY <2>2, OneSteps
    <3>3. pc[p] \in Section => UNCHANGED <<store, conf, art, recd>> BY <2>2, OneSteps DEF disk
    <3> QED BY <2>2, <3>1, <3>2, <3>3, RenderFrame
  <2> QED BY <2>1, <2>2 DEF RendersInv
<1>3. CASE UNCHANGED vars
  <2> SUFFICES ASSUME NEW p \in Proc PROVE RenderInv(p)' BY DEF RendersInv
  <2>1. UNCHANGED <<store, conf, art, recd, pc, job, out>> BY <1>3 DEF vars
  <2>2. RenderInv(p) BY DEF RendersInv
  <2> QED BY <2>1, <2>2, RenderFrame
<1> QED BY <1>1, <1>2, <1>3 DEF Next

\* Success means rendered, whatever an earlier command left when it failed or
\* was killed: the stage reads the store and rendered.json itself, so a file
\* that is not recorded as the command would render it is written again and
\* recorded.  The files must not be edited by hand between the stage and the
\* verdict: the command reports what it read.
THEOREM OkIsRendered ==
  ASSUME NoEditInRender
  PROVE  Spec => []OkMeansRendered
<1>1. Init => RendersInv
  <2> SUFFICES ASSUME Init, NEW p \in Proc PROVE RenderInv(p) BY DEF RendersInv
  <2>1. pc[p] = "start" BY DEF Init
  <2> QED BY <2>1 DEF RenderInv
<1>2. TypeInv /\ RendersInv /\ [Next]_vars => RendersInv' BY NextRenders
<1>3. RendersInv => OkMeansRendered
  <2> SUFFICES ASSUME RendersInv, NEW p \in Appliers \cup Renderers \cup Restorers,
                      pc[p] \in {"restart", "unlock"}, out[p] \in {"none", "ok"}
               PROVE  /\ p \notin Renderers => job[p].view = conf
                      /\ \A a \in Art : art[a] = Render(a, store, job[p].view) /\ recd[a] = art[a]
    BY DEF OkMeansRendered
  <2>1. p \in Proc /\ p \notin ConfWriters BY KindAssumption DEF Proc
  <2>2. RenderInv(p) BY <2>1 DEF RendersInv
  <2> QED BY <2>1, <2>2 DEF RenderInv, Rendered
<1> QED BY <1>1, <1>2, <1>3, InitTypeInv, NextTypeInv, PTL DEF Spec

----------------------------------------------------------------------------
(* An acknowledged change stays.  While no restore has begun to write, the     *)
(* files hold every acknowledged change; so do the copies a rollback would put *)
(* back, taken under the same lock: nothing was acknowledged since but the     *)
(* holder's own change.                                                         *)

Quiet(r) ==
  pc[r] \in {"start", "wait", "snapshot", "copy", "write_store"} \/ out[r] \in {"failed", "cancelled"}

\* With the verdicts o, the files s and c hold every acknowledged change.
Acks(o, s, c) ==
  \A p \in Appliers \cup ConfWriters : o[p] = "ok" => p \in c /\ (p \in Appliers => p \in s)

InRender == {"stage", "keep", "install", "record", "restart"}

\* What a command's own place says: its kind, that it has no verdict yet, and
\* that a change that was not refused is in the files.
PlaceInv(p) ==
  /\ pc[p] = "gate" => p \in Appliers
  /\ pc[p] = "edit" => p \in ConfWriters
  /\ pc[p] \in {"snapshot", "copy", "write_store", "write_conf", "post", "undo_store", "undo_conf"} =>
       p \in Appliers \cup Restorers
  /\ pc[p] \in InRender \cup {"restore", "restore_rec"} => p \notin ConfWriters
  /\ pc[p] \notin {"unlock", "done", "dead"} => out[p] = "none"
  /\ p \in Appliers =>
       /\ pc[p] = "write_conf" => p \in store
       /\ pc[p] \in InRender \/ (pc[p] = "post" /\ ~job[p].werr) => p \in store /\ p \in conf

CopiesInv(p) ==
  (\A r \in Restorers \ {p} : Quiet(r)) =>
    /\ pc[p] \in Writing /\ p \notin Renderers => Acks(out, job[p].keep.store, job[p].keep.conf)
    /\ pc[p] = "undo_conf" => Acks(out, store, job[p].keep.conf)

AckInv ==
  /\ \A p \in Proc : PlaceInv(p)
  /\ \A p \in Proc : lock = p => CopiesInv(p)
  /\ (\A r \in Restorers : Quiet(r)) => Acks(out, store, conf)

\* The steps of a command at work, from its gate to its verdict.
AtWork(p) ==
  \/ Gate(p) \/ Snapshot(p) \/ WriterFails(p) \/ WriteStore(p) \/ WriteConf(p) \/ Post(p)
  \/ Stage(p) \/ Keep(p) \/ Install(p) \/ Record(p) \/ Restore(p) \/ RestoreRecords(p)
  \/ UndoStore(p) \/ UndoConf(p) \/ Restart(p) \/ ConfEdit(p)

LEMMA StepCases ==
  ASSUME NEW q \in Proc, Step(q)
  PROVE  Start(q) \/ Acquire(q) \/ CancelWait(q) \/ Copy(q) \/ AtWork(q) \/ Unlock(q) \/ Crash(q)
BY DEF Step, AtWork

\* They all keep what the command found, what it copied and what it is to read.
LEMMA WorkKeeps ==
  ASSUME TypeInv, NEW p \in Proc, AtWork(p)
  PROVE  /\ job'[p].at = job[p].at /\ job'[p].keep = job[p].keep /\ job'[p].pick = job[p].pick
         /\ lock' = lock /\ pc[p] \in Section /\ lock = p
<1> USE Parts
<1>0. lock' = lock /\ pc[p] \in Section
  BY DEF AtWork, Gate, Snapshot, WriterFails, WriteStore, WriteConf, Post, Stage, Keep, Install, Record,
         Restore, RestoreRecords, UndoStore, UndoConf, Restart, ConfEdit, Section, Phase, Ended
<1>1. lock = p BY <1>0 DEF TypeInv, TypeOK, Section
<1>2. job'[p].at = job[p].at /\ job'[p].keep = job[p].keep /\ job'[p].pick = job[p].pick
  <2>1. CASE Gate(p) \/ WriterFails(p) \/ Keep(p) \/ Restore(p)
    BY <2>1 DEF Gate, WriterFails, Keep, Restore, JobType
  <2>2. CASE Snapshot(p) \/ WriteStore(p) \/ WriteConf(p) \/ RestoreRecords(p) \/ UndoStore(p)
             \/ UndoConf(p) \/ Restart(p) \/ ConfEdit(p)
    BY <2>2 DEF Snapshot, WriteStore, WriteConf, RestoreRecords, UndoStore, UndoConf, Restart, ConfEdit
  <2>3. CASE Post(p)
    <3>1. job'[p] = [job[p] EXCEPT !.view = conf, !.post = Files(store, conf)] BY <2>3 DEF Post, JobType
    <3> QED BY <3>1 DEF JobType
  <2>4. CASE Stage(p) BY <2>4, StageJob
  <2>5. CASE Install(p) \/ Record(p)
    BY <2>5 DEF Install, Record, NextFile, CommitFails, JobType
  <2> QED BY <2>1, <2>2, <2>3, <2>4, <2>5 DEF AtWork
<1> QED BY <1>0, <1>1, <1>2

\* A command that is not at work says nothing of the files.
LEMMA PlaceFrame ==
  ASSUME TypeInv, NEW p \in Proc, PlaceInv(p), pc'[p] = pc[p], job'[p] = job[p], out'[p] = out[p],
         pc[p] \in Section => store \subseteq store' /\ conf \subseteq conf'
  PROVE  PlaceInv(p)'
<1> USE Parts
<1>1. CASE pc[p] \in Section BY <1>1 DEF PlaceInv
<1>2. CASE pc[p] \notin Section BY <1>2 DEF PlaceInv, Section, Phase, Ended, InRender
<1> QED BY <1>1, <1>2

LEMMA PlaceSteps ==
  ASSUME TypeInv, NEW p \in Proc, PlaceInv(p), Step(p)
  PROVE  PlaceInv(p)'
<1> USE Parts
<1>1. CASE Start(p)
  <2>1. pc'[p] = "wait" /\ pc[p] = "start" /\ out' = out BY <1>1 DEF Start, Go
  <2> QED BY <2>1 DEF PlaceInv, InRender
<1>2. CASE Acquire(p)
  <2>1. pc'[p] = First(p) /\ pc[p] = "wait" /\ out' = out BY <1>2 DEF Acquire, Go
  <2> QED BY <2>1, KindAssumption DEF PlaceInv, InRender, First, Proc
<1>3. CASE CancelWait(p) \/ Unlock(p) \/ Crash(p)
  <2>1. pc'[p] \in {"done", "dead"} BY <1>3 DEF CancelWait, Unlock, Crash, Go
  <2> QED BY <2>1 DEF PlaceInv, InRender
<1>4. CASE Gate(p) \/ Snapshot(p) \/ Copy(p)
  <2>1. /\ pc[p] \in {"gate", "snapshot", "copy"}
        /\ \/ pc'[p] \in {"snapshot", "copy", "write_store"} /\ out' = out
           \/ pc'[p] = "unlock"
    BY <1>4 DEF Gate, Snapshot, Copy, Go, Verdict
  <2> QED BY <2>1 DEF PlaceInv, InRender
<1>5. CASE WriteStore(p)
  <2>1. pc[p] = "write_store" /\ pc'[p] = "write_conf" /\ out' = out /\ UNCHANGED <<conf, job>>
    BY <1>5 DEF WriteStore, Go
  <2>2. p \in Appliers => p \in store' BY <1>5, KindAssumption DEF WriteStore
  <2> QED BY <2>1, <2>2 DEF PlaceInv, InRender
<1>6. CASE WriteConf(p)
  <2>1. pc[p] = "write_conf" /\ pc'[p] = "post" /\ out' = out /\ UNCHANGED <<store, job>>
    BY <1>6 DEF WriteConf, Go
  <2>2. p \in Appliers => p \in conf' BY <1>6, KindAssumption DEF WriteConf
  <2> QED BY <2>1, <2>2 DEF PlaceInv, InRender
<1>7. CASE WriterFails(p)
  <2>1. pc[p] \in {"write_store", "write_conf"} /\ pc'[p] = "post" /\ out' = out /\ job'[p].werr
    BY <1>7 DEF WriterFails, Go, JobType
  <2> QED BY <2>1 DEF PlaceInv, InRender
<1>8. CASE Undo(p) /\ UNCHANGED <<store, conf>> /\ pc[p] \in {"post", "stage", "keep", "restore_rec"}
  <2>1. pc'[p] = "unlock" \/ (p \notin Renderers /\ pc'[p] = "undo_store" /\ out' = out)
    BY <1>8 DEF Undo, Verdict, Go
  <2> QED BY <1>8, <2>1 DEF PlaceInv, InRender, Proc
<1>9. CASE ~Undo(p) /\ (Post(p) \/ Stage(p) \/ Keep(p))
  <2>1. /\ pc[p] \in {"post", "stage", "keep"} /\ pc'[p] \in {"stage", "keep", "install"}
        /\ out' = out /\ UNCHANGED <<store, conf>> /\ (pc[p] = "post" => ~job[p].werr)
    BY <1>9 DEF Post, Stage, Keep, Go, disk
  <2> QED BY <2>1, KindAssumption DEF PlaceInv, InRender
<1>10. CASE Install(p) \/ Record(p) \/ Restore(p)
  <2>1. /\ pc[p] \in {"install", "record", "restore"} /\ out' = out /\ UNCHANGED <<store, conf>>
        /\ pc'[p] \in {"install", "record", "restart", "restore", "restore_rec"}
        /\ pc[p] = "restore" => pc'[p] \in {"restore", "restore_rec"}
    BY <1>10 DEF Install, Record, Restore, NextFile, CommitFails, Go
  <2> QED BY <2>1 DEF PlaceInv, InRender
<1>11. CASE UndoStore(p)
  <2>1. pc[p] = "undo_store" /\ pc'[p] = "undo_conf" /\ out' = out BY <1>11 DEF UndoStore, Go
  <2> QED BY <2>1 DEF PlaceInv, InRender
<1>12. CASE UndoConf(p) \/ Restart(p) \/ ConfEdit(p)
  <2>1. pc'[p] = "unlock" BY <1>12 DEF UndoConf, Restart, ConfEdit, Verdict, Go
  <2> QED BY <2>1 DEF PlaceInv, InRender
<1>13. Post(p) \/ Stage(p) \/ Keep(p) \/ RestoreRecords(p) =>
         UNCHANGED <<store, conf>> /\ pc[p] \in {"post", "stage", "keep", "restore_rec"}
  BY DEF Post, Stage, Keep, RestoreRecords, disk
<1>14. RestoreRecords(p) => Undo(p) BY DEF RestoreRecords
<1> QED BY <1>1, <1>2, <1>3, <1>4, <1>5, <1>6, <1>7, <1>8, <1>9, <1>10, <1>11, <1>12, <1>13, <1>14 DEF Step

\* A restore that has begun to write becomes quiet only by its rollback's last step.
LEMMA QuietBack ==
  ASSUME TypeInv, NEW q \in Proc, PlaceInv(q), Step(q), ~UndoConf(q), NEW r \in Restorers, Quiet(r)'
  PROVE  Quiet(r)
<1> USE Parts
<1>0. r \in Proc BY DEF Proc
<1>1. CASE r # q
  <2>1. pc'[r] = pc[r] /\ out'[r] = out[r] BY <1>0, <1>1, OneSteps
  <2> QED BY <2>1 DEF Quiet
<1>2. CASE r = q
  <2>0. q \notin Appliers /\ q \notin Renderers /\ q \notin ConfWriters BY <1>2, KindAssumption
  <2>1. CASE Start(q) \/ Acquire(q) \/ CancelWait(q)
    BY <1>2, <2>1 DEF Start, Acquire, CancelWait, Quiet
  <2>2. CASE Gate(q) \/ ConfEdit(q) BY <2>0, <2>2 DEF Gate, ConfEdit, PlaceInv
  <2>3. CASE Snapshot(q) \/ Copy(q) \/ WriteStore(q)
    BY <1>2, <2>3 DEF Snapshot, Copy, WriteStore, Quiet
  <2>4. CASE /\ pc'[q] \notin {"start", "wait", "snapshot", "copy", "write_store"}
             /\ out'[q] = out[q] \/ out'[q] = "ok"
    BY <1>0, <1>2, <2>4 DEF Quiet
  <2>5. CASE \/ WriterFails(q) \/ WriteConf(q) \/ Post(q) \/ Stage(q) \/ Keep(q) \/ Install(q)
             \/ Record(q) \/ Restore(q) \/ RestoreRecords(q) \/ UndoStore(q) \/ Restart(q)
             \/ Unlock(q) \/ Crash(q)
    <3>1. pc'[q] \notin {"start", "wait", "snapshot", "copy", "write_store"}
      BY <2>0, <2>5 DEF WriterFails, WriteConf, Post, Stage, Keep, Install, Record, Restore,
         RestoreRecords, UndoStore, Restart, Unlock, Crash, Undo, Verdict, NextFile, CommitFails, Go
    <3>2. out'[q] = out[q] \/ out'[q] = "ok"
      BY <2>0, <2>5 DEF WriterFails, WriteConf, Post, Stage, Keep, Install, Record, Restore,
         RestoreRecords, UndoStore, Restart, Unlock, Crash, Undo, Verdict
    <3> QED BY <2>4, <3>1, <3>2
  <2> QED BY <2>1, <2>2, <2>3, <2>5 DEF Step
<1> QED BY <1>1, <1>2

\* A change is acknowledged by the restart, a tunable by its edit.
LEMMA OkBack ==
  ASSUME TypeInv, NEW q \in Proc, Step(q), ~Restart(q), ~ConfEdit(q), NEW p \in Proc, out'[p] = "ok"
  PROVE  out[p] = "ok"
<1> USE Parts
<1>1. out'[q] = out[q] \/ out'[q] \in {"failed", "refused", "cancelled"}
  BY DEF Step, Start, Acquire, CancelWait, Gate, Snapshot, Copy, WriterFails, WriteStore, WriteConf,
         Post, Stage, Keep, Install, Record, Restore, RestoreRecords, UndoStore, UndoConf,
         Unlock, Crash, Undo, Verdict
<1> QED BY <1>1, OneSteps

LEMMA AcksGrow ==
  ASSUME NEW o, NEW s, NEW c, NEW o2, NEW s2, NEW c2, Acks(o, s, c),
         s \subseteq s2, c \subseteq c2,
         \A p \in Appliers \cup ConfWriters : o2[p] = "ok" => o[p] = "ok"
  PROVE  Acks(o2, s2, c2)
BY DEF Acks

\* A step that neither acknowledges nor takes back: the files grow or stay.
LEMMA AckOnward ==
  ASSUME TypeInv, AckInv, NEW q \in Proc, Step(q),
         ~Restart(q), ~ConfEdit(q), ~UndoConf(q), ~UndoStore(q), ~Copy(q),
         q \in Restorers /\ Quiet(q)' => UNCHANGED <<store, conf>>,
         q \notin Restorers => store \subseteq store' /\ conf \subseteq conf'
  PROVE  /\ \A p \in Proc : lock' = p => CopiesInv(p)'
         /\ (\A r \in Restorers : Quiet(r)') => Acks(out', store', conf')
<1> USE Parts
<1>0. PlaceInv(q) BY DEF AckInv
<1>1. \A r \in Restorers : Quiet(r)' => Quiet(r) BY <1>0, QuietBack
<1>2. \A p \in Appliers \cup ConfWriters : out'[p] = "ok" => out[p] = "ok" BY OkBack DEF Proc
<1>3. ASSUME \A r \in Restorers : Quiet(r)' PROVE Acks(out', store', conf')
  <2>1. Acks(out, store, conf) BY <1>1, <1>3 DEF AckInv
  <2>2. store \subseteq store' /\ conf \subseteq conf' BY <1>3
  <2> QED BY <1>2, <2>1, <2>2, AcksGrow
<1>4. ASSUME NEW p \in Proc, lock' = p PROVE CopiesInv(p)'
  <2>1. CASE p # q
    <3>1. pc'[p] = pc[p] /\ job'[p] = job[p] BY <2>1, OneSteps
    <3>2. lock = p
      BY <1>4, <2>1, StoreApplyAssumption, StepCases, WorkKeeps
      DEF Start, Acquire, CancelWait, Copy, Unlock, Crash
    <3>3. CopiesInv(p) BY <3>2 DEF AckInv
    <3>4. pc[p] \in Section BY <3>2 DEF TypeInv, TypeOK, Section
    <3>5. UNCHANGED <<store, conf>> BY <2>1, <3>4, OneSteps DEF disk
    <3> SUFFICES ASSUME \A r \in Restorers \ {p} : Quiet(r)'
                 PROVE  /\ pc[p] \in Writing /\ p \notin Renderers =>
                             Acks(out', job[p].keep.store, job[p].keep.conf)
                        /\ pc[p] = "undo_conf" => Acks(out', store, job[p].keep.conf)
      BY <3>1, <3>5 DEF CopiesInv
    <3>6. \A r \in Restorers \ {p} : Quiet(r) BY <1>1
    <3> QED BY <1>2, <3>3, <3>6, AcksGrow DEF CopiesInv
  <2>2. CASE p = q
    <3>1. CASE Acquire(q)
      <4>1. pc'[q] = First(q) BY <3>1 DEF Acquire, Go
      <4>2. pc'[q] # "undo_conf" /\ (pc'[q] \in Writing => q \in Renderers)
        BY <4>1 DEF First, Writing, Committing
      <4> QED BY <2>2, <4>2 DEF CopiesInv
    <3>2. CASE AtWork(q)
      <4>1. job'[q].keep = job[q].keep /\ lock = q BY <3>2, WorkKeeps
      <4>2. pc'[q] # "undo_conf" /\ (pc'[q] \in Writing => pc[q] \in Writing)
        BY <3>2 DEF AtWork, Gate, Snapshot, WriterFails, WriteStore, WriteConf, Post, Stage, Keep,
             Install, Record, Restore, RestoreRecords, Undo, Verdict, NextFile, CommitFails, Go,
             Writing, Committing
      <4>3. CopiesInv(q) BY <4>1 DEF AckInv
      <4> SUFFICES ASSUME \A r \in Restorers \ {q} : Quiet(r)', pc'[q] \in Writing, q \notin Renderers
                   PROVE  Acks(out', job[q].keep.store, job[q].keep.conf)
        BY <2>2, <4>1, <4>2 DEF CopiesInv
      <4>4. \A r \in Restorers \ {q} : Quiet(r) BY <1>1
      <4> QED BY <1>2, <4>2, <4>3, <4>4, AcksGrow DEF CopiesInv
    <3>3. CASE Start(q) \/ CancelWait(q) \/ Unlock(q) \/ Crash(q)
      BY <1>4, <2>2, <3>3, StoreApplyAssumption
      DEF Start, CancelWait, Unlock, Crash, TypeInv, TypeOK, Ended
    <3> QED BY <3>1, <3>2, <3>3, StepCases
  <2> QED BY <2>1, <2>2
<1> QED BY <1>3, <1>4

LEMMA AckOthers ==
  ASSUME TypeInv, AckInv, NEW q \in Proc, Step(q)
  PROVE  \A p \in Proc : PlaceInv(p)'
<1>1. PlaceInv(q)' BY PlaceSteps DEF AckInv
<1>2. ASSUME NEW p \in Proc \ {q} PROVE PlaceInv(p)'
  <2>1. pc'[p] = pc[p] /\ job'[p] = job[p] /\ out'[p] = out[p] BY <1>2, OneSteps
  <2>2. pc[p] \in Section => store \subseteq store' /\ conf \subseteq conf' BY <1>2, OneSteps DEF disk
  <2>3. PlaceInv(p) BY <1>2 DEF AckInv
  <2> QED BY <1>2, <2>1, <2>2, <2>3, PlaceFrame
<1> QED BY <1>1, <1>2

\* The holder's own steps that copy, take back or acknowledge.
LEMMA AckCopy ==
  ASSUME TypeInv, AckInv, NEW q \in Proc, Copy(q) \/ UndoStore(q) \/ UndoConf(q)
  PROVE  /\ \A p \in Proc : lock' = p => CopiesInv(p)'
         /\ (\A r \in Restorers : Quiet(r)') => Acks(out', store', conf')
<1> USE Parts
<1>0. Step(q) /\ lock' = lock /\ pc[q] \in Section
  BY DEF Step, Copy, UndoStore, UndoConf, Section, Phase, Ended
<1>1. lock = q BY <1>0 DEF TypeInv, TypeOK, Section
<1>2. CopiesInv(q) /\ PlaceInv(q) BY <1>1 DEF AckInv
<1>3. \A p \in Appliers \cup ConfWriters : out'[p] = "ok" => out[p] = "ok"
  <2>1. ~Restart(q) /\ ~ConfEdit(q) BY DEF Copy, UndoStore, UndoConf, Restart, ConfEdit
  <2> QED BY <1>0, <2>1, OkBack DEF Proc
<1>4. \A r \in Restorers \ {q} : Quiet(r)' => Quiet(r)
  <2> SUFFICES ASSUME NEW r \in Restorers \ {q}, Quiet(r)' PROVE Quiet(r) OBVIOUS
  <2>1. pc'[r] = pc[r] /\ out'[r] = out[r] BY <1>0, OneSteps DEF Proc
  <2> QED BY <2>1 DEF Quiet
<1>5. ASSUME NEW p \in Proc, lock' = p PROVE p = q BY <1>0, <1>1, <1>5
<1>6. CASE Copy(q)
  <2>1. pc[q] = "copy" /\ UNCHANGED <<store, conf>> BY <1>6 DEF Copy, disk
  <2>2. ASSUME \A r \in Restorers \ {q} : Quiet(r)' PROVE Acks(out', store, conf)
    <3>1. \A r \in Restorers : Quiet(r) BY <1>4, <2>1, <2>2 DEF Quiet
    <3> QED BY <1>3, <3>1, AcksGrow DEF AckInv
  <2>3. CASE pc'[q] = "write_store"
    <3>1. job'[q].keep = Files(store, conf) BY <1>6, <2>3 DEF Copy, Verdict, Go, JobType
    <3>2. job'[q].keep.store = store /\ job'[q].keep.conf = conf BY <3>1 DEF Files
    <3> QED BY <1>5, <2>1, <2>2, <2>3, <3>2 DEF CopiesInv
  <2>4. CASE pc'[q] = "unlock"
    BY <1>5, <2>1, <2>2, <2>4 DEF CopiesInv, Writing, Committing
  <2>5. pc'[q] \in {"write_store", "unlock"} BY <1>6 DEF Copy, Verdict, Go
  <2> QED BY <2>3, <2>4, <2>5
<1>7. CASE UndoStore(q)
  <2>1. pc[q] = "undo_store" /\ pc'[q] = "undo_conf" /\ store' = job[q].keep.store
        /\ UNCHANGED <<conf, job, out>>
    BY <1>7 DEF UndoStore, Go
  <2>2. q \notin Renderers BY <1>2, <2>1, KindAssumption DEF PlaceInv
  <2>3. ASSUME \A r \in Restorers \ {q} : Quiet(r)'
        PROVE  Acks(out', job[q].keep.store, job[q].keep.conf)
    BY <1>2, <1>4, <2>1, <2>2, <2>3 DEF CopiesInv, Writing
  <2>4. ASSUME \A r \in Restorers : Quiet(r)' PROVE Acks(out', store', conf')
    <3>1. q \notin Restorers
      <4>1. out'[q] = "none" BY <1>2, <2>1 DEF PlaceInv
      <4> QED BY <2>1, <2>4, <4>1 DEF Quiet
    <3>2. \A r \in Restorers : Quiet(r) BY <1>4, <2>4, <3>1
    <3>3. Acks(out, store, conf) BY <3>2 DEF AckInv
    <3>4. Acks(out, job[q].keep.store, job[q].keep.conf) BY <2>1, <2>3, <2>4
    <3> QED BY <2>1, <3>3, <3>4 DEF Acks
  <2> QED BY <1>5, <2>1, <2>3, <2>4 DEF CopiesInv
<1>8. CASE UndoConf(q)
  <2>1. pc[q] = "undo_conf" /\ pc'[q] = "unlock" /\ conf' = job[q].keep.conf /\ UNCHANGED store
    BY <1>8 DEF UndoConf, Go, Verdict
  <2>2. ASSUME \A r \in Restorers \ {q} : Quiet(r)' PROVE Acks(out', store', conf')
    <3>1. Acks(out, store, job[q].keep.conf) BY <1>2, <1>4, <2>1, <2>2 DEF CopiesInv
    <3> QED BY <1>3, <2>1, <3>1, AcksGrow
  <2>3. pc'[q] \notin Writing BY <2>1 DEF Writing, Committing
  <2> QED BY <1>5, <2>1, <2>2, <2>3 DEF CopiesInv
<1> QED BY <1>6, <1>7, <1>8

LEMMA AckGiven ==
  ASSUME TypeInv, AckInv, NEW q \in Proc, Restart(q) \/ ConfEdit(q)
  PROVE  /\ \A p \in Proc : lock' = p => CopiesInv(p)'
         /\ (\A r \in Restorers : Quiet(r)') => Acks(out', store', conf')
<1> USE Parts
<1>0. Step(q) /\ lock' = lock /\ pc[q] \in Section /\ pc'[q] = "unlock"
  BY DEF Step, Restart, ConfEdit, Section, Phase, Ended, Verdict, Go
<1>1. lock = q BY <1>0 DEF TypeInv, TypeOK, Section
<1>2. PlaceInv(q) BY DEF AckInv
<1>3. ASSUME NEW p \in Proc, lock' = p PROVE CopiesInv(p)'
  <2>1. pc'[p] = "unlock" BY <1>0, <1>1, <1>3
  <2> QED BY <2>1 DEF CopiesInv, Writing, Committing
<1>4. ASSUME \A r \in Restorers : Quiet(r)' PROVE Acks(out', store', conf')
  <2>1. ~UndoConf(q) BY DEF Restart, ConfEdit, UndoConf
  <2>2. \A r \in Restorers : Quiet(r) BY <1>0, <1>2, <1>4, <2>1, QuietBack
  <2>3. Acks(out, store, conf) BY <2>2 DEF AckInv
  <2>4. store' = store /\ conf \subseteq conf' BY DEF Restart, ConfEdit
  <2>5. \A p \in Appliers \cup ConfWriters : p # q => out'[p] = out[p] BY <1>0, OneSteps DEF Proc
  <2>6. out'[q] = "ok" /\ q \in Appliers \cup ConfWriters => q \in conf' /\ (q \in Appliers => q \in store)
    <3>1. CASE Restart(q)
      <4>1. pc[q] = "restart" /\ conf' = conf BY <3>1 DEF Restart
      <4> QED BY <1>2, <4>1 DEF PlaceInv, InRender
    <3>2. CASE ConfEdit(q)
      <4>1. q \notin Appliers BY <1>2, <3>2, KindAssumption DEF PlaceInv, ConfEdit
      <4>2. out'[q] = "ok" => q \in conf' BY <3>2 DEF ConfEdit, Verdict
      <4> QED BY <4>1, <4>2
    <3> QED BY <3>1, <3>2
  <2> QED BY <2>3, <2>4, <2>5, <2>6 DEF Acks
<1> QED BY <1>3, <1>4

LEMMA NextAck == ASSUME TypeInv, AckInv, [Next]_vars PROVE AckInv'
<1> USE Parts
<1>1. CASE EditFile \/ EditArt \/ UNCHANGED vars
  <2>1. UNCHANGED <<lock, pc, job, out>> /\ store \subseteq store' /\ conf \subseteq conf'
    BY <1>1 DEF EditFile, EditArt, vars
  <2>2. \A p \in Proc : PlaceInv(p)' BY <2>1, PlaceFrame DEF AckInv
  <2>3. \A r \in Restorers : Quiet(r)' <=> Quiet(r) BY <2>1 DEF Quiet
  <2>4. (\A r \in Restorers : Quiet(r)') => Acks(out', store', conf')
    BY <2>1, <2>3, AcksGrow DEF AckInv
  <2>5. ASSUME NEW p \in Proc, lock' = p PROVE CopiesInv(p)'
    <3>1. CopiesInv(p) BY <2>1, <2>5 DEF AckInv
    <3> QED BY <2>1, <2>3, <3>1, AcksGrow DEF CopiesInv
  <2> QED BY <2>2, <2>4, <2>5 DEF AckInv
<1>2. CASE \E q \in Proc : Step(q)
  <2> PICK q \in Proc : Step(q) BY <1>2
  <2>1. \A p \in Proc : PlaceInv(p)' BY AckOthers
  <2>2. /\ \A p \in Proc : lock' = p => CopiesInv(p)'
        /\ (\A r \in Restorers : Quiet(r)') => Acks(out', store', conf')
    <3>1. CASE Copy(q) \/ UndoStore(q) \/ UndoConf(q) BY <3>1, AckCopy
    <3>2. CASE Restart(q) \/ ConfEdit(q) BY <3>2, AckGiven
    <3>3. CASE WriteStore(q) \/ WriteConf(q)
      <4>0. PlaceInv(q) BY DEF AckInv
      <4>1. pc'[q] \in {"write_conf", "post"} /\ out' = out /\ pc[q] \in {"write_store", "write_conf"}
        BY <3>3 DEF WriteStore, WriteConf, Go
      <4>2. ~Quiet(q)' BY <4>0, <4>1 DEF PlaceInv, Quiet
      <4>3. q \notin Restorers => store \subseteq store' /\ conf \subseteq conf'
        BY <3>3 DEF WriteStore, WriteConf
      <4>4. ~Restart(q) /\ ~ConfEdit(q) /\ ~UndoConf(q) /\ ~UndoStore(q) /\ ~Copy(q)
        BY <4>1 DEF Restart, ConfEdit, UndoConf, UndoStore, Copy
      <4> QED BY <4>2, <4>3, <4>4, AckOnward
    <3>4. CASE ~(\/ Copy(q) \/ UndoStore(q) \/ UndoConf(q) \/ Restart(q) \/ ConfEdit(q)
                 \/ WriteStore(q) \/ WriteConf(q))
      <4>1. UNCHANGED <<store, conf>>
        BY <3>4 DEF Step, Start, Acquire, CancelWait, Gate, Snapshot, WriterFails, Post, Stage, Keep,
             Install, Record, Restore, RestoreRecords, Unlock, Crash, disk
      <4> QED BY <3>4, <4>1, AckOnward
    <3> QED BY <3>1, <3>2, <3>3, <3>4
  <2> QED BY <2>1, <2>2 DEF AckInv
<1> QED BY <1>1, <1>2 DEF Next

\* An acknowledged change stays, whatever fails, is killed or is edited by hand
\* afterwards: the copies StoreApply's rollback puts back were taken under the
\* lock, when every change acknowledged so far was in them.
THEOREM AcknowledgedIsKept == Spec => []AcknowledgedStays
<1>1. Init => AckInv
  <2> SUFFICES ASSUME Init PROVE AckInv OBVIOUS
  <2>1. \A p \in Proc : pc[p] = "start" /\ out[p] = "none" BY DEF Init
  <2>2. \A p \in Proc : PlaceInv(p) BY <2>1 DEF PlaceInv, InRender
  <2>3. lock \notin Proc BY StoreApplyAssumption DEF Init
  <2>4. Acks(out, store, conf) BY <2>1 DEF Acks, Proc
  <2> QED BY <2>2, <2>3, <2>4 DEF AckInv
<1>2. TypeInv /\ AckInv /\ [Next]_vars => AckInv' BY NextAck
<1>3. AckInv => AcknowledgedStays BY DEF AckInv, AcknowledgedStays, Quiet, Acks
<1> QED BY <1>1, <1>2, <1>3, InitTypeInv, NextTypeInv, PTL DEF Spec

----------------------------------------------------------------------------
(* A change can be taken back.  The snapshot a restore is to read is no newer  *)
(* than the newest, so the one taken before the writer never has its number,   *)
(* and retention spares both.                                                   *)

PickInv == \A p \in Proc : \E s \in snaps : job[p].pick <= s.id

HistoryInv(p) ==
  /\ pc[p] \in {"gate", "snapshot"} =>
       Made(store) = Made(job[p].at.store) /\ Made(conf) = Made(job[p].at.conf)
  /\ pc[p] \notin {"gate", "snapshot"} /\ (pc[p] = "unlock" => out[p] = "ok") =>
       \E s \in snaps : Made(s.store) = Made(job[p].at.store) /\ Made(s.conf) = Made(job[p].at.conf)
  /\ p \in Restorers => Picked(p) = job[p].at.source

UndoInv ==
  /\ PickInv
  /\ \A p \in Appliers \cup Restorers : lock = p => HistoryInv(p)

\* A step leaves the lock with another holder only if that one had it.
LEMMA LockOf ==
  ASSUME TypeInv, NEW q \in Proc, Step(q), NEW p \in Proc, lock' = p, p # q
  PROVE  lock = p /\ pc[p] \in Section
<1>1. lock = p
  BY StoreApplyAssumption, StepCases, WorkKeeps DEF Start, Acquire, CancelWait, Copy, Unlock, Crash
<1> QED BY <1>1 DEF TypeInv, TypeOK, Section

\* What Take leaves: a snapshot of the state now, and what the restore reads.
LEMMA Taking ==
  ASSUME TypeInv, PickInv, NEW q \in Proc, Snapshot(q), pc'[q] # "unlock"
  PROVE  /\ \E s \in snaps' : s.store = store /\ s.conf = conf
         /\ Picked(q)' = Picked(q)
         /\ \A s \in snaps : \E t \in snaps' : s.id <= t.id
<1> USE Parts
<1>0. UNCHANGED <<store, conf, job>> /\ Newest \in snaps /\ \A t \in snaps : t.id <= Newest.id
  BY NewestType DEF Snapshot
<1>1. CASE snaps' = snaps /\ Newest.store = store /\ Newest.conf = conf
  <2>1. \A s \in snaps : s.id <= s.id BY DEF SnapsOK, Snap
  <2> QED BY <1>0, <1>1, <2>1 DEF Picked
<1>2. CASE snaps' = Pruned(snaps \cup {[id |-> Newest.id + 1, store |-> store, conf |-> conf]}, job[q].pick)
  <2> DEFINE n == [id |-> Newest.id + 1, store |-> store, conf |-> conf]
  <2>0. n.id = Newest.id + 1 /\ n.store = store /\ n.conf = conf OBVIOUS
  <2>1. snaps' = Pruned(snaps \cup {n}, job[q].pick) BY <1>2
  <2> HIDE DEF n
  <2>2. n \in snaps' /\ n \in Snap BY <2>1, PrunedType DEF n
  <2>3. Newest.id \in Nat /\ \A s \in snaps : s.id \in Nat BY <1>0 DEF SnapsOK, Snap
  <2>4. \A s \in snaps : s.id <= n.id BY <1>0, <2>0, <2>3
  <2>5. job[q].pick # n.id
    <3>1. job[q].pick \in Nat BY DEF JobType
    <3>2. PICK s \in snaps : job[q].pick <= s.id BY DEF PickInv
    <3> QED BY <1>0, <2>0, <2>3, <3>1, <3>2
  <2>6. \A s : s.id = job[q].pick => (s \in snaps' <=> s \in snaps \cup {n}) BY <2>1 DEF Pruned
  <2>7. Picked(q)' = Picked(q) BY <1>0, <2>5, <2>6 DEF Picked
  <2> QED BY <2>0, <2>2, <2>4, <2>7
<1> QED BY <1>1, <1>2 DEF Snapshot, Verdict, Go

LEMMA NextPick == ASSUME TypeInv, PickInv, [Next]_vars PROVE PickInv'
<1> USE Parts
<1>0. \A s \in snaps : s.id \in Nat /\ 0 <= s.id /\ s.id <= s.id BY DEF SnapsOK, Snap
<1>1. CASE EditFile \/ EditArt \/ UNCHANGED vars
  BY <1>1 DEF EditFile, EditArt, vars, PickInv
<1>2. CASE \E q \in Proc : Step(q)
  <2> PICK q \in Proc : Step(q) BY <1>2
  <2>1. CASE Snapshot(q)
    <3>1. job' = job BY <2>1 DEF Snapshot
    <3>2. \A s \in snaps : \E t \in snaps' : s.id <= t.id
      <4>1. CASE pc'[q] = "unlock"
        <5>1. snaps' = snaps BY <2>1, <4>1 DEF Snapshot, Go
        <5> QED BY <1>0, <5>1
      <4>2. CASE pc'[q] # "unlock" BY <2>1, <4>2, Taking
      <4> QED BY <4>1, <4>2
    <3>3. ASSUME NEW p \in Proc PROVE \E t \in snaps' : job[p].pick <= t.id
      <4>1. PICK s \in snaps : job[p].pick <= s.id BY <3>3 DEF PickInv
      <4>2. PICK t \in snaps' : s.id <= t.id BY <3>2
      <4>3. job[p].pick \in Nat /\ s.id \in Nat /\ t.id \in Nat
        <5>1. SnapsOK' BY <2>1, SnapshotType DEF TypeInv
        <5> QED BY <1>0, <5>1 DEF JobType, SnapsOK, Snap
      <4> QED BY <4>1, <4>2, <4>3
    <3> QED BY <3>1, <3>3 DEF PickInv
  <2>2. CASE ~Snapshot(q)
    <3>1. snaps' = snaps
      BY <2>2 DEF Step, Start, Acquire, CancelWait, Gate, Copy, WriterFails, WriteStore, WriteConf,
         Post, Stage, Keep, Install, Record, Restore, RestoreRecords, UndoStore, UndoConf, Restart,
         ConfEdit, Unlock, Crash, disk
    <3>2. \E s \in snaps : job'[q].pick <= s.id
      <4>1. job'[q].pick = job[q].pick \/ job'[q].pick \in {s.id : s \in snaps} \cup {0}
        <5>1. CASE Start(q)
          <6>1. PICK pick \in IF q \in Restorers THEN {s.id : s \in snaps} ELSE {0} :
                  job' = [job EXCEPT ![q] = [NoJob EXCEPT !.view = conf, !.pick = pick,
                            !.force = IF q \in Restorers \cup Forced THEN Backend ELSE {}]]
            BY <5>1 DEF Start
          <6> DEFINE f == IF q \in Restorers \cup Forced THEN Backend ELSE {}
          <6> HIDE DEF f
          <6>2. job'[q] = [NoJob EXCEPT !.view = conf, !.pick = pick, !.force = f] BY <6>1 DEF f
          <6>3. job'[q].pick = pick BY <6>2, NoJobType DEF JobType
          <6> QED BY <6>1, <6>3
        <5>2. CASE Acquire(q) \/ Copy(q) BY <5>2 DEF Acquire, Copy, JobType
        <5>3. CASE CancelWait(q) BY <5>3 DEF CancelWait
        <5>4. CASE AtWork(q) BY <5>4, WorkKeeps
        <5>5. CASE Unlock(q) \/ Crash(q)
          <6>1. job'[q] = NoJob BY <5>5 DEF Unlock, Crash
          <6> QED BY <6>1 DEF NoJob
        <5> QED BY <5>1, <5>2, <5>3, <5>4, <5>5, StepCases
      <4>2. \E s \in snaps : 0 <= s.id BY <1>0 DEF SnapsOK
      <4> QED BY <1>0, <4>1, <4>2 DEF PickInv
    <3>3. \A p \in Proc \ {q} : job'[p] = job[p] BY OneSteps
    <3> QED BY <3>1, <3>2, <3>3 DEF PickInv
  <2> QED BY <2>1, <2>2
<1> QED BY <1>1, <1>2 DEF Next

\* A command that keeps its place and what it holds keeps its way back.
LEMMA HistoryFrame ==
  ASSUME NEW p \in Proc, HistoryInv(p), pc'[p] = pc[p], job'[p] = job[p], out'[p] = out[p],
         snaps' = snaps, Made(store') = Made(store), Made(conf') = Made(conf)
  PROVE  HistoryInv(p)'
BY DEF HistoryInv, Picked, Made

LEMMA HistorySteps ==
  ASSUME TypeInv, PickInv, NEW q \in Appliers \cup Restorers, q \in Proc, Step(q), lock' = q,
         lock = q => HistoryInv(q)
  PROVE  HistoryInv(q)'
<1> USE Parts
<1>1. CASE Acquire(q)
  <2>1. job'[q] = [job[q] EXCEPT !.at = Found(q)] BY <1>1 DEF Acquire
  <2>2. job'[q].at = Found(q) /\ job'[q].pick = job[q].pick BY <2>1 DEF JobType
  <2>3. pc'[q] \in {"gate", "snapshot"} BY <1>1, KindAssumption DEF Acquire, Go, First
  <2>4. UNCHANGED <<store, conf, snaps>> BY <1>1 DEF Acquire, disk
  <2>5. Picked(q)' = Found(q).source BY <2>2, <2>4 DEF Picked, Found
  <2>6. Found(q).store = store /\ Found(q).conf = conf BY DEF Found
  <2> QED BY <2>2, <2>3, <2>4, <2>5, <2>6 DEF HistoryInv, Made
<1>2. CASE Snapshot(q)
  <2>1. UNCHANGED <<store, conf, job, lock>> /\ pc[q] = "snapshot" BY <1>2 DEF Snapshot
  <2>2. HistoryInv(q) BY <2>1
  <2>3. CASE pc'[q] = "unlock"
    <3>1. snaps' = snaps /\ out'[q] = "failed" BY <1>2, <2>3 DEF Snapshot, Go, Verdict
    <3> QED BY <2>1, <2>2, <2>3, <3>1 DEF HistoryInv, Picked
  <2>4. CASE pc'[q] # "unlock"
    <3>1. PICK s \in snaps' : s.store = store /\ s.conf = conf BY <1>2, <2>4, Taking
    <3>2. Picked(q)' = Picked(q) BY <1>2, <2>4, Taking
    <3>3. pc'[q] = "copy" BY <1>2, <2>4 DEF Snapshot, Go, Verdict
    <3> QED BY <2>1, <2>2, <3>1, <3>2, <3>3 DEF HistoryInv, Made
  <2> QED BY <2>3, <2>4
<1>3. CASE Gate(q)
  <2>1. UNCHANGED <<store, conf, snaps>> /\ pc[q] = "gate" BY <1>3 DEF Gate, disk
  <2>2. job'[q].at = job[q].at /\ job'[q].pick = job[q].pick /\ lock = q BY <1>3, WorkKeeps DEF AtWork
  <2>3. pc'[q] = "snapshot" \/ (pc'[q] = "unlock" /\ out'[q] = "refused") BY <1>3 DEF Gate, Go, Verdict
  <2>4. HistoryInv(q) BY <2>2
  <2> QED BY <2>1, <2>2, <2>3, <2>4 DEF HistoryInv, Picked, Made
<1>4. CASE (Copy(q) \/ AtWork(q)) /\ ~Snapshot(q) /\ ~Gate(q)
  <2>1. job'[q].at = job[q].at /\ job'[q].pick = job[q].pick /\ lock = q
    <3>1. CASE AtWork(q) BY <3>1, WorkKeeps
    <3>2. CASE Copy(q)
      <4>1. lock = q BY <3>2 DEF Copy
      <4> QED BY <3>2, <4>1 DEF Copy, JobType
    <3> QED BY <1>4, <3>1, <3>2
  <2>2. snaps' = snaps /\ pc[q] \notin {"gate", "snapshot", "unlock"} /\ pc'[q] \notin {"gate", "snapshot"}
    BY <1>4 DEF AtWork, Copy, WriterFails, WriteStore, WriteConf, Post, Stage, Keep, Install, Record,
         Restore, RestoreRecords, UndoStore, UndoConf, Restart, ConfEdit, Undo, Verdict, NextFile,
         CommitFails, Go, disk
  <2>3. HistoryInv(q) BY <2>1
  <2> QED BY <2>1, <2>2, <2>3 DEF HistoryInv, Picked
<1>5. CASE Start(q) \/ CancelWait(q) \/ Unlock(q) \/ Crash(q)
  BY <1>5, StoreApplyAssumption DEF Start, CancelWait, Unlock, Crash, TypeInv, TypeOK, Ended
<1> QED BY <1>1, <1>2, <1>3, <1>4, <1>5, StepCases

\* The change can be taken back from its first write on: the snapshot that Take
\* made, or found, and the one a restore reads are there until the command has
\* its verdict, for any retention.
THEOREM ChangeCanBeUndone == Spec => []UndoKept
<1>1. Init => UndoInv
  <2> SUFFICES ASSUME Init PROVE UndoInv OBVIOUS
  <2>1. PickInv BY DEF Init, PickInv, NoJob
  <2>2. lock \notin Appliers \cup Restorers BY StoreApplyAssumption DEF Init, Proc
  <2> QED BY <2>1, <2>2 DEF UndoInv
<1>2. TypeInv /\ UndoInv /\ [Next]_vars => UndoInv'
  <2> SUFFICES ASSUME TypeInv, UndoInv, [Next]_vars PROVE UndoInv' OBVIOUS
  <2>1. PickInv' BY NextPick DEF UndoInv
  <2>2. ASSUME NEW p \in Appliers \cup Restorers, lock' = p PROVE HistoryInv(p)'
    <3>0. p \in Proc BY DEF Proc
    <3>1. CASE EditFile \/ EditArt \/ UNCHANGED vars
      <4>1. UNCHANGED <<lock, pc, job, out, snaps>> BY <3>1 DEF EditFile, EditArt, vars
      <4>2. Made(store') = Made(store) /\ Made(conf') = Made(conf)
        BY <3>1 DEF EditFile, EditArt, vars, Unused, Made
      <4>3. HistoryInv(p) BY <2>2, <4>1 DEF UndoInv
      <4> QED BY <3>0, <4>1, <4>2, <4>3, HistoryFrame
    <3>2. CASE \E q \in Proc : Step(q)
      <4> PICK q \in Proc : Step(q) BY <3>2
      <4>1. CASE p = q BY <2>2, <4>1, HistorySteps DEF UndoInv
      <4>2. CASE p # q
        <5>1. lock = p /\ pc[p] \in Section BY <2>2, <3>0, <4>2, LockOf
        <5>2. pc'[p] = pc[p] /\ job'[p] = job[p] /\ out'[p] = out[p] /\ UNCHANGED disk
          BY <3>0, <4>2, <5>1, OneSteps
        <5>3. HistoryInv(p) BY <5>1 DEF UndoInv
        <5> QED BY <3>0, <5>2, <5>3, HistoryFrame DEF disk
      <4> QED BY <4>1, <4>2
    <3> QED BY <3>1, <3>2 DEF Next
  <2> QED BY <2>1, <2>2 DEF UndoInv
<1>3. UndoInv => UndoKept BY DEF UndoInv, HistoryInv, UndoKept
<1> QED BY <1>1, <1>2, <1>3, InitTypeInv, NextTypeInv, PTL DEF Spec

----------------------------------------------------------------------------
(* Hand edits of the generated files, and the daemons.  A file with an edit in *)
(* it is marked.  What tacctl renders and what it records never is, so a file   *)
(* that is recorded as it stands has no edit.                                    *)

Marked(x) == x # NoFile /\ \E e \in x : e[1] = "art"
Unmarked(f) == \A a \in Art : ~Marked(f[a])

\* The holder's files against those it found, as the commit goes through them.
MarkInv(p) ==
  LET at == job[p].at
      n == job[p].next IN
  /\ Unmarked(at.recd) /\ Unmarked(job[p].staged)
  /\ \A a \in Art : job[p].word[a] \in {"same", "current"} => job[p].staged[a] = at.art[a]
  /\ pc[p] = "install" => \A a \in Art : a >= n => art[a] = at.art[a]
  /\ pc[p] = "record" => art[n] = job[p].staged[n] /\ \A a \in Art : a > n => art[a] = at.art[a]
  /\ pc[p] \in Committing => \A a \in Art : Marked(art[a]) => art[a] = at.art[a]

NotStaged(p) == \A a \in Art : job[p].word[a] = "none" /\ ~Marked(job[p].staged[a])

MarksInv ==
  /\ Unmarked(recd)
  /\ \A p \in Proc : pc[p] = "wait" => NotStaged(p)
  /\ \A p \in Proc : lock = p => MarkInv(p)

\* The daemons run the files f, edited ones aside.
Running(f) == \A a \in Art : ~Marked(f[a]) => daemon[a] = f[a]

\* What the holder has replaced it is to restart.
RestartInv(p) ==
  LET due(a) == art[a] # job[p].at.art[a] => BackendOf(a) \in job[p].changed IN
  /\ IF pc[p] = "unlock" THEN Running(art) ELSE Running(job[p].at.art)
  /\ pc[p] \in {"install", "record"} => \A a \in Art : a < job[p].next => due(a)
  /\ pc[p] = "restart" => \A a \in Art : due(a)

DaemonsInv ==
  /\ lock = NoOne => Running(art)
  /\ \A p \in Proc : lock = p => RestartInv(p)

\* The commands that were not given --force.
Unforced == Appliers \cup (Renderers \ Forced)

\* Such a command forces a backend only where the gate found no edit, and every
\* file is staged before the first is replaced.
ForceInv(p) ==
  /\ pc[p] \in {"wait", "gate"} => job[p].force = {}
  /\ pc[p] \in {"wait", "gate", "snapshot", "copy", "write_store", "write_conf", "post"} =>
       job[p].next = 1
  /\ lock = p =>
       /\ \A a \in Art : BackendOf(a) \in job[p].force => ~Marked(job[p].at.art[a])
       /\ \A a \in Art : job[p].word[a] \notin {"none", "same", "current"} => ~Marked(job[p].at.art[a])
  /\ pc[p] = "stage" =>
       job[p].next \in Backend /\ \A a \in Art : BackendOf(a) < job[p].next => job[p].word[a] # "none"
  /\ pc[p] \in {"keep", "install", "record"} => \A a \in Art : job[p].word[a] # "none"

EditedInv ==
  \A e \in edited : e.file = "art" =>
    /\ e.n \in Art /\ art[e.n] # NoFile
    /\ \A p \in Proc : lock = p => job[p].at.art[e.n] # NoFile

EditsInv == EditedInv /\ \A p \in Unforced : ForceInv(p)

\* The steps that stage and commit nothing.
Plain(p) ==
  \/ Gate(p) \/ Snapshot(p) \/ Copy(p) \/ WriterFails(p) \/ WriteStore(p) \/ WriteConf(p)
  \/ Post(p) \/ Keep(p) \/ RestoreRecords(p) \/ UndoStore(p) \/ UndoConf(p) \/ Restart(p) \/ ConfEdit(p)

LEMMA WorkCases ==
  ASSUME NEW q \in Proc, Step(q)
  PROVE  \/ Start(q) \/ Acquire(q) \/ CancelWait(q) \/ Unlock(q) \/ Crash(q) \/ Plain(q)
         \/ Stage(q) \/ Install(q) \/ Record(q) \/ Restore(q)
BY DEF Step, Plain

LEMMA PlainKeeps ==
  ASSUME TypeInv, NEW p \in Proc, Plain(p)
  PROVE  /\ job'[p].at = job[p].at /\ job'[p].staged = job[p].staged /\ job'[p].word = job[p].word
         /\ job'[p].next = job[p].next /\ job'[p].changed = job[p].changed
         /\ ~Gate(p) => job'[p].force = job[p].force
         /\ UNCHANGED <<art, lock>> /\ lock = p
         /\ UNCHANGED recd \/ RestoreRecords(p)
         /\ UNCHANGED daemon \/ Restart(p)
<1> USE Parts
<1>0. lock' = lock /\ pc[p] \in Section /\ art' = art
  BY DEF Plain, Gate, Snapshot, Copy, WriterFails, WriteStore, WriteConf, Post, Keep, RestoreRecords,
         UndoStore, UndoConf, Restart, ConfEdit, Section, Phase, Ended, disk
<1>1. lock = p BY <1>0 DEF TypeInv, TypeOK, Section
<1>2. (UNCHANGED recd \/ RestoreRecords(p)) /\ (UNCHANGED daemon \/ Restart(p))
  BY DEF Plain, Gate, Snapshot, Copy, WriterFails, WriteStore, WriteConf, Post, Keep, RestoreRecords,
         UndoStore, UndoConf, Restart, ConfEdit, disk
<1>3. /\ job'[p].at = job[p].at /\ job'[p].staged = job[p].staged /\ job'[p].word = job[p].word
      /\ job'[p].next = job[p].next /\ job'[p].changed = job[p].changed
      /\ ~Gate(p) => job'[p].force = job[p].force
  <2>1. CASE Gate(p) \/ WriterFails(p) \/ Copy(p) BY <2>1 DEF Gate, WriterFails, Copy, JobType
  <2>2. CASE Snapshot(p) \/ WriteStore(p) \/ WriteConf(p) \/ RestoreRecords(p) \/ UndoStore(p)
             \/ UndoConf(p) \/ Restart(p) \/ ConfEdit(p)
    BY <2>2 DEF Snapshot, WriteStore, WriteConf, RestoreRecords, UndoStore, UndoConf, Restart, ConfEdit
  <2>3. CASE Post(p)
    <3>1. job'[p] = [job[p] EXCEPT !.view = conf, !.post = Files(store, conf)] BY <2>3 DEF Post, JobType
    <3> QED BY <3>1 DEF JobType
  <2>4. CASE Keep(p)
    <3>1. job'[p] = job[p] \/ job'[p] = [job[p] EXCEPT !.keptArt = art, !.keptRec = recd]
      BY <2>4 DEF Keep, JobType
    <3> QED BY <3>1 DEF JobType
  <2> QED BY <2>1, <2>2, <2>3, <2>4 DEF Plain
<1> QED BY <1>0, <1>1, <1>2, <1>3

LEMMA RenderUnmarked == ASSUME NEW a, NEW s, NEW c PROVE ~Marked(Render(a, s, c))
<1> SUFFICES ASSUME NEW e \in Render(a, s, c) PROVE e[1] # "art" BY DEF Marked
<1> DEFINE hidden == ConfWriters \cup (IF a = 1 THEN {} ELSE TacacsOnly)
<1>1. e \in {"store"} \X (s \ hidden) \/ e \in {"conf"} \X (c \ hidden) BY DEF Render
<1> HIDE DEF hidden
<1> QED BY <1>1

\* A stage sets a file's bytes and word together, from the file that is there.
LEMMA StageSets ==
  ASSUME TypeInv, NEW p \in Proc, Stage(p), NEW a \in Art
  PROVE  \/ job'[p].staged[a] = job[p].staged[a] /\ job'[p].word[a] = job[p].word[a]
         \/ /\ BackendOf(a) = job[p].next
            /\ job'[p].staged[a] = Render(a, store, job[p].view)
            /\ job'[p].word[a] = LiveStatus(a, job'[p].staged[a])
            /\ ~StageRefuses(p, job[p].next)
<1>1. CASE Undo(p)
  <2>1. pc'[p] \in {"unlock", "undo_store"} BY <1>1, Parts DEF Undo, Verdict, Go
  <2> DEFINE onward == IF job[p].next + 1 \in Backend THEN "stage" ELSE "keep"
  <2>2. onward \in {"stage", "keep"} OBVIOUS
  <2>3. job' = job \/ pc' = [pc EXCEPT ![p] = onward] BY DEF Stage, Go
  <2> HIDE DEF onward
  <2>4. job' = job BY <2>1, <2>2, <2>3, Parts
  <2> QED BY <2>4
<1>2. CASE ~Undo(p)
  <2>1. ~StageRefuses(p, job[p].next) BY <1>2 DEF Stage
  <2> QED BY <1>2, <2>1, StagedJob
<1> QED BY <1>1, <1>2

LEMMA MarkFrame ==
  ASSUME NEW p \in Proc, MarkInv(p), pc'[p] = pc[p], job'[p] = job[p], art' = art
  PROVE  MarkInv(p)'
BY DEF MarkInv, Unmarked, Marked

\* What stays of a holder's files as the commit moves from one to the next.
LEMMA MarkMoves ==
  ASSUME TypeInv, NEW p \in Proc, MarkInv(p),
         job'[p].at = job[p].at, job'[p].staged = job[p].staged, job'[p].word = job[p].word,
         pc'[p] = "install" => \A a \in Art : a >= job'[p].next => art'[a] = job[p].at.art[a],
         pc'[p] = "record" =>
           /\ job'[p].next = job[p].next /\ art'[job[p].next] = job[p].staged[job[p].next]
           /\ \A a \in Art : a > job[p].next => art'[a] = job[p].at.art[a],
         pc'[p] \in Committing => \A a \in Art : Marked(art'[a]) => art'[a] = job[p].at.art[a]
  PROVE  MarkInv(p)'
BY DEF MarkInv, Unmarked, Marked

LEMMA MarkPlain ==
  ASSUME TypeInv, HolderInv, NEW p \in Proc, MarkInv(p), Plain(p)
  PROVE  MarkInv(p)' /\ pc'[p] # "wait" /\ (Unmarked(recd) => Unmarked(recd'))
<1> USE Parts
<1>1. pc'[p] \notin Committing \cup {"wait"} \/ (Keep(p) /\ pc'[p] = "install")
  BY DEF Plain, Gate, Snapshot, Copy, WriterFails, WriteStore, WriteConf, Post, Keep, RestoreRecords,
         UndoStore, UndoConf, Restart, ConfEdit, Undo, Verdict, Go, Committing
<1>2. job'[p].at = job[p].at /\ job'[p].staged = job[p].staged /\ job'[p].word = job[p].word
      /\ job'[p].next = job[p].next /\ art' = art /\ lock = p
  BY PlainKeeps
<1>3. Keep(p) => art = job[p].at.art BY <1>2 DEF Keep, HolderInv, ArtsInv, Untouched
<1>4. RestoreRecords(p) => recd' = job[p].at.recd
  BY <1>2 DEF RestoreRecords, HolderInv, ArtsInv, Committing
<1>5. MarkInv(p)' BY <1>1, <1>2, <1>3, MarkMoves DEF Committing
<1>6. Unmarked(recd) => Unmarked(recd') BY <1>4, PlainKeeps DEF MarkInv
<1> QED BY <1>1, <1>5, <1>6

LEMMA MarkStage ==
  ASSUME TypeInv, HolderInv, NEW p \in Proc, MarkInv(p), lock = p, Stage(p)
  PROVE  MarkInv(p)' /\ pc'[p] # "wait" /\ recd' = recd
<1> USE Parts
<1>1. pc'[p] \notin Committing \cup {"wait"}
  BY DEF Stage, Undo, Verdict, Go, Committing
<1>2. job'[p].at = job[p].at BY StageJob
<1>3. UNCHANGED <<art, recd>> /\ art = job[p].at.art BY DEF Stage, disk, HolderInv, ArtsInv, Untouched
<1>4. ASSUME NEW a \in Art
      PROVE  /\ ~Marked(job'[p].staged[a])
             /\ job'[p].word[a] \in {"same", "current"} => job'[p].staged[a] = job[p].at.art[a]
  <2>1. CASE job'[p].staged[a] = job[p].staged[a] /\ job'[p].word[a] = job[p].word[a]
    BY <2>1 DEF MarkInv, Unmarked
  <2>2. CASE /\ job'[p].staged[a] = Render(a, store, job[p].view)
             /\ job'[p].word[a] = LiveStatus(a, job'[p].staged[a])
    <3>1. ~Marked(job'[p].staged[a]) BY <2>2, RenderUnmarked
    <3>2. job'[p].word[a] \in {"same", "current"} => art[a] = job'[p].staged[a] BY <2>2, WordMeans
    <3> QED BY <3>1, <3>2, <1>3
  <2> QED BY <2>1, <2>2, StageSets
<1> QED BY <1>1, <1>2, <1>3, <1>4 DEF MarkInv, Unmarked, Marked, Committing

LEMMA MarkCommit ==
  ASSUME TypeInv, HolderInv, NEW p \in Proc, MarkInv(p), lock = p, Install(p) \/ Record(p) \/ Restore(p)
  PROVE  MarkInv(p)' /\ pc'[p] # "wait" /\ (Unmarked(recd) => Unmarked(recd'))
<1> USE Parts
<1> DEFINE n == job[p].next
<1>0. n \in Art /\ n \in Nat /\ job[p].changed \in SUBSET Backend /\ BackendOf(n) \in Backend
      /\ \A a \in Art : a \in Nat
  BY ArtFacts DEF JobType
<1>1. ~Marked(job[p].staged[n]) BY <1>0 DEF MarkInv, Unmarked
<1>2. CASE CommitFails(p) /\ UNCHANGED <<art, recd>> /\ pc[p] \in {"install", "record"}
  <2>1. pc'[p] = "restore" BY <1>2 DEF CommitFails, Go
  <2>2. job'[p].at = job[p].at /\ job'[p].staged = job[p].staged /\ job'[p].word = job[p].word
    BY <1>2 DEF CommitFails, JobType
  <2> QED BY <1>2, <2>1, <2>2, MarkMoves DEF MarkInv, Committing
<1>3. ASSUME NEW c \in SUBSET Backend, NextFile(p, c), art' = art, pc[p] \in {"install", "record"}
      PROVE  MarkInv(p)' /\ pc'[p] # "wait"
  <2>1. pc'[p] \in {"install", "restart"} /\ (pc'[p] = "install" => job'[p].next = n + 1)
    BY <1>3, NextFileJob
  <2>2. job'[p].at = job[p].at /\ job'[p].staged = job[p].staged /\ job'[p].word = job[p].word
    BY <1>3, NextFileJob
  <2>3. \A a \in Art : a >= n + 1 => a > n /\ a >= n BY <1>0
  <2> QED BY <1>3, <2>1, <2>2, <2>3, MarkMoves DEF MarkInv, Committing
<1>4. CASE Install(p)
  <2>1. recd' = recd /\ pc[p] = "install" BY <1>4 DEF Install
  <2>2. \A a \in Art : a >= n => art[a] = job[p].at.art[a] BY <2>1 DEF MarkInv
  <2>3. \A a \in Art : a > n => a >= n /\ a # n BY <1>0
  <2>4. CASE job[p].word[n] = "current" /\ NextFile(p, job[p].changed) /\ art' = art
    BY <1>0, <1>3, <2>1, <2>4
  <2>5. CASE job[p].word[n] = "same" /\ Go(p, "record") /\ UNCHANGED <<art, job>>
    <3>1. art[n] = job[p].staged[n] BY <1>0, <2>2, <2>5 DEF MarkInv
    <3>2. pc'[p] = "record" BY <2>5 DEF Go
    <3> QED BY <2>1, <2>2, <2>3, <2>5, <3>1, <3>2, MarkMoves DEF MarkInv, Committing
  <2>6. CASE art' = [art EXCEPT ![n] = job[p].staged[n]] /\ Go(p, "record") /\ UNCHANGED job
    <3>1. art'[n] = job[p].staged[n] /\ \A a \in Art : a # n => art'[a] = art[a] BY <1>0, <2>6 DEF Arts
    <3>2. pc'[p] = "record" BY <2>6 DEF Go
    <3>3. \A a \in Art : Marked(art'[a]) => art'[a] = job[p].at.art[a]
      BY <1>1, <2>1, <3>1 DEF MarkInv, Committing
    <3> QED BY <2>1, <2>2, <2>3, <2>6, <3>1, <3>2, <3>3, MarkMoves
  <2> QED BY <1>2, <1>4, <2>1, <2>4, <2>5, <2>6 DEF Install
<1>5. CASE Record(p)
  <2>1. art' = art /\ pc[p] = "record" BY <1>5 DEF Record
  <2>2. CASE CommitFails(p) /\ recd' = recd BY <1>2, <2>1, <2>2
  <2>3. CASE recd' = [recd EXCEPT ![n] = art[n]] /\ \E c \in SUBSET Backend : NextFile(p, c)
    <3>1. MarkInv(p)' /\ pc'[p] # "wait" BY <1>3, <2>1, <2>3
    <3>2. art[n] = job[p].staged[n] BY <2>1 DEF MarkInv
    <3>3. recd'[n] = art[n] /\ \A a \in Art : a # n => recd'[a] = recd[a] BY <1>0, <2>3 DEF Arts
    <3> QED BY <1>1, <3>1, <3>2, <3>3 DEF Unmarked
  <2> QED BY <1>0, <1>5, <2>2, <2>3 DEF Record
<1>6. CASE Restore(p)
  <2>1. recd' = recd /\ pc[p] = "restore" /\ pc'[p] \in {"restore", "restore_rec"} BY <1>6 DEF Restore, Go
  <2>2. job[p].keptArt = job[p].at.art BY <2>1 DEF HolderInv, ArtsInv, Committing
  <2>3. job'[p].at = job[p].at /\ job'[p].staged = job[p].staged /\ job'[p].word = job[p].word
    BY <1>6 DEF Restore, JobType
  <2>4. \A a \in Art : Marked(art'[a]) => art'[a] = job[p].at.art[a]
    <3>1. art'[n] = job[p].at.art[n] /\ \A a \in Art : a # n => art'[a] = art[a]
      BY <1>0, <1>6, <2>2 DEF Restore, Arts
    <3> QED BY <2>1, <3>1 DEF MarkInv, Committing
  <2> QED BY <2>1, <2>3, <2>4, MarkMoves
<1> QED BY <1>4, <1>5, <1>6

LEMMA NewJob ==
  ASSUME TypeInv, NEW p \in Proc, Start(p)
  PROVE  /\ job'[p].next = 1 /\ \A a \in Art : job'[p].word[a] = "none" /\ job'[p].staged[a] = {}
         /\ p \notin Restorers \cup Forced => job'[p].force = {}
<1> USE Parts
<1> DEFINE f == IF p \in Restorers \cup Forced THEN Backend ELSE {}
<1>1. PICK pick : job' = [job EXCEPT ![p] = [NoJob EXCEPT !.view = conf, !.pick = pick, !.force = f]]
  BY DEF Start
<1>2. p \notin Restorers \cup Forced => f = {} OBVIOUS
<1> HIDE DEF f
<1>3. job'[p] = [NoJob EXCEPT !.view = conf, !.pick = pick, !.force = f] BY <1>1
<1>4. NoJob.next = 1 /\ NoJob.word = [a \in Art |-> "none"] /\ NoJob.staged = [a \in Art |-> {}] BY DEF NoJob
<1>5. /\ [NoJob EXCEPT !.view = conf, !.pick = pick, !.force = f].next = NoJob.next
      /\ [NoJob EXCEPT !.view = conf, !.pick = pick, !.force = f].word = NoJob.word
      /\ [NoJob EXCEPT !.view = conf, !.pick = pick, !.force = f].staged = NoJob.staged
      /\ [NoJob EXCEPT !.view = conf, !.pick = pick, !.force = f].force = f
  BY NoJobType DEF JobType
<1> QED BY <1>2, <1>3, <1>4, <1>5

LEMMA MarkSteps ==
  ASSUME TypeInv, HolderInv, MarksInv, NEW q \in Proc, Step(q)
  PROVE  /\ lock' = q => MarkInv(q)'
         /\ pc'[q] = "wait" => NotStaged(q)'
         /\ Unmarked(recd')
<1> USE Parts
<1>1. CASE Start(q)
  <2>1. lock' # q /\ recd' = recd BY <1>1 DEF Start, TypeInv, TypeOK, disk, Ended
  <2>2. NotStaged(q)' BY <1>1, NewJob DEF NotStaged, Marked
  <2> QED BY <2>1, <2>2 DEF MarksInv
<1>2. CASE Acquire(q)
  <2>1. job'[q] = [job[q] EXCEPT !.at = Found(q)] BY <1>2 DEF Acquire
  <2>2. job'[q].at = Found(q) /\ job'[q].word = job[q].word /\ job'[q].staged = job[q].staged
    BY <2>1 DEF JobType
  <2>3. pc'[q] \in {"gate", "snapshot", "stage", "edit"} /\ recd' = recd BY <1>2 DEF Acquire, Go, First, disk
  <2>4. NotStaged(q) /\ Unmarked(recd) BY <1>2 DEF Acquire, MarksInv
  <2>5. Found(q).recd = recd BY DEF Found
  <2> QED BY <2>2, <2>3, <2>4, <2>5 DEF MarkInv, NotStaged, Unmarked, Marked, Committing
<1>3. CASE CancelWait(q) \/ Unlock(q) \/ Crash(q)
  BY <1>3, StoreApplyAssumption DEF CancelWait, Unlock, Crash, TypeInv, TypeOK, Go, disk, MarksInv, Ended
<1>4. CASE Plain(q)
  <2>1. lock = q BY <1>4, PlainKeeps
  <2> QED BY <1>4, <2>1, MarkPlain DEF MarksInv
<1>5. CASE Stage(q) \/ Install(q) \/ Record(q) \/ Restore(q)
  <2>1. lock = q BY <1>5 DEF Stage, Install, Record, Restore, TypeInv, TypeOK, Ended
  <2> QED BY <1>5, <2>1, MarkStage, MarkCommit DEF MarksInv
<1> QED BY <1>1, <1>2, <1>3, <1>4, <1>5, WorkCases

\* An editor has the generated files only while no command runs.
LEMMA EditWhen ==
  ASSUME TypeInv, ArtEditAt \subseteq {"start"}, EditFile \/ EditArt \/ UNCHANGED vars
  PROVE  /\ UNCHANGED <<recd, daemon, lock, pc, job, out>>
         /\ art' = art \/ lock = NoOne
<1>1. UNCHANGED <<recd, daemon, lock, pc, job, out>> BY DEF EditFile, EditArt, vars
<1>2. art' = art \/ lock = NoOne
  BY DEF EditFile, EditArt, Now, vars, TypeInv, TypeOK, Ended
<1> QED BY <1>1, <1>2

LEMMA NextMarks ==
  ASSUME ArtEditAt \subseteq {"start"}, TypeInv, HolderInv, MarksInv, [Next]_vars
  PROVE  MarksInv'
<1>1. CASE EditFile \/ EditArt \/ UNCHANGED vars
  <2>1. UNCHANGED <<recd, lock, pc, job>> /\ (art' = art \/ lock = NoOne) BY <1>1, EditWhen
  <2>2. ASSUME NEW p \in Proc, lock' = p PROVE MarkInv(p)'
    <3>1. art' = art BY <2>1, <2>2, StoreApplyAssumption
    <3> QED BY <2>1, <2>2, <3>1, MarkFrame DEF MarksInv
  <2> QED BY <2>1, <2>2 DEF MarksInv, NotStaged
<1>2. CASE \E q \in Proc : Step(q)
  <2> PICK q \in Proc : Step(q) BY <1>2
  <2>1. ASSUME NEW p \in Proc, lock' = p PROVE MarkInv(p)'
    <3>1. CASE p = q BY <2>1, <3>1, MarkSteps
    <3>2. CASE p # q
      <4>1. lock = p /\ pc[p] \in Section BY <2>1, <3>2, LockOf
      <4>2. pc'[p] = pc[p] /\ job'[p] = job[p] /\ UNCHANGED disk BY <3>2, <4>1, OneSteps
      <4> QED BY <4>1, <4>2, MarkFrame DEF MarksInv, disk
    <3> QED BY <3>1, <3>2
  <2>2. ASSUME NEW p \in Proc, pc'[p] = "wait" PROVE NotStaged(p)'
    <3>1. CASE p = q BY <2>2, <3>1, MarkSteps
    <3>2. CASE p # q BY <2>2, <3>2, OneSteps DEF MarksInv, NotStaged
    <3> QED BY <3>1, <3>2
  <2> QED BY <2>1, <2>2, MarkSteps DEF MarksInv
<1> QED BY <1>1, <1>2 DEF Next

LEMMA InitMarks == Init => MarksInv
<1> SUFFICES ASSUME Init PROVE MarksInv OBVIOUS
<1>1. Unmarked(recd) BY DEF Init, Unmarked, Marked
<1> QED BY <1>1, StoreApplyAssumption DEF Init, MarksInv

\* The daemons.
LEMMA RestartFrame ==
  ASSUME NEW p \in Proc, RestartInv(p), pc'[p] = pc[p], job'[p] = job[p], art' = art, daemon' = daemon
  PROVE  RestartInv(p)'
BY DEF RestartInv, Running, Marked

\* A step that replaces no file and restarts no daemon.
LEMMA RestartKept ==
  ASSUME TypeInv, NEW p \in Proc, RestartInv(p), pc[p] # "unlock", UNCHANGED <<art, daemon>>,
         job'[p].at = job[p].at, pc'[p] # "restart",
         pc'[p] \in {"install", "record", "unlock"} => art = job[p].at.art
  PROVE  RestartInv(p)'
BY DEF RestartInv, Running, Marked

LEMMA RestartPlain ==
  ASSUME TypeInv, HolderInv, NEW p \in Proc, RestartInv(p), Plain(p), "restart" \notin Faults
  PROVE  RestartInv(p)'
<1> USE Parts
<1>1. job'[p].at = job[p].at /\ art' = art /\ lock = p BY PlainKeeps
<1>2. CASE Restart(p)
  <2> DEFINE due == IF p \in Restorers THEN Backend ELSE job[p].changed
  <2>1. pc[p] = "restart" /\ pc'[p] = "unlock" BY <1>2 DEF Restart, Verdict, Go
  <2>2. daemon' = [a \in Art |-> IF BackendOf(a) \in due THEN art[a] ELSE daemon[a]]
    <3>1. PICK up \in SUBSET due :
            /\ "restart" \in Faults \/ up = due
            /\ daemon' = [a \in Art |-> IF BackendOf(a) \in up THEN art[a] ELSE daemon[a]]
      BY <1>2 DEF Restart
    <3> QED BY <3>1
  <2>3. job[p].changed \subseteq due BY DEF JobType
  <2> HIDE DEF due
  <2>4. ASSUME NEW a \in Art, ~Marked(art[a]) PROVE daemon'[a] = art[a]
    <3>1. CASE BackendOf(a) \in due BY <2>2, <3>1
    <3>2. CASE BackendOf(a) \notin due
      <4>1. art[a] = job[p].at.art[a] BY <2>1, <2>3, <3>2 DEF RestartInv
      <4>2. daemon[a] = job[p].at.art[a] BY <2>1, <2>4, <4>1 DEF RestartInv, Running
      <4> QED BY <2>2, <3>2, <4>1, <4>2
    <3> QED BY <3>1, <3>2
  <2>5. Running(art)' BY <1>1, <2>4 DEF Running, Marked
  <2> QED BY <2>1, <2>5 DEF RestartInv
<1>3. CASE ~Restart(p)
  <2>1. daemon' = daemon BY <1>3, PlainKeeps
  <2>2. /\ pc[p] \in Untouched \cup {"restore_rec"}
        /\ pc'[p] # "restart"
    BY <1>3 DEF Plain, Gate, Snapshot, Copy, WriterFails, WriteStore, WriteConf, Post, Keep,
         RestoreRecords, UndoStore, UndoConf, ConfEdit, Undo, Verdict, Go, Untouched
  <2>3. art = job[p].at.art BY <1>1, <2>2 DEF HolderInv, ArtsInv
  <2>4. pc[p] # "unlock" BY <2>2 DEF Untouched
  <2> QED BY <1>1, <2>1, <2>2, <2>3, <2>4, RestartKept
<1> QED BY <1>2, <1>3

LEMMA RestartCommit ==
  ASSUME TypeInv, HolderInv, NEW p \in Proc, MarkInv(p), RestartInv(p), lock = p,
         Stage(p) \/ Install(p) \/ Record(p) \/ Restore(p)
  PROVE  RestartInv(p)'
<1> USE Parts
<1> DEFINE n == job[p].next
<1>0. n \in Art /\ n \in Nat /\ job[p].changed \in SUBSET Backend /\ BackendOf(n) \in Backend
      /\ \A a \in Art : a \in Nat
  BY ArtFacts DEF JobType
<1>1. CASE Stage(p)
  <2>1. job'[p].at = job[p].at BY <1>1, StageJob
  <2>2. UNCHANGED <<art, daemon>> /\ pc[p] = "stage" BY <1>1 DEF Stage, disk
  <2>3. pc'[p] # "restart" BY <1>1 DEF Stage, Undo, Verdict, Go
  <2>4. art = job[p].at.art BY <2>2 DEF HolderInv, ArtsInv, Untouched
  <2> QED BY <2>1, <2>2, <2>3, <2>4, RestartKept
<1>2. CASE CommitFails(p) /\ UNCHANGED <<art, daemon>> /\ pc[p] \in {"install", "record"}
  <2>1. pc'[p] = "restore" /\ job'[p].at = job[p].at BY <1>2 DEF CommitFails, Go, JobType
  <2> QED BY <1>2, <2>1, RestartKept
\* The file at next is done: it is as found, or its backend is to be restarted.
<1>3. ASSUME NEW c \in SUBSET Backend, NextFile(p, c), UNCHANGED <<art, daemon>>,
             pc[p] \in {"install", "record"}, job[p].changed \subseteq c,
             art[n] = job[p].at.art[n] \/ BackendOf(n) \in c
      PROVE  RestartInv(p)'
  <2>1. /\ job'[p].next = IF n = NArt THEN 1 ELSE n + 1
        /\ pc'[p] = IF n = NArt THEN "restart" ELSE "install"
        /\ job'[p].changed = c /\ job'[p].at = job[p].at
    BY <1>3, NextFileJob
  <2>2. \A a \in Art : a <= n => (art[a] # job[p].at.art[a] => BackendOf(a) \in c)
    <3> SUFFICES ASSUME NEW a \in Art, a <= n PROVE art[a] # job[p].at.art[a] => BackendOf(a) \in c
      OBVIOUS
    <3>1. CASE a = n BY <1>3, <3>1
    <3>2. CASE a < n BY <1>3, <3>2 DEF RestartInv
    <3> QED BY <1>0, <3>1, <3>2
  <2>3. Running(job[p].at.art)' BY <1>3, <2>1 DEF RestartInv, Running
  <2>4. CASE n = NArt
    <3>1. \A a \in Art : a <= n BY <2>4 DEF Art
    <3> QED BY <1>3, <2>1, <2>2, <2>3, <2>4, <3>1 DEF RestartInv
  <2>5. CASE n # NArt
    <3>1. \A a \in Art : a < n + 1 => a <= n BY <1>0
    <3> QED BY <1>3, <2>1, <2>2, <2>3, <2>5, <3>1 DEF RestartInv
  <2> QED BY <2>4, <2>5
<1>4. CASE Install(p)
  <2>1. pc[p] = "install" /\ daemon' = daemon BY <1>4 DEF Install
  <2>2. CASE job[p].word[n] = "current" /\ NextFile(p, job[p].changed) /\ art' = art
    <3>1. art[n] = job[p].at.art[n] BY <1>0, <2>1 DEF MarkInv
    <3> QED BY <1>0, <1>3, <2>1, <2>2, <3>1
  <2>3. CASE Go(p, "record") /\ UNCHANGED job /\ \A a \in Art : a < n => art'[a] = art[a]
    <3>1. pc'[p] = "record" BY <2>3 DEF Go
    <3>2. Running(job[p].at.art)' BY <2>1, <2>3 DEF RestartInv, Running
    <3> QED BY <2>1, <2>3, <3>1, <3>2 DEF RestartInv
  <2>4. CASE art' = [art EXCEPT ![n] = job[p].staged[n]] /\ Go(p, "record") /\ UNCHANGED job
    <3>1. \A a \in Art : a < n => art'[a] = art[a] BY <1>0, <2>4 DEF Arts
    <3> QED BY <2>3, <2>4, <3>1
  <2> QED BY <1>2, <1>4, <2>1, <2>2, <2>3, <2>4 DEF Install
<1>5. CASE Record(p)
  <2> DEFINE c == job[p].changed \cup (IF job[p].word[n] = "same" THEN {} ELSE {BackendOf(n)})
  <2>1. pc[p] = "record" /\ UNCHANGED <<art, daemon>> BY <1>5 DEF Record
  <2>2. CASE NextFile(p, c)
    <3>1. c \in SUBSET Backend /\ job[p].changed \subseteq c BY <1>0
    <3>2. art[n] = job[p].at.art[n] \/ BackendOf(n) \in c BY <1>0, <2>1 DEF MarkInv
    <3> HIDE DEF c
    <3> QED BY <1>3, <2>1, <2>2, <3>1, <3>2
  <2> QED BY <1>2, <1>5, <2>1, <2>2 DEF Record
<1>6. CASE Restore(p)
  <2>1. pc[p] = "restore" /\ pc'[p] \in {"restore", "restore_rec"} /\ daemon' = daemon BY <1>6 DEF Restore, Go
  <2>2. job'[p].at = job[p].at BY <1>6 DEF Restore, JobType
  <2>3. Running(job[p].at.art)' BY <2>1, <2>2 DEF RestartInv, Running
  <2> QED BY <2>1, <2>3 DEF RestartInv
<1> QED BY <1>1, <1>4, <1>5, <1>6

\* A step of nobody but the command itself takes or gives the lock.
LEMMA NextDaemons ==
  ASSUME ArtEditAt \subseteq {"start"}, "restart" \notin Faults, "crash" \notin Faults,
         TypeInv, HolderInv, MarksInv, DaemonsInv, [Next]_vars
  PROVE  DaemonsInv'
<1> USE Parts
<1>1. CASE EditFile \/ EditArt \/ UNCHANGED vars
  <2>1. UNCHANGED <<daemon, lock, pc, job>> /\ (art' = art \/ lock = NoOne) BY <1>1, EditWhen
  <2>2. ASSUME NEW p \in Proc, lock' = p PROVE RestartInv(p)'
    <3>1. art' = art BY <2>1, <2>2, StoreApplyAssumption
    <3> QED BY <2>1, <2>2, <3>1, RestartFrame DEF DaemonsInv
  <2>3. ASSUME lock' = NoOne PROVE Running(art)'
    <3>1. Running(art) BY <2>1, <2>3 DEF DaemonsInv
    <3>2. CASE EditArt
      <4>1. PICK h \in Hand, a \in Art : art[a] # NoFile /\ art' = [art EXCEPT ![a] = art[a] \cup {<<"art", h>>}]
        BY <3>2 DEF EditArt, Unused
      <4> DEFINE x == art[a] \cup {<<"art", h>>}
      <4>2. x \in SUBSET ({"store", "conf", "art"} \X Token) BY <4>1 DEF Arts, ArtContent, Token
      <4>3. x # NoFile BY <4>2, NoFileAssumption
      <4>4. Marked(x)
        <5> DEFINE e == <<"art", h>>
        <5>1. e \in x /\ e[1] = "art" OBVIOUS
        <5> HIDE DEF e, x
        <5> QED BY <4>3, <5>1 DEF Marked
      <4> HIDE DEF x
      <4>5. art'[a] = x /\ \A b \in Art : b # a => art'[b] = art[b] BY <4>1 DEF x, Arts
      <4> QED BY <2>1, <3>1, <4>4, <4>5 DEF Running, Marked
    <3>3. CASE art' = art BY <2>1, <3>1, <3>3 DEF Running, Marked
    <3> QED BY <1>1, <3>2, <3>3 DEF EditFile, vars
  <2> QED BY <2>2, <2>3 DEF DaemonsInv
<1>2. CASE \E q \in Proc : Step(q)
  <2> PICK q \in Proc : Step(q) BY <1>2
  <2>0. ~Crash(q) BY DEF Crash
  <2>1. CASE Start(q) \/ CancelWait(q)
    <3>1. UNCHANGED <<lock, art, daemon>> /\ lock # q
      BY <2>1 DEF Start, CancelWait, disk, TypeInv, TypeOK, Ended
    <3>2. \A p \in Proc : p # q => pc'[p] = pc[p] /\ job'[p] = job[p] BY OneSteps
    <3> QED BY <3>1, <3>2, RestartFrame DEF DaemonsInv, Running, Marked
  <2>2. CASE Acquire(q)
    <3>1. lock = NoOne /\ lock' = q /\ UNCHANGED <<art, daemon>> BY <2>2 DEF Acquire, disk
    <3>2. job'[q].at.art = art
      <4>1. job'[q] = [job[q] EXCEPT !.at = Found(q)] BY <2>2 DEF Acquire
      <4> QED BY <4>1 DEF JobType, Found
    <3>3. pc'[q] \in {"gate", "snapshot", "stage", "edit"} BY <2>2 DEF Acquire, Go, First
    <3>4. RestartInv(q)' BY <3>1, <3>2, <3>3 DEF DaemonsInv, RestartInv, Running, Marked
    <3> QED BY <3>1, <3>4, StoreApplyAssumption DEF DaemonsInv
  <2>3. CASE Unlock(q)
    <3>1. lock' = NoOne /\ UNCHANGED <<art, daemon>> /\ pc[q] = "unlock" BY <2>3 DEF Unlock, disk
    <3>2. lock = q BY <3>1 DEF TypeInv, TypeOK, Ended
    <3>3. Running(art) BY <3>1, <3>2 DEF DaemonsInv, RestartInv
    <3> QED BY <3>1, <3>3, StoreApplyAssumption DEF DaemonsInv, Running, Marked
  <2>4. CASE Plain(q) \/ Stage(q) \/ Install(q) \/ Record(q) \/ Restore(q)
    <3>1. lock = q /\ lock' = lock
      <4>1. CASE Plain(q) BY <4>1, PlainKeeps
      <4>2. CASE ~Plain(q) BY <2>4, <4>2 DEF Stage, Install, Record, Restore, TypeInv, TypeOK, Ended, disk
      <4> QED BY <4>1, <4>2
    <3>2. RestartInv(q) /\ MarkInv(q) BY <3>1 DEF DaemonsInv, MarksInv
    <3>3. RestartInv(q)' BY <2>4, <3>1, <3>2, RestartPlain, RestartCommit
    <3> QED BY <3>1, <3>3, StoreApplyAssumption DEF DaemonsInv
  <2> QED BY <2>0, <2>1, <2>2, <2>3, <2>4, WorkCases
<1> QED BY <1>1, <1>2 DEF Next

\* No restart is forgotten, for any number of commands and files and whichever
\* of their steps fail: between two commands every daemon runs the file that is
\* installed and recorded.  A file whose content the commit did not change is the
\* one its daemon started with, and RestartChanged restarts the others.  Commands
\* are not killed, restarts succeed, and the generated files are edited between
\* commands only.
THEOREM DaemonsRunFiles ==
  ASSUME ArtEditAt \subseteq {"start"}, "restart" \notin Faults, "crash" \notin Faults
  PROVE  Spec => []DaemonIsCurrent
<1>1. Init => HolderInv BY StoreApplyAssumption DEF Init, HolderInv
<1>2. Init => DaemonsInv BY StoreApplyAssumption DEF Init, DaemonsInv, Running
<1>3. TypeInv /\ HolderInv /\ [Next]_vars => HolderInv' BY NextHolderInv
<1>4. TypeInv /\ HolderInv /\ MarksInv /\ [Next]_vars => MarksInv' BY NextMarks
<1>5. TypeInv /\ HolderInv /\ MarksInv /\ DaemonsInv /\ [Next]_vars => DaemonsInv' BY NextDaemons
<1>6. MarksInv /\ DaemonsInv => DaemonIsCurrent
  BY DEF MarksInv, DaemonsInv, DaemonIsCurrent, Status, Unmarked, Running
<1> QED BY <1>1, <1>2, <1>3, <1>4, <1>5, <1>6, InitMarks, InitTypeInv, NextTypeInv, PTL DEF Spec

----------------------------------------------------------------------------
(* Only force discards a hand edit.                                         *)

\* What is staged is a file.
StagedThere == \A p \in Proc : \A a \in Art : job[p].staged[a] # NoFile

LEMMA NextStagedThere == ASSUME TypeInv, StagedThere, [Next]_vars PROVE StagedThere'
<1> USE Parts
<1>0. \A x \in SUBSET ({"store", "conf", "art"} \X Token) : x # NoFile BY NoFileAssumption
<1>1. {} # NoFile BY <1>0
<1>2. \A a \in Art : NoJob.staged[a] = {} BY DEF NoJob
<1>3. CASE EditFile \/ EditArt \/ UNCHANGED vars
  BY <1>3 DEF EditFile, EditArt, vars, StagedThere
<1>4. CASE \E q \in Proc : Step(q)
  <2> PICK q \in Proc : Step(q) BY <1>4
  <2>1. ASSUME NEW a \in Art PROVE job'[q].staged[a] # NoFile
    <3>0. job[q].staged[a] # NoFile BY DEF StagedThere
    <3>1. CASE Start(q) BY <3>1, <1>1, NewJob
    <3>2. CASE Acquire(q)
      <4>1. job'[q] = [job[q] EXCEPT !.at = Found(q)] BY <3>2 DEF Acquire
      <4> QED BY <3>0, <4>1 DEF JobType
    <3>3. CASE CancelWait(q) BY <3>0, <3>3 DEF CancelWait
    <3>4. CASE Unlock(q) \/ Crash(q) BY <3>4, <1>1, <1>2 DEF Unlock, Crash
    <3>5. CASE Plain(q) BY <3>0, <3>5, PlainKeeps
    <3>6. CASE Stage(q)
      <4>1. Render(a, store, job[q].view) # NoFile
        <5>1. Render(a, store, job[q].view) \in SUBSET ({"store", "conf", "art"} \X Token)
          BY DEF Render, Content, JobType
        <5> QED BY <1>0, <5>1
      <4> QED BY <3>0, <3>6, <4>1, StageSets
    <3>7. CASE Install(q) \/ Record(q) \/ Restore(q)
      <4>1. job'[q].staged = job[q].staged
        BY <3>7 DEF Install, Record, Restore, NextFile, CommitFails, JobType
      <4> QED BY <3>0, <4>1
    <3> QED BY <3>1, <3>2, <3>3, <3>4, <3>5, <3>6, <3>7, WorkCases
  <2> QED BY <2>1, OneSteps DEF StagedThere
<1> QED BY <1>3, <1>4 DEF Next

\* An edited file is there, and was when the holder got the lock.
LEMMA NextEdited ==
  ASSUME ArtEditAt \subseteq {"start"}, TypeInv, HolderInv, StagedThere, EditedInv, [Next]_vars
  PROVE  EditedInv'
<1> USE Parts
<1>1. CASE EditArt
  <2>1. PICK h \in Hand, a \in Art :
          /\ art[a] # NoFile /\ art' = [art EXCEPT ![a] = art[a] \cup {<<"art", h>>}]
          /\ edited' = edited \cup {[file |-> "art", n |-> a, edit |-> h]}
    BY <1>1 DEF EditArt, Unused, Edit
  <2>2. lock = NoOne /\ lock' = lock BY <1>1, EditWhen DEF EditArt, Now, TypeInv, TypeOK, Ended
  <2>3. art[a] \cup {<<"art", h>>} \in SUBSET ({"store", "conf", "art"} \X Token)
    BY <2>1 DEF Arts, ArtContent, Token
  <2>4. \A b \in Art : art[b] # NoFile => art'[b] # NoFile BY <2>1, <2>3, NoFileAssumption DEF Arts
  <2>5. \A e \in edited' : e \in edited \/ e.n = a BY <2>1
  <2> QED BY <2>1, <2>2, <2>4, <2>5, StoreApplyAssumption DEF EditedInv
<1>2. CASE EditFile \/ UNCHANGED vars
  <2>1. UNCHANGED <<art, lock, job>> BY <1>2 DEF EditFile, vars
  <2>2. \A e \in edited' : e.file = "art" => e \in edited BY <1>2 DEF EditFile, Edit, vars
  <2> QED BY <2>1, <2>2 DEF EditedInv
<1>3. CASE \E q \in Proc : Step(q)
  <2> PICK q \in Proc : Step(q) BY <1>3
  <2>1. edited' = edited
    BY DEF Step, Start, Acquire, CancelWait, Gate, Snapshot, Copy, WriterFails, WriteStore, WriteConf,
           Post, Stage, Keep, Install, Record, Restore, RestoreRecords, UndoStore, UndoConf, Restart,
           ConfEdit, Unlock, Crash
  <2> SUFFICES ASSUME NEW e \in edited, e.file = "art"
      PROVE  art'[e.n] # NoFile /\ \A p \in Proc : lock' = p => job'[p].at.art[e.n] # NoFile
    BY <2>1 DEF EditedInv
  <2> DEFINE a == e.n
  <2>2. a \in Art /\ art[a] # NoFile /\ \A p \in Proc : lock = p => job[p].at.art[a] # NoFile
    BY DEF EditedInv
  <2>3. ASSUME NEW p \in Proc, p # q, lock' = p PROVE job'[p].at.art[a] # NoFile
    BY <2>2, <2>3, LockOf, OneSteps
  <2>4. CASE Start(q) \/ CancelWait(q) \/ Unlock(q) \/ Crash(q)
    <3>1. art' = art /\ lock' # q
      BY <2>4, StoreApplyAssumption DEF Start, CancelWait, Unlock, Crash, disk, TypeInv, TypeOK, Ended
    <3> QED BY <2>2, <2>3, <3>1
  <2>5. CASE Acquire(q)
    <3>1. job'[q] = [job[q] EXCEPT !.at = Found(q)] /\ art' = art BY <2>5 DEF Acquire, disk
    <3>2. job'[q].at.art = art BY <3>1 DEF JobType, Found
    <3> QED BY <2>2, <2>3, <3>1, <3>2
  <2>6. CASE Plain(q) \/ Stage(q) \/ Install(q) \/ Record(q) \/ Restore(q)
    <3>1. lock = q
      <4>1. CASE Plain(q) BY <4>1, PlainKeeps
      <4>2. CASE ~Plain(q) BY <2>6, <4>2 DEF Stage, Install, Record, Restore, TypeInv, TypeOK, Ended
      <4> QED BY <4>1, <4>2
    <3>2. job'[q].at = job[q].at
      <4>1. CASE Install(q) \/ Record(q) \/ Restore(q)
        BY <4>1 DEF Install, Record, Restore, NextFile, CommitFails, JobType
      <4> QED BY <2>6, <4>1, PlainKeeps, StageJob
    <3>3. art'[a] # NoFile
      <4>1. CASE Plain(q) \/ Stage(q) \/ Record(q) BY <2>2, <4>1, PlainKeeps DEF Stage, Record, disk
      <4>2. CASE Install(q)
        <5>1. job[q].next \in Art /\ job[q].staged[job[q].next] # NoFile BY DEF StagedThere, JobType
        <5> QED BY <2>2, <4>2, <5>1 DEF Install, Arts
      <4>3. CASE Restore(q)
        <5>1. job[q].keptArt = job[q].at.art BY <3>1, <4>3 DEF Restore, HolderInv, ArtsInv, Committing
        <5>2. job[q].at.art[a] # NoFile BY <2>2, <3>1
        <5> QED BY <2>2, <4>3, <5>1, <5>2 DEF Restore, Arts
      <4> QED BY <2>6, <4>1, <4>2, <4>3
    <3> QED BY <2>2, <2>3, <3>1, <3>2, <3>3
  <2> QED BY <2>4, <2>5, <2>6, WorkCases
<1> QED BY <1>1, <1>2, <1>3 DEF Next

LEMMA ForceFrame ==
  ASSUME NEW p \in Proc, ForceInv(p), pc'[p] = pc[p], job'[p] = job[p], lock' = p => lock = p
  PROVE  ForceInv(p)'
BY DEF ForceInv, Marked

\* A file the gate lets through without a record has no edit in it.
LEMMA GateForces ==
  ASSUME TypeInv, HolderInv, NEW p \in Proc, ForceInv(p), Gate(p), lock = p
  PROVE  ForceInv(p)'
<1> USE Parts
<1>1. /\ job'[p].at = job[p].at /\ job'[p].word = job[p].word /\ job'[p].next = job[p].next
      /\ pc[p] = "gate" /\ lock' = lock
  BY PlainKeeps DEF Plain, Gate
<1>2. art = job[p].at.art BY <1>1 DEF HolderInv, ArtsInv, Untouched
<1>3. pc'[p] \in {"unlock", "snapshot"} BY DEF Gate, Verdict, Go
<1>4. ASSUME NEW a \in Art, BackendOf(a) \in job'[p].force PROVE ~Marked(job[p].at.art[a])
  <2>1. CASE job'[p] = job[p] BY <1>1, <1>4, <2>1 DEF ForceInv
  <2>2. CASE job'[p] # job[p]
    <3>0. /\ \A x \in Art : ~GateRefuses(x)
          /\ job' = [job EXCEPT ![p].force = {BackendOf(x) : x \in {y \in Art : Status(y) = "unrecorded"}}]
      BY <2>2 DEF Gate
    <3>1. job'[p].force = {BackendOf(x) : x \in {y \in Art : Status(y) = "unrecorded"}}
      BY <3>0 DEF JobType
    <3>2. PICK x \in Art : Status(x) = "unrecorded" /\ BackendOf(x) = BackendOf(a) BY <1>4, <3>1
    <3>3. Adoptable(x) BY <3>0, <3>2 DEF GateRefuses
    <3>4. x = 1 /\ a = 1 BY <3>2, <3>3 DEF Adoptable, BackendOf
    <3>5. {e \in art[1] : e[1] # "conf"} = {"store"} \X store BY <3>3, <3>4 DEF Adoptable
    <3>6. ASSUME NEW e \in art[1], e[1] = "art" PROVE FALSE
      <4>1. e \in {"store"} \X store BY <3>5, <3>6
      <4> QED BY <3>6, <4>1
    <3> QED BY <1>2, <3>4, <3>6 DEF Marked
  <2> QED BY <2>1, <2>2
<1>5. \A a \in Art : job[p].word[a] \notin {"none", "same", "current"} => ~Marked(job[p].at.art[a])
  BY DEF ForceInv
<1>6. job[p].next = 1 BY <1>1 DEF ForceInv
<1> QED BY <1>1, <1>3, <1>4, <1>5, <1>6 DEF ForceInv

\* A file is staged over an edit only where the edit is what was rendered.
LEMMA StageForces ==
  ASSUME TypeInv, HolderInv, MarksInv, NEW p \in Proc, ForceInv(p), Stage(p), lock = p
  PROVE  ForceInv(p)'
<1> USE Parts
<1> DEFINE b == job[p].next
<1>1. pc[p] = "stage" /\ lock' = lock BY DEF Stage
<1>2. job'[p].at = job[p].at /\ job'[p].force = job[p].force BY StageJob
<1>3. art = job[p].at.art /\ Unmarked(recd) BY <1>1 DEF HolderInv, ArtsInv, Untouched, MarksInv
<1>4. \A a \in Art : BackendOf(a) \in job[p].force => ~Marked(job[p].at.art[a]) BY DEF ForceInv
<1>5. ASSUME NEW a \in Art, job'[p].word[a] \notin {"none", "same", "current"}
      PROVE  ~Marked(job[p].at.art[a])
  <2>1. CASE job'[p].word[a] = job[p].word[a] BY <1>5, <2>1 DEF ForceInv
  <2>2. CASE /\ BackendOf(a) = b /\ ~StageRefuses(p, b)
             /\ job'[p].staged[a] = Render(a, store, job[p].view)
             /\ job'[p].word[a] = LiveStatus(a, job'[p].staged[a])
    <3>1. CASE Displaces(job'[p].word[a])
      <4>1. a \in FilesOf(b) BY <2>2 DEF FilesOf
      <4>2. b \in job[p].force BY <2>2, <3>1, <4>1 DEF StageRefuses
      <4> QED BY <1>4, <2>2, <4>2
    <3>2. CASE ~Displaces(job'[p].word[a])
      <4>1. job'[p].word[a] = Status(a) /\ Status(a) \in {"missing", "ok"}
        BY <1>5, <2>2, <3>2 DEF LiveStatus, Status, Displaces
      <4>2. art[a] = NoFile \/ art[a] = recd[a] BY <4>1 DEF Status
      <4> QED BY <1>3, <4>2 DEF Unmarked, Marked
    <3> QED BY <3>1, <3>2
  <2> QED BY <2>1, <2>2, StageSets
<1>6. CASE Undo(p)
  <2>1. pc'[p] \in {"unlock", "undo_store"} BY <1>6 DEF Undo, Verdict, Go
  <2> QED BY <1>1, <1>2, <1>4, <1>5, <2>1 DEF ForceInv
<1>7. CASE ~Undo(p)
  <2>1. b \in Backend /\ b \in {1, 2} BY <1>1, BackendFacts DEF ForceInv
  <2>2. \A a \in Art : BackendOf(a) <= b => job'[p].word[a] # "none"
    <3> SUFFICES ASSUME NEW a \in Art, BackendOf(a) <= b PROVE job'[p].word[a] # "none" OBVIOUS
    <3>1. CASE BackendOf(a) = b
      <4>1. job'[p].word[a] = LiveStatus(a, Render(a, store, job[p].view)) BY <1>7, <3>1, StagedJob
      <4> QED BY <4>1 DEF LiveStatus, Status
    <3>2. CASE BackendOf(a) < b
      <4>1. job'[p].word[a] = job[p].word[a] BY <1>7, <2>1, <3>2, StagedJob, BackendFacts
      <4> QED BY <1>1, <3>2, <4>1 DEF ForceInv
    <3> QED BY <2>1, <3>1, <3>2, BackendFacts
  <2>3. CASE b + 1 \in Backend
    <3>1. job'[p].next = b + 1 /\ pc'[p] = "stage" BY <1>7, <2>3, StagedJob
    <3>2. \A a \in Art : BackendOf(a) < b + 1 => BackendOf(a) <= b BY <2>1, BackendFacts
    <3> QED BY <1>1, <1>2, <1>4, <1>5, <2>2, <2>3, <3>1, <3>2 DEF ForceInv
  <2>4. CASE b + 1 \notin Backend
    <3>1. job'[p].next = 1 /\ pc'[p] = "keep" BY <1>7, <2>4, StagedJob
    <3>2. \A a \in Art : BackendOf(a) <= b BY <2>1, <2>4, BackendFacts
    <3> QED BY <1>1, <1>2, <1>4, <1>5, <2>2, <3>1, <3>2 DEF ForceInv
  <2> QED BY <2>3, <2>4
<1> QED BY <1>6, <1>7

LEMMA ForceSteps ==
  ASSUME TypeInv, HolderInv, MarksInv, NEW p \in Unforced, ForceInv(p), Step(p)
  PROVE  ForceInv(p)'
<1> USE Parts
<1>0. p \in Proc /\ p \notin Restorers \cup Forced \cup ConfWriters
  BY StoreApplyAssumption, KindAssumption DEF Unforced, Proc
<1>1. CASE Start(p)
  <2>1. pc'[p] = "wait" /\ lock' # p BY <1>0, <1>1 DEF Start, Go, TypeInv, TypeOK, Ended
  <2> QED BY <1>0, <1>1, <2>1, NewJob DEF ForceInv
<1>2. CASE Acquire(p)
  <2>1. job'[p] = [job[p] EXCEPT !.at = Found(p)] BY <1>0, <1>2 DEF Acquire
  <2>2. job'[p].word = job[p].word /\ job'[p].force = job[p].force /\ job'[p].next = job[p].next
    BY <1>0, <2>1 DEF JobType
  <2>3. pc[p] = "wait" /\ pc'[p] \in {"gate", "stage"}
    BY <1>0, <1>2 DEF Acquire, Go, First, Unforced
  <2>4. NotStaged(p) BY <1>0, <2>3 DEF MarksInv
  <2>5. job'[p].force = {} /\ job'[p].next = 1 BY <2>2, <2>3 DEF ForceInv
  <2>6. 1 \in Backend /\ \A a \in Art : ~(BackendOf(a) < 1) BY BackendFacts DEF BackendOf
  <2> QED BY <2>2, <2>3, <2>4, <2>5, <2>6 DEF ForceInv, NotStaged
<1>3. CASE CancelWait(p) \/ Unlock(p) \/ Crash(p)
  <2>1. pc'[p] \in {"done", "dead"} /\ lock' # p
    BY <1>0, <1>3, StoreApplyAssumption DEF CancelWait, Unlock, Crash, Go, TypeInv, TypeOK, Ended
  <2> QED BY <2>1 DEF ForceInv
<1>4. CASE Plain(p) /\ ~Gate(p)
  <2>1. /\ job'[p].at = job[p].at /\ job'[p].word = job[p].word /\ job'[p].next = job[p].next
        /\ job'[p].force = job[p].force /\ lock' = lock /\ lock = p
    BY <1>0, <1>4, PlainKeeps
  <2>2. \/ /\ pc[p] \in {"snapshot", "copy", "write_store", "write_conf"}
           /\ pc'[p] \in {"copy", "write_store", "write_conf", "post", "unlock"}
        \/ pc[p] = "post" /\ pc'[p] \in {"stage", "undo_store", "unlock"}
        \/ pc[p] = "keep" /\ pc'[p] \in {"install", "undo_store", "unlock"}
        \/ pc'[p] \in {"undo_store", "undo_conf", "unlock"}
    BY <1>0, <1>4 DEF Plain, Gate, Snapshot, Copy, WriterFails, WriteStore, WriteConf, Post, Keep,
         RestoreRecords, UndoStore, UndoConf, Restart, ConfEdit, Undo, Verdict, Go
  <2>3. 1 \in Backend /\ \A a \in Art : ~(BackendOf(a) < 1) BY BackendFacts DEF BackendOf
  <2> QED BY <2>1, <2>2, <2>3 DEF ForceInv
<1>5. CASE Gate(p)
  <2>1. lock = p BY <1>0, <1>5, PlainKeeps DEF Plain
  <2> QED BY <1>0, <1>5, <2>1, GateForces
<1>6. CASE Stage(p)
  <2>1. lock = p BY <1>0, <1>6 DEF Stage, TypeInv, TypeOK, Ended
  <2> QED BY <1>0, <1>6, <2>1, StageForces
<1>7. CASE Install(p) \/ Record(p) \/ Restore(p)
  <2>1. job'[p].at = job[p].at /\ job'[p].word = job[p].word /\ job'[p].force = job[p].force
    BY <1>0, <1>7 DEF Install, Record, Restore, NextFile, CommitFails, JobType
  <2>2. /\ pc[p] \in {"install", "record", "restore"} /\ lock' = lock
        /\ pc'[p] \in {"install", "record", "restart", "restore", "restore_rec"}
        /\ pc[p] = "restore" => pc'[p] \in {"restore", "restore_rec"}
    BY <1>0, <1>7 DEF Install, Record, Restore, NextFile, CommitFails, Go
  <2>3. lock = p BY <1>0, <2>2 DEF TypeInv, TypeOK, Ended
  <2> QED BY <2>1, <2>2, <2>3 DEF ForceInv
<1> QED BY <1>0, <1>1, <1>2, <1>3, <1>4, <1>5, <1>6, <1>7, WorkCases DEF Plain

LEMMA NextForce ==
  ASSUME ArtEditAt \subseteq {"start"}, TypeInv, HolderInv, MarksInv, [Next]_vars,
         \A p \in Unforced : ForceInv(p)
  PROVE  \A p \in Unforced : ForceInv(p)'
<1> SUFFICES ASSUME NEW p \in Unforced PROVE ForceInv(p)' OBVIOUS
<1>0. p \in Proc BY DEF Unforced, Proc
<1>1. CASE EditFile \/ EditArt \/ UNCHANGED vars BY <1>0, <1>1, EditWhen, ForceFrame
<1>2. CASE \E q \in Proc : Step(q)
  <2> PICK q \in Proc : Step(q) BY <1>2
  <2>1. CASE p = q BY <2>1, ForceSteps
  <2>2. CASE p # q BY <1>0, <2>2, OneSteps, LockOf, ForceFrame
  <2> QED BY <2>1, <2>2
<1> QED BY <1>1, <1>2 DEF Next

\* Without --force no hand edit leaves a generated file, for any number of
\* commands, files and faults: Gate and Stage refuse where one would be lost, the
\* commit replaces only files that have none, and its Restore brings back the
\* bytes the command found.  The generated files are edited between commands
\* only: the bytes a stage read are not read again before the install.
THEOREM ForceAloneDiscards ==
  ASSUME ArtEditAt \subseteq {"start"}
  PROVE  Spec => OnlyForceDiscards
<1> DEFINE Inv == HolderInv /\ MarksInv /\ StagedThere /\ EditsInv
<1>1. Init => Inv
  <2> SUFFICES ASSUME Init PROVE Inv OBVIOUS
  <2>1. HolderInv BY StoreApplyAssumption DEF Init, HolderInv
  <2>2. StagedThere
    <3>1. \A p \in Proc : job[p] = NoJob BY DEF Init
    <3>2. \A a \in Art : NoJob.staged[a] = {} BY DEF NoJob
    <3>3. {} # NoFile BY NoFileAssumption
    <3> QED BY <3>1, <3>2, <3>3 DEF StagedThere
  <2>3. EditedInv BY DEF Init, EditedInv
  <2>4. \A p \in Unforced : ForceInv(p)
    <3>1. \A p \in Unforced : p \in Proc BY DEF Unforced, Proc
    <3> QED BY <3>1, StoreApplyAssumption DEF Init, ForceInv
  <2> QED BY <2>1, <2>2, <2>3, <2>4, InitMarks DEF EditsInv
<1>2. TypeInv /\ Inv /\ [Next]_vars => Inv'
  <2> SUFFICES ASSUME TypeInv, Inv, [Next]_vars PROVE Inv' OBVIOUS
  <2> QED BY NextHolderInv, NextMarks, NextStagedThere, NextEdited, NextForce DEF EditsInv
<1>3. TypeInv /\ Inv /\ [Next]_vars =>
        \A e \in edited :
          e.file = "art" /\ lock \in Appliers \cup (Renderers \ Forced) =>
            (<<"art", e.edit>> \in art[e.n] => <<"art", e.edit>> \in art'[e.n])
  <2> SUFFICES ASSUME TypeInv, Inv, [Next]_vars, NEW e \in edited, e.file = "art", lock \in Unforced,
                      <<"art", e.edit>> \in art[e.n]
      PROVE  <<"art", e.edit>> \in art'[e.n]
    BY DEF Unforced
  <2> USE Parts
  <2> DEFINE p == lock
             a == e.n
  <2>1. p \in Proc /\ pc[p] \in Section /\ p # NoOne
    BY StoreApplyAssumption DEF Unforced, Proc, TypeInv, TypeOK, Section
  <2>2. a \in Art /\ art[a] # NoFile BY DEF EditsInv, EditedInv
  <2>3. Marked(art[a])
    <3> DEFINE x == <<"art", e.edit>>
    <3>1. x \in art[a] /\ x[1] = "art" OBVIOUS
    <3> HIDE DEF x
    <3> QED BY <2>2, <3>1 DEF Marked
  <2>4. MarkInv(p) /\ ForceInv(p) /\ ArtsInv(p) BY <2>1 DEF MarksInv, EditsInv, HolderInv
  <2>5. art'[a] = art[a]
    <3>1. CASE EditFile \/ EditArt \/ UNCHANGED vars BY <2>1, <3>1, EditWhen
    <3>2. CASE \E q \in Proc : Step(q)
      <4> PICK q \in Proc : Step(q) BY <3>2
      <4>1. CASE q # p BY <2>1, <4>1, OneSteps DEF disk
      <4>2. CASE q = p /\ ~Install(p) /\ ~Restore(p)
        BY <4>2, <2>1, WorkCases, PlainKeeps DEF Start, Acquire, CancelWait, Unlock, Crash, Stage, Record, disk
      <4>3. CASE q = p /\ Install(p)
        <5> DEFINE n == job[p].next
        <5>1. n \in Art /\ pc[p] = "install" BY <2>1, <4>3 DEF Install, JobType
        <5>2. art' = art \/ (art' = [art EXCEPT ![n] = job[p].staged[n]]
                             /\ job[p].word[n] \notin {"current", "same"})
          BY <4>3 DEF Install
        <5>3. n >= n BY <5>1 DEF Art
        <5>4. art[n] = job[p].at.art[n] BY <2>4, <5>1, <5>3 DEF MarkInv
        <5>5. job[p].word[n] \notin {"current", "same"} => ~Marked(art[n])
          BY <2>1, <2>4, <5>1, <5>4 DEF ForceInv
        <5> QED BY <2>2, <2>3, <5>1, <5>2, <5>5 DEF Arts
      <4>4. CASE q = p /\ Restore(p)
        <5>1. pc[p] = "restore" BY <4>4 DEF Restore
        <5>2. art[a] = job[p].at.art[a] /\ job[p].keptArt = job[p].at.art
          BY <2>2, <2>3, <2>4, <5>1 DEF MarkInv, ArtsInv, Committing
        <5> QED BY <2>2, <4>4, <5>2 DEF Restore, Arts
      <4> QED BY <4>1, <4>2, <4>3, <4>4
    <3> QED BY <3>1, <3>2 DEF Next
  <2> QED BY <2>5
<1> HIDE DEF Inv
<1> QED BY <1>1, <1>2, <1>3, InitTypeInv, NextTypeInv, PTL DEF Spec, OnlyForceDiscards

----------------------------------------------------------------------------
(* A hand edit is not lost.  Every file is staged before the first is         *)
(* replaced, so an edited one is displaced and copied; the snapshot taken      *)
(* before the writer holds the edits the writer may take away; the rollback    *)
(* saves what was edited after it.  Snapshots but the first are never pruned   *)
(* while retention covers the commands that take one.                          *)

\* The phases before a command's snapshot, those of its writer, and those in
\* which its render may still be rolled back.
Before == {"start", "wait", "gate", "snapshot"}
Writer == {"copy", "write_store", "write_conf", "post"}
Undoable == {"stage", "keep", "undo_store", "undo_conf"} \cup Committing

\* Every file is staged before the first is replaced, an edited one as displaced.
StagingInv(p) ==
  /\ pc[p] \in (Before \cup Writer) \ {"start"} => job[p].next = 1
  /\ lock = p => \A a \in Art : job[p].word[a] # "none" /\ Marked(job[p].at.art[a]) => Displaces(job[p].word[a])
  /\ pc[p] = "stage" =>
       job[p].next \in Backend /\ \A a \in Art : BackendOf(a) < job[p].next => job[p].word[a] # "none"
  /\ pc[p] \in {"keep", "install", "record"} => \A a \in Art : job[p].word[a] # "none"

\* The commands that take a snapshot, and those of them that are past it.
Takers == Appliers \cup Restorers
TakenBy == {p \in Takers : pc[p] \notin Before}

\* A snapshot for each of them at most, besides the first, which holds no edit.
CountInv ==
  /\ \A s, t \in snaps : s.id = t.id => s = t
  /\ \A s \in snaps : 1 <= s.id /\ s.id <= 1 + Cardinality(TakenBy)
  /\ \A s \in snaps : s.id = 1 => s.store = {} /\ s.conf = {}

InSnaps(file, h) ==
  \E s \in snaps : h \in (IF file = "store" THEN s.store ELSE s.conf)

\* The snapshots have the edits that the writer finds, and those it leaves.
Shown(s, c) == \A h \in Hand : (h \in s => InSnaps("store", h)) /\ (h \in c => InSnaps("conf", h))
WayInv(p) ==
  /\ pc[p] \in Writer => Shown(store, conf)
  /\ pc[p] \in Undoable /\ p \notin Renderers => Shown(job[p].post.store, job[p].post.conf)

InCopy(file, n, x) == \E s \in saved : s.file = file /\ s.n = n /\ x \in s.text

KeptEdit(e) ==
  /\ e.edit \in Hand
  /\ \/ /\ e.file = "art" /\ e.n \in Art
        /\ <<"art", e.edit>> \in art[e.n] \/ InCopy("art", e.n, <<"art", e.edit>>)
     \/ /\ e.file = "store" /\ e.n = 0
        /\ e.edit \in store \/ InCopy("store", 0, e.edit) \/ InSnaps("store", e.edit)
     \/ /\ e.file = "conf" /\ e.n = 0
        /\ e.edit \in conf \/ InCopy("conf", 0, e.edit) \/ InSnaps("conf", e.edit)

KeptInv ==
  /\ CountInv
  /\ \A p \in Proc : StagingInv(p)
  /\ \A p \in Proc : lock = p => WayInv(p)
  /\ \A e \in edited : KeptEdit(e)

\* The staging.
LEMMA StagingFrame ==
  ASSUME NEW p \in Proc, StagingInv(p), pc'[p] = pc[p], job'[p] = job[p], lock' = p => lock = p
  PROVE  StagingInv(p)'
BY DEF StagingInv, Marked

LEMMA StagingStage ==
  ASSUME TypeInv, HolderInv, MarksInv, NEW p \in Proc, StagingInv(p), Stage(p), lock = p
  PROVE  StagingInv(p)'
<1> USE Parts
<1> DEFINE b == job[p].next
<1>1. pc[p] = "stage" /\ lock' = lock BY DEF Stage
<1>2. job'[p].at = job[p].at BY StageJob
<1>3. art = job[p].at.art /\ Unmarked(recd) BY <1>1 DEF HolderInv, ArtsInv, Untouched, MarksInv
<1>4. ASSUME NEW a \in Art, job'[p].word[a] # "none", Marked(job[p].at.art[a])
      PROVE  Displaces(job'[p].word[a])
  <2>1. CASE job'[p].word[a] = job[p].word[a] BY <1>4, <2>1 DEF StagingInv
  <2>2. CASE /\ job'[p].staged[a] = Render(a, store, job[p].view)
             /\ job'[p].word[a] = LiveStatus(a, job'[p].staged[a])
    <3>1. art[a] # job'[p].staged[a] BY <1>3, <1>4, <2>2, RenderUnmarked
    <3>2. art[a] # recd[a] /\ art[a] # NoFile BY <1>3, <1>4 DEF Unmarked, Marked
    <3> QED BY <2>2, <3>1, <3>2 DEF LiveStatus, Status, Displaces
  <2> QED BY <2>1, <2>2, StageSets
<1>5. CASE Undo(p)
  <2>1. pc'[p] \in {"unlock", "undo_store"} BY <1>5 DEF Undo, Verdict, Go
  <2> QED BY <1>1, <1>2, <1>4, <2>1 DEF StagingInv, Before, Writer
<1>6. CASE ~Undo(p)
  <2>1. b \in Backend /\ b \in {1, 2} BY <1>1, BackendFacts DEF StagingInv
  <2>2. \A a \in Art : BackendOf(a) <= b => job'[p].word[a] # "none"
    <3> SUFFICES ASSUME NEW a \in Art, BackendOf(a) <= b PROVE job'[p].word[a] # "none" OBVIOUS
    <3>1. CASE BackendOf(a) = b
      <4>1. job'[p].word[a] = LiveStatus(a, Render(a, store, job[p].view)) BY <1>6, <3>1, StagedJob
      <4> QED BY <4>1 DEF LiveStatus, Status
    <3>2. CASE BackendOf(a) < b
      <4>1. job'[p].word[a] = job[p].word[a] BY <1>6, <2>1, <3>2, StagedJob, BackendFacts
      <4> QED BY <1>1, <3>2, <4>1 DEF StagingInv
    <3> QED BY <2>1, <3>1, <3>2, BackendFacts
  <2>3. CASE b + 1 \in Backend
    <3>1. job'[p].next = b + 1 /\ pc'[p] = "stage" BY <1>6, <2>3, StagedJob
    <3>2. \A a \in Art : BackendOf(a) < b + 1 => BackendOf(a) <= b BY <2>1, BackendFacts
    <3> QED BY <1>1, <1>2, <1>4, <2>2, <2>3, <3>1, <3>2 DEF StagingInv, Before, Writer
  <2>4. CASE b + 1 \notin Backend
    <3>1. job'[p].next = 1 /\ pc'[p] = "keep" BY <1>6, <2>4, StagedJob
    <3>2. \A a \in Art : BackendOf(a) <= b BY <2>1, <2>4, BackendFacts
    <3> QED BY <1>1, <1>2, <1>4, <2>2, <3>1, <3>2 DEF StagingInv, Before, Writer
  <2> QED BY <2>3, <2>4
<1> QED BY <1>5, <1>6

LEMMA StagingSteps ==
  ASSUME TypeInv, HolderInv, MarksInv, NEW p \in Proc, StagingInv(p), Step(p)
  PROVE  StagingInv(p)'
<1> USE Parts
<1>1. CASE Start(p)
  <2>1. pc'[p] = "wait" /\ lock' # p BY <1>1 DEF Start, Go, TypeInv, TypeOK, Ended
  <2> QED BY <1>1, <2>1, NewJob DEF StagingInv
<1>2. CASE Acquire(p)
  <2>1. job'[p] = [job[p] EXCEPT !.at = Found(p)] BY <1>2 DEF Acquire
  <2>2. job'[p].word = job[p].word /\ job'[p].next = job[p].next BY <2>1 DEF JobType
  <2>3. pc[p] = "wait" /\ pc'[p] \in {"gate", "stage", "snapshot", "edit"}
    BY <1>2 DEF Acquire, Go, First
  <2>4. NotStaged(p) BY <2>3 DEF MarksInv
  <2>5. job'[p].next = 1 BY <2>2, <2>3 DEF StagingInv, Before
  <2>6. 1 \in Backend /\ \A a \in Art : ~(BackendOf(a) < 1) BY BackendFacts DEF BackendOf
  <2> QED BY <2>2, <2>3, <2>4, <2>5, <2>6 DEF StagingInv, NotStaged
<1>3. CASE CancelWait(p) \/ Unlock(p) \/ Crash(p)
  <2>1. pc'[p] \in {"done", "dead"} /\ lock' # p
    BY <1>3, StoreApplyAssumption DEF CancelWait, Unlock, Crash, Go, TypeInv, TypeOK, Ended
  <2> QED BY <2>1 DEF StagingInv, Before, Writer
<1>4. CASE Plain(p)
  <2>1. /\ job'[p].at = job[p].at /\ job'[p].word = job[p].word /\ job'[p].next = job[p].next
        /\ lock' = lock /\ lock = p
    BY <1>4, PlainKeeps
  <2>2. \/ /\ pc[p] \in {"gate", "snapshot", "copy", "write_store", "write_conf"}
           /\ pc'[p] \in {"snapshot", "copy", "write_store", "write_conf", "post", "unlock"}
        \/ pc[p] = "post" /\ pc'[p] \in {"stage", "undo_store", "unlock"}
        \/ pc[p] = "keep" /\ pc'[p] \in {"install", "undo_store", "unlock"}
        \/ pc'[p] \in {"undo_store", "undo_conf", "unlock"}
    BY <1>4 DEF Plain, Gate, Snapshot, Copy, WriterFails, WriteStore, WriteConf, Post, Keep,
         RestoreRecords, UndoStore, UndoConf, Restart, ConfEdit, Undo, Verdict, Go
  <2>3. 1 \in Backend /\ \A a \in Art : ~(BackendOf(a) < 1) BY BackendFacts DEF BackendOf
  <2> QED BY <2>1, <2>2, <2>3 DEF StagingInv, Before, Writer
<1>5. CASE Stage(p)
  <2>1. lock = p BY <1>5 DEF Stage, TypeInv, TypeOK, Ended
  <2> QED BY <1>5, <2>1, StagingStage
<1>6. CASE Install(p) \/ Record(p) \/ Restore(p)
  <2>1. job'[p].at = job[p].at /\ job'[p].word = job[p].word
    BY <1>6 DEF Install, Record, Restore, NextFile, CommitFails, JobType
  <2>2. /\ pc[p] \in {"install", "record", "restore"} /\ lock' = lock
        /\ pc'[p] \in {"install", "record", "restart", "restore", "restore_rec"}
        /\ pc[p] = "restore" => pc'[p] \in {"restore", "restore_rec"}
    BY <1>6 DEF Install, Record, Restore, NextFile, CommitFails, Go
  <2>3. lock = p BY <2>2 DEF TypeInv, TypeOK, Ended
  <2> QED BY <2>1, <2>2, <2>3 DEF StagingInv, Before, Writer
<1> QED BY <1>1, <1>2, <1>3, <1>4, <1>5, <1>6, WorkCases

LEMMA NextStaging ==
  ASSUME ArtEditAt \subseteq {"start"}, TypeInv, HolderInv, MarksInv, [Next]_vars,
         NEW p \in Proc, StagingInv(p)
  PROVE  StagingInv(p)'
<1>1. CASE EditFile \/ EditArt \/ UNCHANGED vars BY <1>1, EditWhen, StagingFrame
<1>2. CASE \E q \in Proc : Step(q)
  <2> PICK q \in Proc : Step(q) BY <1>2
  <2>1. CASE p = q BY <2>1, StagingSteps
  <2>2. CASE p # q BY <2>2, OneSteps, LockOf, StagingFrame
  <2> QED BY <2>1, <2>2
<1> QED BY <1>1, <1>2 DEF Next

\* The snapshots.
Roomy == IsFiniteSet(Takers) /\ Cardinality(Takers) <= Retention

LEMMA TakenGrows ==
  ASSUME TypeInv, Roomy, NEW q \in Proc, Step(q)
  PROVE  /\ IsFiniteSet(TakenBy) /\ IsFiniteSet(TakenBy') /\ TakenBy \subseteq TakenBy'
         /\ Cardinality(TakenBy) \in Nat /\ Cardinality(TakenBy') \in Nat
         /\ Cardinality(TakenBy) <= Cardinality(TakenBy')
<1> USE Parts
<1>1. pc[q] \notin Before => pc'[q] \notin Before
  BY DEF Step, Start, Acquire, CancelWait, Gate, Snapshot, Copy, WriterFails, WriteStore, WriteConf,
         Post, Stage, Keep, Install, Record, Restore, RestoreRecords, UndoStore, UndoConf, Restart,
         ConfEdit, Unlock, Crash, Undo, Verdict, NextFile, CommitFails, Go, Before
<1>2. \A p \in Takers : p \in Proc BY DEF Takers, Proc
<1>3. TakenBy \subseteq TakenBy' BY <1>1, <1>2, OneSteps DEF TakenBy
<1>4. TakenBy \in SUBSET Takers /\ TakenBy' \in SUBSET Takers BY DEF TakenBy
<1>5. IsFiniteSet(TakenBy) /\ IsFiniteSet(TakenBy') BY <1>4, FS_Subset DEF Roomy
<1>6. TakenBy \in SUBSET TakenBy' BY <1>3
<1>7. Cardinality(TakenBy) <= Cardinality(TakenBy') BY <1>5, <1>6, FS_Subset
<1>8. Cardinality(TakenBy) \in Nat /\ Cardinality(TakenBy') \in Nat BY <1>5, FS_CardinalityType
<1> QED BY <1>3, <1>5, <1>7, <1>8

\* The one that takes is one more, and retention has room for all.
LEMMA TakerCounts ==
  ASSUME TypeInv, HolderInv, Roomy, NEW q \in Proc, Snapshot(q)
  PROVE  /\ Cardinality(TakenBy') >= Cardinality(TakenBy) + 1
         /\ Cardinality(TakenBy) + 1 <= Retention
<1> USE Parts
<1>0. pc[q] = "snapshot" /\ pc'[q] \in {"copy", "unlock"} BY DEF Snapshot, Verdict, Go
<1>1. lock = q BY <1>0 DEF TypeInv, TypeOK, Ended
<1>2. q \in Takers BY <1>0, <1>1 DEF HolderInv, KindInv, Committing, Takers, Proc
<1>3. Step(q) BY DEF Step
<1>4. q \notin TakenBy /\ q \in TakenBy' BY <1>0, <1>2 DEF TakenBy, Before
<1>5. IsFiniteSet(TakenBy \cup {q}) /\ Cardinality(TakenBy \cup {q}) = Cardinality(TakenBy) + 1
  BY <1>3, <1>4, TakenGrows, FS_AddElement
<1>6. TakenBy \cup {q} \in SUBSET TakenBy' BY <1>3, <1>4, TakenGrows
<1>7. TakenBy \cup {q} \in SUBSET Takers BY <1>2 DEF TakenBy
<1>8. Cardinality(TakenBy \cup {q}) <= Cardinality(TakenBy') BY <1>3, <1>6, TakenGrows, FS_Subset
<1>9. Cardinality(TakenBy \cup {q}) <= Cardinality(Takers) BY <1>7, FS_Subset DEF Roomy
<1>10. Cardinality(TakenBy) \in Nat /\ Cardinality(TakenBy') \in Nat /\ Cardinality(Takers) \in Nat
  BY <1>3, TakenGrows, FS_CardinalityType DEF Roomy
<1> QED BY <1>5, <1>8, <1>9, <1>10, StoreApplyAssumption DEF Roomy

\* Retention drops the first snapshot at most.
LEMMA SnapsStay ==
  ASSUME TypeInv, HolderInv, CountInv, Roomy, NEW q \in Proc, Step(q), NEW s \in snaps, s.id # 1
  PROVE  s \in snaps'
<1> USE Parts
<1>1. CASE ~Snapshot(q)
  BY <1>1 DEF Step, Start, Acquire, CancelWait, Gate, Copy, WriterFails, WriteStore, WriteConf,
         Post, Stage, Keep, Install, Record, Restore, RestoreRecords, UndoStore, UndoConf, Restart,
         ConfEdit, Unlock, Crash, disk
<1>2. CASE Snapshot(q)
  <2> DEFINE n == [id |-> Newest.id + 1, store |-> store, conf |-> conf]
             S == snaps \cup {n}
             T == {t \in S : t.id > s.id}
             k == Cardinality(TakenBy)
  <2>0. n.id = Newest.id + 1 OBVIOUS
  <2>1. snaps' = snaps \/ snaps' = Pruned(S, job[q].pick) BY <1>2 DEF Snapshot
  <2> HIDE DEF n
  <2>2. k \in Nat /\ k + 1 <= Retention BY <1>2, TakenGrows, TakerCounts
  <2>3. Newest \in snaps /\ \A t \in snaps : t.id \in Nat /\ t.id <= Newest.id BY NewestType DEF SnapsOK, Snap
  <2>4. \A t \in snaps : 1 <= t.id /\ t.id <= 1 + k BY DEF CountInv
  <2> HIDE DEF k
  <2>5. \A t \in T : t.id \in 3 .. k + 2 BY <2>0, <2>2, <2>3, <2>4
  <2>6. \A t, u \in T : t.id = u.id => t = u BY <2>0, <2>3 DEF CountInv
  <2> HIDE DEF T
  <2> DEFINE f == [t \in T |-> t.id]
  <2>7. f \in Injection(T, 3 .. k + 2) BY <2>5, <2>6 DEF Injection, IsInjective
  <2>8. IsFiniteSet(3 .. k + 2) /\ Cardinality(3 .. k + 2) = k BY <2>2, FS_Interval
  <2>9. IsFiniteSet(T) /\ Cardinality(T) <= k
    <3> HIDE DEF f
    <3> QED BY <2>7, <2>8, FS_Injection
  <2>10. Cardinality(T) \in Nat /\ Retention \in Nat BY <2>9, FS_CardinalityType, StoreApplyAssumption
  <2>11. Cardinality(T) < Retention BY <2>2, <2>9, <2>10
  <2> QED BY <2>1, <2>11 DEF Pruned, T
<1> QED BY <1>1, <1>2

\* So what a snapshot holds stays in a snapshot.
LEMMA SnapsHold ==
  ASSUME TypeInv, HolderInv, CountInv, Roomy, NEW q \in Proc, Step(q), NEW file, NEW h, InSnaps(file, h)
  PROVE  InSnaps(file, h)'
<1>1. PICK s \in snaps : h \in (IF file = "store" THEN s.store ELSE s.conf) BY DEF InSnaps
<1>2. s.id # 1 BY <1>1 DEF CountInv
<1> QED BY <1>1, <1>2, SnapsStay DEF InSnaps

LEMMA NextCount ==
  ASSUME TypeInv, HolderInv, CountInv, Roomy, [Next]_vars
  PROVE  CountInv'
<1> USE Parts
<1>1. CASE EditFile \/ EditArt \/ UNCHANGED vars
  <2>1. UNCHANGED <<snaps, pc>> BY <1>1 DEF EditFile, EditArt, vars
  <2> QED BY <2>1 DEF CountInv, TakenBy
<1>2. CASE \E q \in Proc : Step(q)
  <2> PICK q \in Proc : Step(q) BY <1>2
  <2> DEFINE k == Cardinality(TakenBy)
             m == Cardinality(TakenBy')
  <2>1. k \in Nat /\ m \in Nat /\ k <= m BY TakenGrows
  <2>2. \A s \in snaps : s.id \in Nat /\ 1 <= s.id /\ s.id <= 1 + k BY DEF CountInv, SnapsOK, Snap
  <2>3. \A s, t \in snaps : s.id = t.id => s = t BY DEF CountInv
  <2>4. \A s \in snaps : s.id = 1 => s.store = {} /\ s.conf = {} BY DEF CountInv
  <2>5. CASE snaps' = snaps
    <3> HIDE DEF k, m
    <3>1. \A s \in snaps : 1 <= s.id /\ s.id <= 1 + m BY <2>1, <2>2
    <3> QED BY <2>3, <2>4, <2>5, <3>1 DEF CountInv, m
  <2>6. CASE snaps' # snaps
    <3> DEFINE n == [id |-> Newest.id + 1, store |-> store, conf |-> conf]
    <3>1. Snapshot(q)
      BY <2>6 DEF Step, Start, Acquire, CancelWait, Gate, Copy, WriterFails, WriteStore, WriteConf,
         Post, Stage, Keep, Install, Record, Restore, RestoreRecords, UndoStore, UndoConf, Restart,
         ConfEdit, Unlock, Crash, disk
    <3>2. snaps' = Pruned(snaps \cup {n}, job[q].pick) BY <2>6, <3>1 DEF Snapshot
    <3>3. n.id = Newest.id + 1 OBVIOUS
    <3> HIDE DEF n
    <3>4. snaps' \subseteq snaps \cup {n} BY <3>2 DEF Pruned
    <3>5. Newest \in snaps /\ \A t \in snaps : t.id <= Newest.id BY NewestType
    <3>6. m >= k + 1 BY <3>1, TakerCounts
    <3> HIDE DEF k, m
    <3>7. n.id \in Nat /\ n.id # 1 /\ 1 <= n.id /\ n.id <= 1 + m /\ \A t \in snaps : t.id # n.id
      BY <2>1, <2>2, <3>3, <3>5, <3>6
    <3>8. \A s \in snaps' : 1 <= s.id /\ s.id <= 1 + m BY <2>1, <2>2, <3>4, <3>7
    <3>9. \A s, t \in snaps' : s.id = t.id => s = t BY <2>3, <3>4, <3>7
    <3>10. \A s \in snaps' : s.id = 1 => s.store = {} /\ s.conf = {} BY <2>4, <3>4, <3>7
    <3> QED BY <3>8, <3>9, <3>10 DEF CountInv, m
  <2> QED BY <2>5, <2>6
<1> QED BY <1>1, <1>2 DEF Next

\* The edits that the snapshots have.
LEMMA PostStays ==
  ASSUME TypeInv, NEW p \in Proc,
         Stage(p) \/ Keep(p) \/ Install(p) \/ Record(p) \/ Restore(p) \/ RestoreRecords(p)
         \/ UndoStore(p) \/ UndoConf(p)
  PROVE  /\ job'[p].post = job[p].post /\ snaps' = snaps
         /\ pc[p] \in Undoable /\ pc'[p] \notin Writer
<1> USE Parts
<1>1. snaps' = snaps /\ pc[p] \in Undoable
  BY DEF Stage, Keep, Install, Record, Restore, RestoreRecords, UndoStore, UndoConf, disk, Undoable, Committing
<1>2. pc'[p] \notin Writer
  BY DEF Stage, Keep, Install, Record, Restore, RestoreRecords, UndoStore, UndoConf, Undo, Verdict,
         NextFile, CommitFails, Go, Writer
<1>3. job'[p].post = job[p].post
  <2>1. CASE Stage(p) BY <2>1, StageJob
  <2>2. CASE Keep(p)
    <3>1. job'[p] = job[p] \/ job'[p] = [job[p] EXCEPT !.keptArt = art, !.keptRec = recd]
      BY <2>2 DEF Keep, JobType
    <3> QED BY <3>1 DEF JobType
  <2>3. CASE Install(p) \/ Record(p) \/ Restore(p)
    BY <2>3 DEF Install, Record, Restore, NextFile, CommitFails, JobType
  <2>4. CASE RestoreRecords(p) \/ UndoStore(p) \/ UndoConf(p)
    BY <2>4 DEF RestoreRecords, UndoStore, UndoConf
  <2> QED BY <2>1, <2>2, <2>3, <2>4
<1> QED BY <1>1, <1>2, <1>3

LEMMA WaySteps ==
  ASSUME TypeInv, HolderInv, PickInv, NEW q \in Proc, Step(q), lock' = q, lock = q => WayInv(q)
  PROVE  WayInv(q)'
<1> USE Parts
<1>1. CASE Start(q) \/ CancelWait(q) \/ Unlock(q) \/ Crash(q)
  BY <1>1, StoreApplyAssumption DEF Start, CancelWait, Unlock, Crash, TypeInv, TypeOK, Ended
<1>2. CASE Acquire(q)
  <2>1. pc'[q] \in {"gate", "snapshot", "edit"} \/ (pc'[q] = "stage" /\ q \in Renderers)
    BY <1>2 DEF Acquire, Go, First
  <2> QED BY <2>1 DEF WayInv, Writer, Undoable, Committing
<1>3. CASE Gate(q) \/ Restart(q) \/ ConfEdit(q)
  <2>1. pc'[q] \in {"snapshot", "unlock"} BY <1>3 DEF Gate, Restart, ConfEdit, Verdict, Go
  <2> QED BY <2>1 DEF WayInv, Writer, Undoable, Committing
<1>4. CASE Snapshot(q)
  <2>1. UNCHANGED <<store, conf>> /\ pc'[q] \in {"copy", "unlock"} BY <1>4 DEF Snapshot, Verdict, Go
  <2>2. CASE pc'[q] = "unlock" BY <2>2 DEF WayInv, Writer, Undoable, Committing
  <2>3. CASE pc'[q] = "copy"
    <3>1. PICK s \in snaps' : s.store = store /\ s.conf = conf BY <1>4, <2>3, Taking
    <3>2. Shown(store, conf)' BY <2>1, <3>1 DEF Shown, InSnaps
    <3> QED BY <2>3, <3>2 DEF WayInv, Writer, Undoable, Committing
  <2> QED BY <2>1, <2>2, <2>3
<1>5. CASE Copy(q) /\ pc'[q] = "unlock"
  BY <1>5 DEF WayInv, Writer, Undoable, Committing
<1>5a. CASE (Copy(q) /\ pc'[q] # "unlock") \/ WriterFails(q) \/ WriteStore(q) \/ WriteConf(q)
  <2>1. pc[q] \in Writer /\ pc'[q] \in Writer /\ pc'[q] \notin Undoable /\ snaps' = snaps
    BY <1>5a DEF Copy, WriterFails, WriteStore, WriteConf, Verdict, Go, disk, Writer, Undoable, Committing
  <2>2. lock = q BY <2>1 DEF TypeInv, TypeOK, Ended, Writer
  <2>3. Shown(store, conf) BY <2>1, <2>2 DEF WayInv
  <2>4. /\ store' = store \/ store' = store \cup {q} \/ \E s \in snaps : store' = s.store
        /\ conf' = conf \/ conf' = conf \cup {q} \/ \E s \in snaps : conf' = s.conf
    BY <1>5a DEF Copy, WriterFails, WriteStore, WriteConf, Picked, disk
  <2>5. \A h \in Hand : h # q BY StoreApplyAssumption
  <2>6. ASSUME NEW h \in Hand, h \in store' PROVE InSnaps("store", h)'
    BY <2>1, <2>3, <2>4, <2>5, <2>6 DEF Shown, InSnaps
  <2>7. ASSUME NEW h \in Hand, h \in conf' PROVE InSnaps("conf", h)'
    BY <2>1, <2>3, <2>4, <2>5, <2>7 DEF Shown, InSnaps
  <2> QED BY <2>1, <2>6, <2>7 DEF WayInv, Shown
<1>6. CASE Post(q)
  <2>1. pc[q] = "post" /\ pc'[q] \in {"stage", "undo_store", "unlock"} /\ UNCHANGED <<store, conf, snaps>>
    BY <1>6 DEF Post, Undo, Verdict, Go, disk
  <2>2. lock = q BY <2>1 DEF TypeInv, TypeOK, Ended
  <2>3. Shown(store, conf) BY <2>1, <2>2 DEF WayInv, Writer
  <2>4. job'[q] = [job[q] EXCEPT !.view = conf, !.post = Files(store, conf)] BY <1>6 DEF Post, JobType
  <2>5. job'[q].post = Files(store, conf) BY <2>4 DEF JobType
  <2>6. Files(store, conf).store = store /\ Files(store, conf).conf = conf BY DEF Files
  <2> QED BY <2>1, <2>3, <2>5, <2>6 DEF WayInv, Writer, Shown, InSnaps
<1>7. CASE Stage(q) \/ Keep(q) \/ Install(q) \/ Record(q) \/ Restore(q) \/ RestoreRecords(q)
           \/ UndoStore(q) \/ UndoConf(q)
  <2>1. job'[q].post = job[q].post /\ snaps' = snaps /\ pc[q] \in Undoable /\ pc'[q] \notin Writer
    BY <1>7, PostStays
  <2>2. lock = q BY <2>1 DEF TypeInv, TypeOK, Ended, Undoable, Committing
  <2> QED BY <2>1, <2>2 DEF WayInv, Shown, InSnaps
<1> QED BY <1>1, <1>2, <1>3, <1>4, <1>5, <1>5a, <1>6, <1>7 DEF Step

LEMMA NextWay ==
  ASSUME FileEditAt \cap Writer = {}, TypeInv, HolderInv, PickInv, [Next]_vars,
         \A p \in Proc : lock = p => WayInv(p), NEW p \in Proc, lock' = p
  PROVE  WayInv(p)'
<1> USE Parts
<1>1. CASE EditFile \/ EditArt \/ UNCHANGED vars
  <2>1. UNCHANGED <<lock, pc, job, snaps>> BY <1>1 DEF EditFile, EditArt, vars
  <2>2. Now = pc[p] BY <2>1, StoreApplyAssumption DEF Now
  <2>3. pc[p] \in Writer => UNCHANGED <<store, conf>>
    BY <1>1, <2>2 DEF EditFile, EditArt, vars
  <2>4. WayInv(p) BY <2>1
  <2> QED BY <2>1, <2>3, <2>4 DEF WayInv, Shown, InSnaps
<1>2. CASE \E q \in Proc : Step(q)
  <2> PICK q \in Proc : Step(q) BY <1>2
  <2>1. CASE p = q BY <2>1, WaySteps
  <2>2. CASE p # q
    <3>1. lock = p /\ pc[p] \in Section BY <2>2, LockOf
    <3>2. pc'[p] = pc[p] /\ job'[p] = job[p] /\ UNCHANGED disk BY <2>2, <3>1, OneSteps
    <3> QED BY <3>1, <3>2 DEF WayInv, Shown, InSnaps, disk
  <2> QED BY <2>1, <2>2
<1> QED BY <1>1, <1>2 DEF Next

\* A copy that was saved stays.
LEMMA CopiesStay == ASSUME NEW q \in Proc, Step(q) PROVE saved \subseteq saved' /\ edited' = edited
BY DEF Step, Start, Acquire, CancelWait, Gate, Snapshot, Copy, WriterFails, WriteStore, WriteConf,
       Post, Stage, Keep, Install, Record, Restore, RestoreRecords, UndoStore, UndoConf, Restart,
       ConfEdit, Unlock, Crash, disk

\* A step leaves an edit in the generated file, or in the copy it takes of it.
LEMMA ArtKept ==
  ASSUME TypeInv, HolderInv, MarksInv, \A p \in Proc : StagingInv(p), NEW q \in Proc, Step(q),
         NEW a \in Art, NEW h, art[a] # NoFile, <<"art", h>> \in art[a]
  PROVE  <<"art", h>> \in art'[a] \/ InCopy("art", a, <<"art", h>>)'
<1> USE Parts
<1> DEFINE x == <<"art", h>>
<1>1. x \in art[a] /\ x[1] = "art" OBVIOUS
<1> HIDE DEF x
<1>2. Marked(art[a]) BY <1>1 DEF Marked
<1>3. CASE ~Install(q) /\ ~Restore(q)
  <2>1. art' = art
    BY <1>3, WorkCases, PlainKeeps DEF Start, Acquire, CancelWait, Unlock, Crash, Stage, Record, disk
  <2> QED BY <2>1
<1>4. CASE Install(q)
  <2> DEFINE n == job[q].next
             word == job[q].word[n]
  <2>1. n \in Art /\ pc[q] = "install" BY <1>4 DEF Install, JobType
  <2>2. lock = q BY <2>1 DEF TypeInv, TypeOK, Ended
  <2>3. \/ art' = art
        \/ /\ art' = [art EXCEPT ![n] = job[q].staged[n]] /\ word \notin {"current", "same"}
           /\ saved' = IF Displaces(word) THEN saved \cup {SaveDisplaced(n)} ELSE saved
    BY <1>4 DEF Install
  <2>4. CASE art' = art \/ a # n
    <3>1. art'[a] = art[a] BY <2>1, <2>3, <2>4 DEF Arts
    <3> QED BY <3>1
  <2>5. CASE art' # art /\ a = n
    <3>1. n >= n BY <2>1 DEF Art
    <3>2. MarkInv(q) BY <2>2 DEF MarksInv
    <3>3. art[n] = job[q].at.art[n] BY <2>1, <3>1, <3>2 DEF MarkInv
    <3>4. word # "none" BY <2>1 DEF StagingInv
    <3>5. Displaces(word) BY <1>2, <2>1, <2>2, <2>5, <3>3, <3>4 DEF StagingInv
    <3>6. SaveDisplaced(n) \in saved' BY <2>3, <2>5, <3>5
    <3>7. SaveDisplaced(n).file = "art" /\ SaveDisplaced(n).n = n /\ SaveDisplaced(n).text = art[n]
      BY DEF SaveDisplaced
    <3>8. InCopy("art", a, x)' BY <1>1, <2>5, <3>6, <3>7 DEF InCopy
    <3> QED BY <3>8 DEF x
  <2> QED BY <2>4, <2>5
<1>5. CASE Restore(q)
  <2>1. pc[q] = "restore" BY <1>5 DEF Restore
  <2>2. lock = q BY <2>1 DEF TypeInv, TypeOK, Ended
  <2>3. MarkInv(q) /\ ArtsInv(q) BY <2>2 DEF MarksInv, HolderInv
  <2>4. art[a] = job[q].at.art[a] /\ job[q].keptArt = job[q].at.art
    BY <1>2, <2>1, <2>3 DEF MarkInv, ArtsInv, Committing
  <2>5. art'[a] = art[a] BY <1>5, <2>4 DEF Restore, Arts
  <2> QED BY <2>5
<1> QED BY <1>3, <1>4, <1>5

\* It leaves an edit in store.yaml, or in the copy it saves, or in a snapshot.
LEMMA StoreKept ==
  ASSUME TypeInv, HolderInv, CountInv, Roomy, NEW q \in Proc, Step(q), lock = q => WayInv(q),
         NEW h \in Hand, h \in store
  PROVE  h \in store' \/ InCopy("store", 0, h)' \/ InSnaps("store", h)'
<1> USE Parts
<1>1. CASE ~WriteStore(q) /\ ~UndoStore(q)
  BY <1>1 DEF Step, Start, Acquire, CancelWait, Gate, Snapshot, Copy, WriterFails, WriteConf,
       Post, Stage, Keep, Install, Record, Restore, RestoreRecords, UndoConf, Restart,
       ConfEdit, Unlock, Crash, disk
<1>2. CASE WriteStore(q)
  <2>1. pc[q] = "write_store" BY <1>2 DEF WriteStore
  <2>2. lock = q BY <2>1 DEF TypeInv, TypeOK, Ended
  <2>3. InSnaps("store", h) BY <2>1, <2>2 DEF WayInv, Writer, Shown
  <2> QED BY <2>3, SnapsHold
<1>3. CASE UndoStore(q)
  <2> DEFINE c == [file |-> "store", n |-> 0, text |-> store]
  <2>1. pc[q] = "undo_store" BY <1>3 DEF UndoStore
  <2>2. lock = q BY <2>1 DEF TypeInv, TypeOK, Ended
  <2>3. q \notin Renderers BY <2>1, <2>2 DEF HolderInv, KindInv, Committing
  <2>4. CASE store = job[q].keep.store BY <1>3, <2>4 DEF UndoStore
  <2>5. CASE store = job[q].post.store
    <3>1. InSnaps("store", h) BY <2>1, <2>2, <2>3, <2>5 DEF WayInv, Undoable, Shown
    <3> QED BY <3>1, SnapsHold
  <2>6. CASE store # job[q].keep.store /\ store # job[q].post.store
    <3>1. c \in saved' BY <1>3, <2>6 DEF UndoStore, Guarded
    <3>2. c.file = "store" /\ c.n = 0 /\ c.text = store OBVIOUS
    <3> HIDE DEF c
    <3> QED BY <3>1, <3>2 DEF InCopy
  <2> QED BY <2>4, <2>5, <2>6
<1> QED BY <1>1, <1>2, <1>3

LEMMA ConfKept ==
  ASSUME TypeInv, HolderInv, CountInv, Roomy, NEW q \in Proc, Step(q), lock = q => WayInv(q),
         NEW h \in Hand, h \in conf
  PROVE  h \in conf' \/ InCopy("conf", 0, h)' \/ InSnaps("conf", h)'
<1> USE Parts
<1>1. CASE ~WriteConf(q) /\ ~UndoConf(q)
  BY <1>1 DEF Step, Start, Acquire, CancelWait, Gate, Snapshot, Copy, WriterFails, WriteStore,
       Post, Stage, Keep, Install, Record, Restore, RestoreRecords, UndoStore, Restart,
       ConfEdit, Unlock, Crash, disk
<1>2. CASE WriteConf(q)
  <2>1. pc[q] = "write_conf" BY <1>2 DEF WriteConf
  <2>2. lock = q BY <2>1 DEF TypeInv, TypeOK, Ended
  <2>3. InSnaps("conf", h) BY <2>1, <2>2 DEF WayInv, Writer, Shown
  <2> QED BY <2>3, SnapsHold
<1>3. CASE UndoConf(q)
  <2> DEFINE c == [file |-> "conf", n |-> 0, text |-> conf]
  <2>1. pc[q] = "undo_conf" BY <1>3 DEF UndoConf
  <2>2. lock = q BY <2>1 DEF TypeInv, TypeOK, Ended
  <2>3. q \notin Renderers BY <2>1, <2>2 DEF HolderInv, KindInv, Committing
  <2>4. CASE conf = job[q].keep.conf BY <1>3, <2>4 DEF UndoConf
  <2>5. CASE conf = job[q].post.conf
    <3>1. InSnaps("conf", h) BY <2>1, <2>2, <2>3, <2>5 DEF WayInv, Undoable, Shown
    <3> QED BY <3>1, SnapsHold
  <2>6. CASE conf # job[q].keep.conf /\ conf # job[q].post.conf
    <3>1. c \in saved' BY <1>3, <2>6 DEF UndoConf, Guarded
    <3>2. c.file = "conf" /\ c.n = 0 /\ c.text = conf OBVIOUS
    <3> HIDE DEF c
    <3> QED BY <3>1, <3>2 DEF InCopy
  <2> QED BY <2>4, <2>5, <2>6
<1> QED BY <1>1, <1>2, <1>3

LEMMA NextKept ==
  ASSUME ArtEditAt \subseteq {"start"}, FileEditAt \cap Writer = {}, Roomy,
         TypeInv, HolderInv, MarksInv, PickInv, EditedInv, KeptInv, [Next]_vars
  PROVE  KeptInv'
<1> USE Parts
<1>1. CountInv' BY NextCount DEF KeptInv
<1>2. \A p \in Proc : StagingInv(p)' BY NextStaging DEF KeptInv
<1>3. \A p \in Proc : lock' = p => WayInv(p)' BY NextWay DEF KeptInv
<1>4. ASSUME NEW e \in edited' PROVE KeptEdit(e)'
  <2>1. CASE UNCHANGED vars
    BY <1>4, <2>1 DEF vars, KeptInv, KeptEdit, InCopy, InSnaps
  <2>2. CASE EditFile
    <3>1. UNCHANGED <<art, snaps, saved>> /\ store \subseteq store' /\ conf \subseteq conf' BY <2>2 DEF EditFile
    <3>2. CASE e \in edited
      BY <3>1, <3>2 DEF KeptInv, KeptEdit, InCopy, InSnaps
    <3>3. CASE e \notin edited
      <4>1. PICK h \in Hand : \/ store' = store \cup {h} /\ e = [file |-> "store", n |-> 0, edit |-> h]
                              \/ conf' = conf \cup {h} /\ e = [file |-> "conf", n |-> 0, edit |-> h]
        BY <1>4, <2>2, <3>3 DEF EditFile, Edit, Unused
      <4>2. e.n = 0 /\ e.edit = h /\ ((e.file = "store" /\ h \in store') \/ (e.file = "conf" /\ h \in conf'))
        BY <4>1
      <4> QED BY <4>2 DEF KeptEdit
    <3> QED BY <3>2, <3>3
  <2>3. CASE EditArt
    <3>1. PICK h \in Hand, a \in Art :
            /\ art' = [art EXCEPT ![a] = art[a] \cup {<<"art", h>>}]
            /\ edited' = edited \cup {[file |-> "art", n |-> a, edit |-> h]}
      BY <2>3 DEF EditArt, Unused, Edit
    <3>2. UNCHANGED <<store, conf, snaps, saved>> BY <2>3 DEF EditArt
    <3>3. \A b \in Art : \A x \in art[b] : x \in art'[b] BY <3>1 DEF Arts
    <3>4. CASE e \in edited
      BY <3>2, <3>3, <3>4 DEF KeptInv, KeptEdit, InCopy, InSnaps
    <3>5. CASE e \notin edited
      <4>1. e = [file |-> "art", n |-> a, edit |-> h] BY <1>4, <3>1, <3>5
      <4>2. e.file = "art" /\ e.n = a /\ e.edit = h BY <4>1
      <4>3. <<"art", h>> \in art'[a] BY <3>1 DEF Arts
      <4> QED BY <4>2, <4>3 DEF KeptEdit
    <3> QED BY <3>4, <3>5
  <2>4. CASE \E q \in Proc : Step(q)
    <3> PICK q \in Proc : Step(q) BY <2>4
    <3>1. saved \subseteq saved' /\ e \in edited BY <1>4, CopiesStay
    <3>2. KeptEdit(e) /\ e.edit \in Hand BY <3>1 DEF KeptInv, KeptEdit
    <3>3. CASE e.file = "art"
      <4>1. e.n \in Art /\ art[e.n] # NoFile BY <3>1, <3>3 DEF EditedInv
      <4>2. CASE <<"art", e.edit>> \in art[e.n]
        <5>1. \A p \in Proc : StagingInv(p) BY DEF KeptInv
        <5>2. <<"art", e.edit>> \in art'[e.n] \/ InCopy("art", e.n, <<"art", e.edit>>)'
          BY <4>1, <4>2, <5>1, ArtKept
        <5> QED BY <3>2, <3>3, <4>1, <5>2 DEF KeptEdit
      <4>3. CASE InCopy("art", e.n, <<"art", e.edit>>)
        <5>1. InCopy("art", e.n, <<"art", e.edit>>)' BY <3>1, <4>3 DEF InCopy
        <5> QED BY <3>2, <3>3, <4>1, <5>1 DEF KeptEdit
      <4> QED BY <3>2, <3>3, <4>2, <4>3 DEF KeptEdit
    <3>4. CASE e.file = "store"
      <4>1. e.n = 0 /\ (e.edit \in store \/ InCopy("store", 0, e.edit) \/ InSnaps("store", e.edit))
        BY <3>2, <3>4 DEF KeptEdit
      <4>2. CASE e.edit \in store
        <5>1. e.edit \in store' \/ InCopy("store", 0, e.edit)' \/ InSnaps("store", e.edit)'
          BY <3>2, <4>2, StoreKept DEF KeptInv
        <5> QED BY <3>2, <3>4, <4>1, <5>1 DEF KeptEdit
      <4>3. CASE InCopy("store", 0, e.edit)
        <5>1. InCopy("store", 0, e.edit)' BY <3>1, <4>3 DEF InCopy
        <5> QED BY <3>2, <3>4, <4>1, <5>1 DEF KeptEdit
      <4>4. CASE InSnaps("store", e.edit)
        <5>1. InSnaps("store", e.edit)' BY <4>4, SnapsHold DEF KeptInv
        <5> QED BY <3>2, <3>4, <4>1, <5>1 DEF KeptEdit
      <4> QED BY <4>1, <4>2, <4>3, <4>4
    <3>5. CASE e.file = "conf"
      <4>1. e.n = 0 /\ (e.edit \in conf \/ InCopy("conf", 0, e.edit) \/ InSnaps("conf", e.edit))
        BY <3>2, <3>5 DEF KeptEdit
      <4>2. CASE e.edit \in conf
        <5>1. e.edit \in conf' \/ InCopy("conf", 0, e.edit)' \/ InSnaps("conf", e.edit)'
          BY <3>2, <4>2, ConfKept DEF KeptInv
        <5> QED BY <3>2, <3>5, <4>1, <5>1 DEF KeptEdit
      <4>3. CASE InCopy("conf", 0, e.edit)
        <5>1. InCopy("conf", 0, e.edit)' BY <3>1, <4>3 DEF InCopy
        <5> QED BY <3>2, <3>5, <4>1, <5>1 DEF KeptEdit
      <4>4. CASE InSnaps("conf", e.edit)
        <5>1. InSnaps("conf", e.edit)' BY <4>4, SnapsHold DEF KeptInv
        <5> QED BY <3>2, <3>5, <4>1, <5>1 DEF KeptEdit
      <4> QED BY <4>1, <4>2, <4>3, <4>4
    <3> QED BY <3>2, <3>3, <3>4, <3>5 DEF KeptEdit
  <2> QED BY <2>1, <2>2, <2>3, <2>4 DEF Next
<1> QED BY <1>1, <1>2, <1>3, <1>4 DEF KeptInv

\* No hand edit is lost, for any number of commands, files and edits and any
\* faults, crashes included: SaveDisplaced copies an edited generated file before
\* a forced commit replaces it, the snapshot taken before the writer holds the
\* edits of store.yaml and tacctl.yaml the writer may take away, and the guard of
\* the rollback saves a file edited after it.  It needs what the code cannot
\* ensure: nobody edits a generated file while a command runs, nor the other two
\* between the snapshot and the end of the writer, and retention keeps as many
\* snapshots as there are changes and restores, each of which takes one at most.
THEOREM HandEditsStay ==
  ASSUME ArtEditAt \subseteq {"start"},
         FileEditAt \cap {"copy", "write_store", "write_conf", "post"} = {},
         IsFiniteSet(Appliers \cup Restorers), Cardinality(Appliers \cup Restorers) <= Retention
  PROVE  Spec => []HandEditKept
<1> DEFINE Inv == HolderInv /\ MarksInv /\ StagedThere /\ PickInv /\ EditedInv /\ KeptInv
<1>0. FileEditAt \cap Writer = {} /\ Roomy BY DEF Writer, Roomy, Takers
<1>1. Init => Inv
  <2> SUFFICES ASSUME Init PROVE Inv OBVIOUS
  <2>1. HolderInv BY StoreApplyAssumption DEF Init, HolderInv
  <2>2. StagedThere
    <3>1. \A p \in Proc : job[p] = NoJob BY DEF Init
    <3>2. \A a \in Art : NoJob.staged[a] = {} BY DEF NoJob
    <3>3. {} # NoFile BY NoFileAssumption
    <3> QED BY <3>1, <3>2, <3>3 DEF StagedThere
  <2>3. EditedInv BY DEF Init, EditedInv
  <2>4. PickInv BY DEF Init, PickInv, NoJob
  <2>5. KeptInv
    <3>1. CountInv
      <4>1. TakenBy \in SUBSET Takers BY DEF TakenBy
      <4>2. Cardinality(TakenBy) \in Nat BY <1>0, <4>1, FS_Subset, FS_CardinalityType DEF Roomy
      <4> QED BY <4>2 DEF Init, CountInv
    <3>2. \A p \in Proc : StagingInv(p) /\ lock # p
      BY StoreApplyAssumption DEF Init, StagingInv, Before, Writer
    <3>3. edited = {} BY DEF Init
    <3> QED BY <3>1, <3>2, <3>3 DEF KeptInv
  <2> QED BY <2>1, <2>2, <2>3, <2>4, <2>5, InitMarks
<1>2. TypeInv /\ Inv /\ [Next]_vars => Inv'
  <2> SUFFICES ASSUME TypeInv, Inv, [Next]_vars PROVE Inv' OBVIOUS
  <2> QED BY <1>0, NextHolderInv, NextMarks, NextStagedThere, NextPick, NextEdited, NextKept
<1>3. Inv => HandEditKept
  <2> SUFFICES ASSUME KeptInv, NEW e \in edited
      PROVE LET copies == {s \in saved : s.file = e.file /\ s.n = e.n} IN
            CASE e.file = "art" -> \E x \in {art[e.n]} \cup {s.text : s \in copies} : <<"art", e.edit>> \in x
              [] e.file = "store" -> e.edit \in store \cup UNION ({s.text : s \in copies} \cup {s.store : s \in snaps})
              [] e.file = "conf" -> e.edit \in conf \cup UNION ({s.text : s \in copies} \cup {s.conf : s \in snaps})
    BY DEF HandEditKept
  <2>1. KeptEdit(e) BY DEF KeptInv
  <2>2. CASE e.file = "art" BY <2>1, <2>2 DEF KeptEdit, InCopy
  <2>3. CASE e.file = "store" BY <2>1, <2>3 DEF KeptEdit, InCopy, InSnaps
  <2>4. CASE e.file = "conf" BY <2>1, <2>4 DEF KeptEdit, InCopy, InSnaps
  <2> QED BY <2>1, <2>2, <2>3, <2>4 DEF KeptEdit
<1> HIDE DEF Inv
<1> QED BY <1>1, <1>2, <1>3, InitTypeInv, NextTypeInv, PTL DEF Spec

============================================================================
