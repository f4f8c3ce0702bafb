---------------------------- MODULE StoreApply ----------------------------
(***************************************************************************)
(* The commands that change the server's configuration: StoreApply (every  *)
(* command that changes the store), ConfigRender, ApplyForced as 'backup   *)
(* restore' runs it, and a plain write of tacctl.yaml                       *)
(* (internal/backend/apply.go, backend/render.go, render/tacacs/stage.go,  *)
(* backend/radius/render.go, rendered, snapshot, conf/write.go).            *)
(*                                                                         *)
(* They share store.yaml, tacctl.yaml, the generated files, rendered.json, *)
(* the snapshots and the apply lock; an administrator with an editor        *)
(* shares the files and takes no lock.  Any command may be killed between  *)
(* any two steps.                                                           *)
(*                                                                         *)
(* A file's content is the set of the changes it holds: the commands that  *)
(* wrote to it and the hand edits made in it; a generated file's is the    *)
(* set of what it shows of the store and of tacctl.yaml, and of its own     *)
(* edits.  A checksum in rendered.json is the content it was taken of.  The *)
(* lock is one atomic step here; that flock and the in-process mutex amount *)
(* to that is module ApplyLock.                                             *)
(***************************************************************************)
EXTENDS Integers, FiniteSets

CONSTANTS
  Appliers,     \* commands that are a StoreApply
  Renderers,    \* 'tacctl config render'
  Forced,       \* the Renderers given --force
  Restorers,    \* 'tacctl backup restore'
  ConfWriters,  \* commands that only write a tunable to tacctl.yaml
  TacacsOnly,   \* the Appliers whose change the RADIUS files do not show
  Hand,         \* the hand edits that may be made
  FileEditAt,   \* phases in which store.yaml and tacctl.yaml are edited
  ArtEditAt,    \* phases in which a generated file is edited
  NArt,         \* generated files: tacquito.yaml, then RADIUS's in order
  Retention,    \* snapshots kept
  Faults,       \* what may fail: see Fault
  NoOne,        \* the apply lock is free
  NoFile        \* the file, or its record, does not exist

Proc == Appliers \cup Renderers \cup Restorers \cup ConfWriters
Token == Proc \cup Hand
Art == 1 .. NArt
Fault == {"copy", "writer", "render", "install", "record", "snapshot", "restart", "crash"}

ASSUME StoreApplyAssumption ==
  /\ NArt \in Nat \ {0} /\ Retention \in Nat \ {0}
  /\ Faults \subseteq Fault /\ Forced \subseteq Renderers
  /\ TacacsOnly \subseteq Appliers
  /\ NoOne \notin Proc /\ Hand \cap Proc = {}
\* A command is of one kind.
ASSUME KindAssumption ==
  /\ Appliers \cap (Renderers \cup Restorers \cup ConfWriters) = {}
  /\ Renderers \cap (Restorers \cup ConfWriters) = {}
  /\ Restorers \cap ConfWriters = {}
\* A file that is not there has no content.
ASSUME NoFileAssumption == \A x \in SUBSET ({"store", "conf", "art"} \X Token) : x # NoFile

\* tacquito.yaml is the TACACS+ backend's; the others are RADIUS's.
BackendOf(a) == IF a = 1 THEN 1 ELSE 2
Backend == {BackendOf(a) : a \in Art}
FilesOf(b) == {a \in Art : BackendOf(a) = b}

VARIABLES
  store,    \* store.yaml
  conf,     \* tacctl.yaml ({}: no override is left, so no file)
  art,      \* the generated files
  recd,     \* rendered.json: the checksum recorded for each
  daemon,   \* the content each file had when its daemon last started
  snaps,    \* the snapshots; a newer one has the higher id
  saved,    \* the overwritten-<stamp> and legacy/*.drift copies
  edited,   \* the hand edits made
  lock,     \* the holder of the apply lock
  pc,       \* where each command is
  job,      \* what each command holds in memory and in its .apply.* directory
  out       \* how each command ended

disk == <<store, conf, art, recd, daemon, snaps, saved>>
vars == <<store, conf, art, recd, daemon, snaps, saved, edited, lock, pc, job, out>>

Content == SUBSET Token
ArtContent == (SUBSET ({"store", "conf", "art"} \X Token)) \cup {NoFile}
Word == {"none", "ok", "current", "same", "drift", "missing", "unrecorded"}
Ended == {"start", "done", "dead"}
Phase == Ended \cup {"wait", "gate", "snapshot", "copy", "write_store", "write_conf",
          "post", "stage", "keep", "install", "record", "restore", "restore_rec",
          "undo_store", "undo_conf", "restart", "edit", "unlock"}

Files(s, c) == [store |-> s, conf |-> c]

NoJob == [view |-> {}, pick |-> 0, keep |-> Files({}, {}), post |-> Files({}, {}),
          werr |-> FALSE, force |-> {}, next |-> 1, staged |-> [a \in Art |-> {}],
          word |-> [a \in Art |-> "none"], keptArt |-> [a \in Art |-> NoFile],
          keptRec |-> [a \in Art |-> NoFile], changed |-> {},
          at |-> [store |-> {}, conf |-> {}, art |-> [a \in Art |-> NoFile],
                  recd |-> [a \in Art |-> NoFile], source |-> {}]]

\* Every state of the generated files a command may find: each there or not,
\* recorded or not (an install that never rendered, a file restored by hand).
Init ==
  /\ store = {} /\ conf = {}
  /\ art \in [Art -> {NoFile, {}}]
  /\ recd \in [Art -> {NoFile, {}}]
  /\ daemon = art
  /\ snaps = {[id |-> 1, store |-> {}, conf |-> {}]}
  /\ saved = {} /\ edited = {}
  /\ lock = NoOne
  /\ pc = [p \in Proc |-> "start"]
  /\ job = [p \in Proc |-> NoJob]
  /\ out = [p \in Proc |-> "none"]

----------------------------------------------------------------------------
(* The renderers and the render records.                                    *)

\* What file a says when it is rendered from a store and a view of
\* tacctl.yaml: everything in them but the settings it does not show.
Render(a, s, c) ==
  LET hidden == ConfWriters \cup (IF a = 1 THEN {} ELSE TacacsOnly) IN
  ({"store"} \X (s \ hidden)) \cup ({"conf"} \X (c \ hidden))

Status(a) ==
  IF art[a] = NoFile THEN "missing"
  ELSE IF recd[a] = NoFile THEN "unrecorded"
  ELSE IF art[a] = recd[a] THEN "ok" ELSE "drift"

\* Mutant: LiveStatus without the record: a file already as rendered is never recorded.
LiveStatusSame(a, bytes) == IF art[a] # bytes THEN Status(a) ELSE "current"

\* LiveStatus: the live file against the bytes just rendered for it.
LiveStatus(a, bytes) ==
  IF art[a] # bytes THEN Status(a)
  ELSE IF Status(a) = "ok" THEN "current" ELSE "same"

Displaces(word) == word \in {"drift", "unrecorded"}

----------------------------------------------------------------------------
(* Steps every command is made of.                                          *)

Go(p, phase) == pc' = [pc EXCEPT ![p] = phase]

\* The command's verdict is in; what is left is to give the lock back.
Verdict(p, v) == Go(p, "unlock") /\ out' = [out EXCEPT ![p] = v]

\* Once the writer has run, a failure puts the store and tacctl.yaml back; a
\* plain render has written neither.
Undo(p) ==
  IF p \in Renderers THEN Verdict(p, "failed")
  ELSE Go(p, "undo_store") /\ UNCHANGED out

\* WarnConf: a command reads tacctl.yaml once, as it starts; 'backup restore'
\* also settles which snapshot it will read, and asks.
Start(p) ==
  /\ pc[p] = "start"
  /\ \E pick \in IF p \in Restorers THEN {s.id : s \in snaps} ELSE {0} :
       job' = [job EXCEPT ![p] = [NoJob EXCEPT
                 !.view = conf,
                 !.pick = pick,
                 !.force = IF p \in Restorers \cup Forced THEN Backend ELSE {}]]
  /\ Go(p, "wait")
  /\ UNCHANGED <<disk, edited, lock, out>>

First(p) ==
  IF p \in Appliers THEN "gate"
  ELSE IF p \in Renderers THEN "stage"
  ELSE IF p \in Restorers THEN "snapshot" ELSE "edit"

\* The snapshot a restore is to read, while it is there.
Picked(p) == {s \in snaps : s.id = job[p].pick}

\* What a command finds when it has the lock (kept for the properties).
Found(p) == [store |-> store, conf |-> conf, art |-> art, recd |-> recd, source |-> Picked(p)]

\* HoldApply: the lock is had, or Ctrl-C ends the wait.
Acquire(p) ==
  /\ pc[p] = "wait" /\ lock = NoOne
  /\ lock' = p
  /\ job' = [job EXCEPT ![p].at = Found(p)]
  /\ Go(p, First(p))
  /\ UNCHANGED <<disk, edited, out>>

CancelWait(p) ==
  /\ pc[p] = "wait" /\ lock # NoOne
  /\ out' = [out EXCEPT ![p] = "cancelled"]
  /\ Go(p, "done")
  /\ UNCHANGED <<disk, edited, lock, job>>

\* Gate: a hand-edited file stops the command, and so does one tacctl has no
\* record of, except a tacquito.yaml that says what the store says: that one
\* is adopted (rendered with force).
Adoptable(a) == a = 1 /\ {x \in art[a] : x[1] # "conf"} = {"store"} \X store

\* Mutant: a gate that adopts every file it should refuse.
GateOpen(p) ==
  /\ pc[p] = "gate"
  /\ job' = [job EXCEPT ![p].force = {BackendOf(a) : a \in {x \in Art : Displaces(Status(x))}}]
  /\ Go(p, "snapshot")
  /\ UNCHANGED <<disk, edited, lock, out>>

\* The word of one file's gate.
GateRefuses(a) == Status(a) = "drift" \/ (Status(a) = "unrecorded" /\ ~Adoptable(a))

Gate(p) ==
  /\ pc[p] = "gate"
  /\ \/ /\ \E a \in Art : GateRefuses(a)
        /\ Verdict(p, "refused")
        /\ UNCHANGED job
     \/ /\ \A a \in Art : ~GateRefuses(a)
        /\ job' = [job EXCEPT ![p].force = {BackendOf(a) : a \in {x \in Art : Status(x) = "unrecorded"}}]
        /\ Go(p, "snapshot")
        /\ UNCHANGED out
  /\ UNCHANGED <<disk, edited, lock>>

\* Mutant: retention without KeepID.
PrunedAll(S, keepID) == {s \in S : Cardinality({t \in S : t.id > s.id}) < Retention}

\* Retention: the newest are kept, and the one a restore is reading (KeepID).
Pruned(S, keepID) ==
  {s \in S : Cardinality({t \in S : t.id > s.id}) < Retention \/ s.id = keepID}

Newest == CHOOSE s \in snaps : \A t \in snaps : t.id <= s.id

\* Take: no second snapshot of the state the newest one holds.
Snapshot(p) ==
  /\ pc[p] = "snapshot"
  /\ \/ /\ Newest.store = store /\ Newest.conf = conf
        /\ UNCHANGED <<snaps, out>>
        /\ Go(p, "copy")
     \/ /\ Newest.store # store \/ Newest.conf # conf
        /\ snaps' = Pruned(snaps \cup {[id |-> Newest.id + 1, store |-> store, conf |-> conf]}, job[p].pick)
        /\ UNCHANGED out
        /\ Go(p, "copy")
     \/ /\ "snapshot" \in Faults
        /\ UNCHANGED snaps
        /\ Verdict(p, "failed")
  /\ UNCHANGED <<store, conf, art, recd, daemon, saved, edited, lock, job>>

\* Mutant: the copy of tacctl.yaml is what the command read as it started.
CopyStale(p) ==
  /\ pc[p] = "copy"
  /\ job' = [job EXCEPT ![p].keep = Files(store, job[p].view)]
  /\ Go(p, "write_store")
  /\ UNCHANGED <<disk, edited, lock, out>>

\* The copies under <state>/.apply.* that a failure puts back; without them
\* nothing is changed.
Copy(p) ==
  /\ pc[p] = "copy"
  /\ \/ /\ job' = [job EXCEPT ![p].keep = Files(store, conf)]
        /\ Go(p, "write_store")
        /\ UNCHANGED out
     \/ /\ "copy" \in Faults
        /\ UNCHANGED job
        /\ Verdict(p, "failed")
  /\ UNCHANGED <<disk, edited, lock>>

\* runWriter.  A StoreApply's writer reads, changes and replaces each file
\* (store.Mutate, conf.edit); a restore's writer installs the snapshot's, which
\* is an error when the snapshot is gone.
WriterFails(p) ==
  /\ pc[p] \in {"write_store", "write_conf"}
  /\ "writer" \in Faults \/ (p \in Restorers /\ Picked(p) = {})
  /\ job' = [job EXCEPT ![p].werr = TRUE]
  /\ Go(p, "post")
  /\ UNCHANGED <<disk, edited, lock, out>>

WriteStore(p) ==
  /\ pc[p] = "write_store"
  /\ \/ p \in Appliers /\ store' = store \cup {p}
     \/ p \in Restorers /\ \E s \in Picked(p) : store' = s.store
  /\ Go(p, "write_conf")
  /\ UNCHANGED <<conf, art, recd, daemon, snaps, saved, edited, lock, job, out>>

WriteConf(p) ==
  /\ pc[p] = "write_conf"
  /\ \/ p \in Appliers /\ conf' = conf \cup {p}
     \/ p \in Restorers /\ \E s \in Picked(p) : conf' = s.conf
  /\ Go(p, "post")
  /\ UNCHANGED <<store, art, recd, daemon, snaps, saved, edited, lock, job, out>>

\* The writer is done: tacctl.yaml is read again, and what the writer left is
\* noted for the guard of the rollback.
Post(p) ==
  /\ pc[p] = "post"
  /\ job' = [job EXCEPT ![p].view = conf, ![p].post = Files(store, conf)]
  /\ IF job[p].werr THEN Undo(p) ELSE Go(p, "stage") /\ UNCHANGED out
  /\ UNCHANGED <<disk, edited, lock>>

----------------------------------------------------------------------------
(* RenderAll: stage every backend, copy aside, commit every file, or none.  *)

\* The stage of backend b finds a file that only force may replace.
StageRefuses(p, b) ==
  b \notin job[p].force /\ \E a \in FilesOf(b) : Displaces(LiveStatus(a, Render(a, store, job[p].view)))

\* One backend is staged: the store is read from disk, tacctl.yaml is the
\* command's view.  A file that is not what tacctl rendered refuses unless the
\* backend is forced.
Stage(p) ==
  LET b == job[p].next
      new(a) == Render(a, store, job[p].view)
      word(a) == LiveStatus(a, new(a)) IN
  /\ pc[p] = "stage"
  /\ \/ /\ "render" \in Faults \/ StageRefuses(p, b)
        /\ Undo(p)
        /\ UNCHANGED job
     \/ /\ ~StageRefuses(p, b)
        /\ job' = [job EXCEPT
             ![p].staged = [a \in Art |-> IF a \in FilesOf(b) THEN new(a) ELSE @[a]],
             ![p].word = [a \in Art |-> IF a \in FilesOf(b) THEN word(a) ELSE @[a]],
             ![p].next = IF b + 1 \in Backend THEN b + 1 ELSE 1]
        /\ Go(p, IF b + 1 \in Backend THEN "stage" ELSE "keep")
        /\ UNCHANGED out
  /\ UNCHANGED <<disk, edited, lock>>

\* Every generated file and rendered.json are copied aside (a Ctrl-C seen
\* here fails the render).
Keep(p) ==
  /\ pc[p] = "keep"
  /\ \/ /\ "render" \in Faults
        /\ Undo(p)
        /\ UNCHANGED job
     \/ /\ job' = [job EXCEPT ![p].keptArt = art, ![p].keptRec = recd]
        /\ Go(p, "install")
        /\ UNCHANGED out
  /\ UNCHANGED <<disk, edited, lock>>

\* Past the last file the commit is done.
NextFile(p, changed) ==
  /\ job' = [job EXCEPT ![p].next = IF @ = NArt THEN 1 ELSE @ + 1, ![p].changed = changed]
  /\ Go(p, IF job[p].next = NArt THEN "restart" ELSE "install")

CommitFails(p) ==
  /\ job' = [job EXCEPT ![p].next = 1]
  /\ Go(p, "restore")

\* The copy of a file that tacctl did not write, taken before it is replaced.
SaveDisplaced(a) == [file |-> "art", n |-> a, text |-> art[a]]

\* One file is installed by a rename, a displaced one kept first.  A file
\* already as rendered is left alone, and only recorded when it was not.
Install(p) ==
  LET a == job[p].next
      word == job[p].word[a] IN
  /\ pc[p] = "install"
  /\ \/ /\ word = "current"
        /\ NextFile(p, job[p].changed)
        /\ UNCHANGED <<art, saved>>
     \/ /\ word = "same"
        /\ Go(p, "record")
        /\ UNCHANGED <<art, saved, job>>
     \/ /\ word \notin {"current", "same"}
        /\ art' = [art EXCEPT ![a] = job[p].staged[a]]
        /\ saved' = IF Displaces(word) THEN saved \cup {SaveDisplaced(a)} ELSE saved
        /\ Go(p, "record")
        /\ UNCHANGED job
     \/ /\ "install" \in Faults /\ word \notin {"current", "same"}
        /\ CommitFails(p)
        /\ UNCHANGED <<art, saved>>
  /\ UNCHANGED <<store, conf, recd, daemon, snaps, edited, lock, out>>

\* Mutant: a replaced file that is not reported as changed.
RecordUnchanged(p) ==
  /\ pc[p] = "record"
  /\ recd' = [recd EXCEPT ![job[p].next] = art[job[p].next]]
  /\ NextFile(p, job[p].changed)
  /\ UNCHANGED <<store, conf, art, daemon, snaps, saved, edited, lock, out>>

\* rendered.Record: the checksum of the file that is on disk now.
Record(p) ==
  LET a == job[p].next
      replaced == IF job[p].word[a] = "same" THEN {} ELSE {BackendOf(a)} IN
  /\ pc[p] = "record"
  /\ \/ /\ recd' = [recd EXCEPT ![a] = art[a]]
        /\ NextFile(p, job[p].changed \cup replaced)
     \/ /\ "record" \in Faults
        /\ CommitFails(p)
        /\ UNCHANGED recd
  /\ UNCHANGED <<store, conf, art, daemon, snaps, saved, edited, lock, out>>

\* Kept.Restore: every file back, then rendered.json.
Restore(p) ==
  LET a == job[p].next IN
  /\ pc[p] = "restore"
  /\ art' = [art EXCEPT ![a] = job[p].keptArt[a]]
  /\ job' = [job EXCEPT ![p].next = IF a = NArt THEN 1 ELSE a + 1]
  /\ Go(p, IF a = NArt THEN "restore_rec" ELSE "restore")
  /\ UNCHANGED <<store, conf, recd, daemon, snaps, saved, edited, lock, out>>

\* Mutant: a restore that leaves rendered.json.
RestoreNoRecords(p) ==
  /\ pc[p] = "restore_rec"
  /\ Undo(p)
  /\ UNCHANGED <<disk, edited, lock, job>>

RestoreRecords(p) ==
  /\ pc[p] = "restore_rec"
  /\ recd' = job[p].keptRec
  /\ Undo(p)
  /\ UNCHANGED <<store, conf, art, daemon, snaps, saved, edited, lock, job>>

----------------------------------------------------------------------------
(* The end of a command.                                                    *)

\* Mutant: a rollback without its guard.
GuardedNever(name, now, start, post) == {}

\* guard: a file that is as it was is left alone; one that is not what the
\* writer left is a hand edit, and is saved before the copy goes back.
Guarded(name, now, start, post) ==
  IF now # start /\ now # post THEN {[file |-> name, n |-> 0, text |-> now]} ELSE {}

UndoStore(p) ==
  /\ pc[p] = "undo_store"
  /\ saved' = saved \cup Guarded("store", store, job[p].keep.store, job[p].post.store)
  /\ store' = job[p].keep.store
  /\ Go(p, "undo_conf")
  /\ UNCHANGED <<conf, art, recd, daemon, snaps, edited, lock, job, out>>

UndoConf(p) ==
  /\ pc[p] = "undo_conf"
  /\ saved' = saved \cup Guarded("conf", conf, job[p].keep.conf, job[p].post.conf)
  /\ conf' = job[p].keep.conf
  /\ Verdict(p, "failed")
  /\ UNCHANGED <<store, art, recd, daemon, snaps, edited, lock, job>>

\* RestartChanged, or RestartAll for a restore.  A restart that fails is
\* warned about and leaves the daemon as it was.
Restart(p) ==
  LET due == IF p \in Restorers THEN Backend ELSE job[p].changed IN
  /\ pc[p] = "restart"
  /\ \E up \in SUBSET due :
       /\ "restart" \in Faults \/ up = due
       /\ daemon' = [a \in Art |-> IF BackendOf(a) \in up THEN art[a] ELSE daemon[a]]
  /\ Verdict(p, "ok")
  /\ UNCHANGED <<store, conf, art, recd, snaps, saved, edited, lock, job>>

\* conf write: tacctl.yaml is read under the lock, changed and replaced.
ConfEdit(p) ==
  /\ pc[p] = "edit"
  /\ \/ conf' = conf \cup {p} /\ Verdict(p, "ok")
     \/ "writer" \in Faults /\ UNCHANGED conf /\ Verdict(p, "failed")
  /\ UNCHANGED <<store, art, recd, daemon, snaps, saved, edited, lock, job>>

Unlock(p) ==
  /\ pc[p] = "unlock"
  /\ lock' = NoOne
  /\ Go(p, "done")
  /\ job' = [job EXCEPT ![p] = NoJob]
  /\ UNCHANGED <<disk, edited, out>>

\* The process is killed: the kernel gives up its lock, the files stay.
Crash(p) ==
  /\ "crash" \in Faults /\ pc[p] \notin Ended
  /\ lock' = IF lock = p THEN NoOne ELSE lock
  /\ Go(p, "dead")
  /\ job' = [job EXCEPT ![p] = NoJob]
  /\ UNCHANGED <<disk, edited, out>>

----------------------------------------------------------------------------
(* An administrator with an editor.                                         *)

Now == IF lock = NoOne THEN "start" ELSE pc[lock]
Unused == {h \in Hand : \A e \in edited : e.edit # h}
Edit(file, a, h) == edited' = edited \cup {[file |-> file, n |-> a, edit |-> h]}

EditFile ==
  /\ Now \in FileEditAt
  /\ \E h \in Unused :
       \/ /\ store' = store \cup {h}
          /\ Edit("store", 0, h)
          /\ UNCHANGED conf
       \/ /\ conf' = conf \cup {h}
          /\ Edit("conf", 0, h)
          /\ UNCHANGED store
  /\ UNCHANGED <<art, recd, daemon, snaps, saved, lock, pc, job, out>>

EditArt ==
  /\ Now \in ArtEditAt
  /\ \E h \in Unused, a \in Art :
       /\ art[a] # NoFile
       /\ art' = [art EXCEPT ![a] = @ \cup {<<"art", h>>}]
       /\ Edit("art", a, h)
  /\ UNCHANGED <<store, conf, recd, daemon, snaps, saved, lock, pc, job, out>>

Step(p) ==
  \/ Start(p) \/ Acquire(p) \/ CancelWait(p) \/ Gate(p) \/ Snapshot(p) \/ Copy(p)
  \/ WriterFails(p) \/ WriteStore(p) \/ WriteConf(p) \/ Post(p)
  \/ Stage(p) \/ Keep(p) \/ Install(p) \/ Record(p) \/ Restore(p) \/ RestoreRecords(p)
  \/ UndoStore(p) \/ UndoConf(p) \/ Restart(p) \/ ConfEdit(p) \/ Unlock(p) \/ Crash(p)

Next == EditFile \/ EditArt \/ \E p \in Proc : Step(p)

Spec == Init /\ [][Next]_vars

----------------------------------------------------------------------------
(* Properties.                                                              *)

\* The variables have their types, and only the holder of the apply lock is
\* between its Acquire and its Unlock: the section the lock protects has one
\* command in it.
TypeOK ==
  /\ store \in Content /\ conf \in Content
  /\ art \in [Art -> ArtContent] /\ recd \in [Art -> ArtContent]
  /\ daemon \in [Art -> ArtContent]
  /\ pc \in [Proc -> Phase]
  /\ out \in [Proc -> {"none", "ok", "failed", "refused", "cancelled"}]
  /\ lock \in Proc \cup {NoOne}
  /\ \A p \in Proc : (lock = p) <=> pc[p] \notin Ended \cup {"wait"}
  /\ \A p \in Proc : job[p].next \in Art /\ job[p].word \in [Art -> Word]

\* What tacctl commands put in a file, hand edits aside.
Made(x) == x \ Hand

\* All or nothing (StoreApply's rollback, RenderAll's Restore): a command that
\* failed or was refused, whichever of its steps failed, gives the lock back
\* with the store, tacctl.yaml, every generated file and every render record
\* as it found them.
AllOrNothing ==
  \A p \in Proc :
    pc[p] = "unlock" /\ out[p] \in {"failed", "refused"} =>
      /\ Made(store) = Made(job[p].at.store) /\ Made(conf) = Made(job[p].at.conf)
      /\ \A a \in Art : art[a] = job[p].at.art[a] /\ recd[a] = job[p].at.recd[a]

\* An acknowledged change stays (the apply lock, held from before the copies
\* to after the rollback): what a command that answered ok wrote is never
\* taken back by another command's write or rollback; only a restore that was
\* not undone replaces it.
AcknowledgedStays ==
  LET quiet(r) == pc[r] \in {"start", "wait", "snapshot", "copy", "write_store"} \/ out[r] \in {"failed", "cancelled"} IN
  (\A r \in Restorers : quiet(r)) =>
    \A p \in Appliers \cup ConfWriters :
      out[p] = "ok" => p \in conf /\ (p \in Appliers => p \in store)

\* Success means rendered (RenderAll covers every enabled backend, from the
\* store on disk and the tacctl.yaml read after the writer): when a change, a
\* restore or a render is done, every generated file says what the store and
\* the tacctl.yaml the command read say, and is recorded as such, whatever
\* state an earlier command left behind when it was killed.
OkMeansRendered ==
  \A p \in Appliers \cup Renderers \cup Restorers :
    pc[p] \in {"restart", "unlock"} /\ out[p] \in {"none", "ok"} =>
      /\ p \notin Renderers => job[p].view = conf
      /\ \A a \in Art : art[a] = Render(a, store, job[p].view) /\ recd[a] = art[a]

\* A restart is not forgotten (RestartChanged under the lock): between two
\* commands every daemon of a recorded file runs the file that is installed.
DaemonIsCurrent ==
  lock = NoOne => \A a \in Art : Status(a) = "ok" => daemon[a] = art[a]

\* A hand edit is not lost (guard, SaveDisplaced, the pre-change snapshot): it
\* is still in the file it was made in, or in the copy kept of that file, or
\* in a snapshot.
HandEditKept ==
  \A e \in edited :
    LET copies == {s \in saved : s.file = e.file /\ s.n = e.n} IN
    CASE e.file = "art" -> \E x \in {art[e.n]} \cup {s.text : s \in copies} : <<"art", e.edit>> \in x
      [] e.file = "store" -> e.edit \in store \cup UNION ({s.text : s \in copies} \cup {s.store : s \in snaps})
      [] e.file = "conf" -> e.edit \in conf \cup UNION ({s.text : s \in copies} \cup {s.conf : s \in snaps})

\* Only force discards (Gate, Stage): a command that was not forced never
\* takes a hand edit out of a generated file, whatever other commands and
\* failures came before it; it is refused, or fails and leaves it there.
OnlyForceDiscards ==
  [][\A e \in edited :
       e.file = "art" /\ lock \in Appliers \cup (Renderers \ Forced) =>
         (<<"art", e.edit>> \in art[e.n] => <<"art", e.edit>> \in art'[e.n])]_vars

\* A change can be taken back (Take before the writer, KeepID): from its first
\* write on, a change or a restore has the state it found among the
\* snapshots, and a restore the snapshot it reads if it was there at all.
UndoKept ==
  \A p \in Appliers \cup Restorers :
    lock = p /\ pc[p] \notin {"gate", "snapshot"} /\ (pc[p] = "unlock" => out[p] = "ok") =>
      /\ \E s \in snaps : Made(s.store) = Made(job[p].at.store) /\ Made(s.conf) = Made(job[p].at.conf)
      /\ p \in Restorers => Picked(p) = job[p].at.source

============================================================================
