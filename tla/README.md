# A TLA+ model of tacctl

tacctl administers a TACACS+/RADIUS server, the network devices that log in
against it and the Linux hosts enrolled with it.  It keeps one store of users and
groups, renders the daemons' files from it, pushes configuration to devices under
the device's own rollback timer, and keeps accounts on hosts with a script it
runs there.  This directory holds specifications of the parts of tacctl where
several commands, an administrator's editor, a device with a clock of its own, a
script on another machine and a `kill -9` meet; TLC checks them on small
instances, and TLAPS proves the most important of their properties for every
instance.

Contents: [the system](#the-system) - [modules](#modules) -
[model and code](#model-and-code) - [the runs](#the-runs) - [bounds](#bounds) -
[fairness](#fairness) - [proofs](#proofs) - [where the code and its documentation
differ](#where-the-code-and-its-documentation-differ) - [what is left
out](#what-is-left-out) - [plan](#plan).

## The system

Every tacctl invocation is a process of its own.  There is no daemon of
tacctl: what the processes share is files, `flock`s, the device and the host.

| Component | State | Operations | Shares with |
|---|---|---|---|
| apply lock (`internal/applylock`) | a flock on `.store-apply.lock`; per process a nesting depth and the release functions out | Acquire, release, Busy | every command that writes configuration |
| store apply (`internal/backend/apply.go`, `render.go`) | copies under `.apply.*`, the command's view of `tacctl.yaml` | StoreApply, ApplyForced, RenderAll, ConfigRender, rollback | apply lock, store, conf, rendered files, snapshots, daemons |
| TACACS+ and RADIUS rendering (`render/tacacs/stage.go`, `backend/radius/render.go`) | `tacquito.yaml`; the three FreeRADIUS files | Gate, Stage, Commit, SaveDisplaced | render records |
| render records (`internal/rendered`) | `rendered.json`: a checksum per generated file | Status, LiveStatus, Record | rendering |
| `tacctl.yaml` (`internal/conf`), `store.yaml` (`internal/store`) | the two files; a cached view per process | edit, write, Mutate, Reload | an editor, which takes no lock |
| snapshots (`internal/snapshot`), backup restore (`cli/backup.go`) | numbered copies, pruned by retention | Take, prune, restoreSnapshot | store apply |
| device apply driver (`internal/devapply/driver.go`, `reconcile.go`, `lock.go`, `outcome.go`) | the transaction's place, id, window end; the per-device flock | preflight, read, load, compare, check, commit confirmed, verify, confirm, cancel, settle | the device, the applied record |
| device apply command (`cli/device_apply.go`), applied record (`devconf/store.go`) | `result`, `id`, `until` of the last apply of a device | settle, transact, pending, keep | every other command on the device |
| Junos transport (`devapply/junoscli.go`) | one held session in `configure exclusive`, one operational session | the apply words | the device |
| the Junos device (rules from `devssh/fakedev` and the lab notes in its comments) | commit history, pending window, exclusive lock | commit, commit confirmed, commit check, rollback, expiry | everyone who logs in |
| device batch runner (`devconf/batch`) | the dispatcher's lists, the board's rows, one channel of results, the pause's timer | Run: pick, start, pause, take a result, stop; the signals (`cli/device_batch.go`) | its workers, the operator's Ctrl-C |
| askpass agent (`internal/askpass`) | the password in a locked page, the line's token and counters, the queue of notices | BeginLine, EndLine, Forget, Flush, Close; have, get, store, forget over a socket | the shell and the commands of its lines |
| UID ledger (`hosts/uids.go`, `installer.go`, `cli/linux.go`) | `/etc/tacctl/linux-uids`: a number per name, the range it is numbered for and the earlier ones | For, Assign, MoveUser, RenumberTo, BuildScript | `tacctl.yaml`, the store, the hosts' scripts |
| accounts of a host (`config/linux/client-install.sh`) | the host's passwd and the script's `created` and `expired` lists | rename, check, renumber, create, open, expire, delete | the ledger, by way of the script's text |
| rotation (`cli/host_provisioner.go`, `hosts/rotate*.go`) | the registry's login of a host, the record of the last rotation, the host's lock; on the host the account, its credentials, its sudoers line and root's record of it | rotate, `--remove-old`, the create and the remove script, `host target` | the registry, the host |

The other components (NETCONF transport, chassis members, enrolment, lifecycle,
firewall hold, registry, plan and text parsers, reports) are listed in
`PROJECT.json` with the reason they are not modelled, or not yet.

How they interact.  A command that changes users or settings takes the apply
lock, checks that no generated file was edited, snapshots, copies `store.yaml`
and `tacctl.yaml` aside, lets its writer replace them, renders every enabled
backend into a stage, installs the files one by one with a record each, restarts
the daemons whose files changed, and gives the lock back; a failure anywhere
puts back what was replaced.  A device apply never takes that lock.  It first
settles the record an earlier apply left, takes the device's own lock without
waiting, and runs a long conversation with a device on which other people type
too; its confirmed commit starts a timer *on the device*, and from there on
whatever happens to the process the device goes back by itself unless a commit
(or a `commit check`, from anyone) keeps the change.  Over many devices the batch
runner calls such jobs from a pool.  A host's script is written from the store and
the ledger, each read at a moment of its own, and runs on the host when it gets
there; a rotation runs two scripts of its own over the very login it replaces.

What is hard here, and what makes each part correct:

* *apply lock*: releases in any order, called twice, by a process that is
  killed; the probe of `Busy` that takes the flock for an instant.  Correct: one
  holder; the flock goes with the last release; a waiter gets in.
* *store apply*: a failure or a kill between any two of its steps; a value read
  before the wait for the lock and used after it; an editor at work meanwhile.
  Correct: all or nothing; an acknowledged change is not taken back by someone
  else's rollback; hand edits survive; the next success repairs what a kill
  left.
* *device apply*: a lost answer, a lost session, a window that ends while the
  cancel is prepared, a stranger's commit that shifts the rollback numbers, a
  banner that is not printed, a record written by the wrong command.  Correct:
  the exit tacctl names is what the device did; nothing but the reviewed change
  is committed; nobody else's window is ended; a change is kept only when it was
  proven on a fresh login; a record that is left open can be settled.
* *batch*: a result, an interrupt, a cancellation and the end of a pause that are
  ready at once, of which Go's `select` takes any.  Correct: every job has one
  result, a follower runs only behind a canary that succeeded, what stops a run
  stops it in time, and `Run` returns.
* *askpass*: requests of an earlier line anywhere between their check and their
  effect; a clock that is set back; a close with handlers at work.  Correct: the
  password goes to the running line only, as often as allowed, inside its
  lifetimes; nothing touches a released page; the notices are true.
* *numbers and accounts*: rows, range and ledger read at three moments; scripts of
  different ages; users logged in.  Correct: a number has one user and goes to no
  second person; an account follows its number; no account is handed to another
  person, deleted under its user or taken from the host's own people.
* *rotation*: a command, a script that outlives it and a second writer of the
  registry.  Correct: the registry's login always gets in, and no rotation costs it
  its root; no grant without an account and a record, and what the command says is
  left is what is left.

`PROJECT.json` lists these hazards at their source lines, with the property that
would catch each going wrong, or the reason none does.

## Modules

| Module | What it is |
|---|---|
| `Mutex` | abstract specification of a reentrant lock as its callers see it: grants that are out, all of one client, each given back once |
| `ApplyLock` | the apply lock; implements `Mutex` |
| `StoreApply` | StoreApply, config render, backup restore and a tunable write, over the shared files; takes the lock as one atomic step, which `ApplyLock` justifies |
| `DeviceApply` | the device, the driver, the transport's words, the command around them and the applied record |
| `Batch` (`MCBatch`) | the batch runner: dispatcher, workers, results, pauses, interrupts |
| `Askpass` (`MCAskpass`) | the password agent of a shell session |
| `UIDLedger` (`MCUIDLedger`) | the ledger and every command that reads or writes it |
| `HostAccounts` (`MCHostAccounts`) | extends `UIDLedger` with one host and the script that keeps its accounts |
| `Rotate` (`MCRotate`) | the rotation's command, its scripts, and `host target` |
| `ApplyLock_proofs`, `StoreApply_proofs`, `DeviceApply_proofs`, `Batch_proofs`, `Askpass_proofs`, `UIDLedger_proofs`, `HostAccounts_proofs`, `Rotate_proofs` | the theorems about each |

The specifications that are proved about are self-contained: each `.cfg` gives
the constants of the module itself, so what TLC checks and what TLAPS proves is
the same text.  The `MC` modules only add the values a `.cfg` cannot write
(records, sequences) and the symmetry.  Definitions whose comment begins with
"Mutant", "(mutant)" or "A bug" are not part of any specification: they are
plausible wrong versions of the definition after them, kept to show that the
properties notice.

## Model and code

`PROJECT.json` maps each definition to its lines.  The correspondences that are
not obvious from the names:

**ApplyLock.**  `flock` is the *open file description* that holds the flock, so
`Busy`'s own descriptor and `Acquire`'s are different clients, as for the kernel.
`depth` is `Lock.depth`; `live` is the set of release functions whose `sync.Once`
has not run, and what `Mutex` sees of the module (`Granted`): the kernel's flock is
no part of the refinement.  The flock loop is `try` (before the system call) and `wait` (in
the `select`).  `Exit` is both the normal end and a kill: the kernel closes the
descriptors.

**StoreApply.**  A file's content is the *set of changes it holds*: the commands
that wrote to it and the hand edits made in it.  A generated file's content is
what it shows of the store and of the view of `tacctl.yaml` it was rendered from
(`Render`), with its own hand edits; a checksum is the content it was taken of.
`job[p].view` is the process's cached `tacctl.yaml`, read at the start and
reloaded where the code reloads it (`Post`).  `keep` and `post` are the copies
under `.apply.*` and the states `guard` compares with.  The steps are the code's:
`Gate`, `Snapshot`, `Copy`, `WriteStore`, `WriteConf`, `Post`, `Stage` (one per
backend), `Keep`, `Install` and `Record` (a pair per file), `Restore` (one per
file), `RestoreRecords`, `UndoStore`, `UndoConf`, `Restart`, `Unlock`.
`job[p].at` and `edited` are history variables for the properties.

**DeviceApply.**  The configuration is a set of facts: `"c"` is the reviewed
change, `"x"` stands for everything else.  `hist` is the device's commit
history, oldest first, so `rollback k` is `hist[Top - k]`; `pend` is the pending
confirmed commit with the configuration it goes back to; an entry names the
apply whose id its comment carries.  Time is time left: `Tick` counts down the
device's timer, `run.windowEnd` (`win`) and `Outcome.Until` (`until`) together,
so clocks agree and only their *margins* matter.  `excl` is who really holds the
exclusive candidate, `held[p]` what the process believes: they differ between
the loss of the session and the next word.  `rec` is the applied record, read
by `Begin`, written by `Answer` (the pending record), `Reconciled` and `Keep`.
`ground` is a history variable: what really became of each process's confirmed
commit, updated only by the device's own rules.  `Settle`, `Fate` and the three
compare steps are `settle`, `fate` and `byRollbacks`: the state is read once, the
two compares are made against rollback numbers as they are *then*, and the state
is read again.  Other people's commits (`StrangerCommit`, `StrangerConfirmed`,
`StrangerCheck`) come between any two words whenever the exclusive lock lets
them; the constant `CheckUnderLock` says that a `commit check` is let through
even then, which is the cautious reading.

**Batch.**  One dispatcher owns everything, so its variables are one record `run`
and each message it takes is one step: `TakeResult` is the whole chain from the
cancellation noticed first (`NoticeFirst`) over the entry and the counts
(`Ended`), the canary (`AfterCanary`, `SkipShape`) to the stops (`AfterFailure`).
`fill` and `select` are the two halves of its loop.  The messages are a sequence of
capacity `N`, the channel's; a worker's `Report` waits for room or for the end of
the run, its `SendEnd` for room only.  `Settled` is `runJob`'s reading of a failure
against the contexts and the deadline as they are when the job returns.
`MCBatch` calls `Run` in four ways; `run.rest` is history for the pauses.

**Askpass.**  A token is the number of the line it was minted for (`gen` grows at
the begin and at the end of a line, so a line's own number is even).  A connection
goes `header`, `checked` (its token matched), and for a store `body` (the staging
lock is held, the bytes are not there) and `staged`; what happens under the agent's
mutex is one step, what happens between two of its sections is not.  Each section
expires first, as the code does (`Held`).  `deliver` is the goroutine of the
notices with its channel of capacity one; a `barrier` in the queue is `Flush`.

**UIDLedger.**  The ledger is `nums` (0 for no line), the recorded range and the
earlier ones.  `For`, `Assign`, `MoveUser` and `RenumberTo` with its three refusals
are operators on it; commands are the steps that read the range (`Begin`), the rows
(`ReadRows`) and take the lock (`BuildBegin`).  A range change is the check, the two
writes of `tacctl.yaml` and the renumbering.  The *person* behind a name (`who`,
`line`, `given`) is not in the code: it is what "a later user never inherits a
number" is about.

**HostAccounts.**  `RunScript` is the script from `rename_accounts` over `check_ids`
to `sync_accounts`, run as a whole at any time after it was written (`Run`), with any
of tacctl's accounts in use (`busy`).  Each of its loops is a set comprehension where
the rounds do not meet, and round by round in the rows' order where they do
(`ListOne`, `Rounds`).
`owner` is the person an account was made for, `off` one created beside its number.

**Rotate.**  The command (`cmd`) and the script it runs on the host (`scr`) are two
processes: `scr[c].conn` is `up` while the command hears of the script's end, `gone`
when the command or its connection is, and the host then hangs the script up at
some later step.  The script's steps are its lines in their order, each of which may
fail; `set -e` and the traps are `CreateFails`, `Signalled` and `HangUp`, the last
with and without a terminal to write to.  `LogsIn` is what ssh lets
in, `Works` a login with root behind it.  A rotation asks for the second (`Prove`);
`host target` on a terminal takes the first with a warning, and `rootless` says that
the registry's line is such a one.
`stuck` and `crossed` are history: accounts whose line a script could not take out,
and whether two have been at work on one account at once.

## The runs

TLC explores every run completely; the number of distinct states is in brackets,
after symmetry where a run uses it.

*Apply lock*

* `apply_lock` (208 thousand): two processes nest, probe, wait, are interrupted
  and die.  The flock is held exactly while a release is out (`FlockIsDepth`); an
  interrupt never refuses a lock that is free (`FreeLockNotRefused`); a waiter
  leaves the loop (`WaiterProceeds`); and what the callers hold implements `Mutex`
  (`AbstractSpec`): from the return of one process's Acquire to its release no other
  process's Acquire returns.  An answer of `flock` misread, a level miscounted or a
  release that counts twice would break it.

*Device apply*

* `device_apply_silent` (204 thousand): one apply on a device whose fresh
  login may print no banner, with a commit or a check of someone else, panics,
  interrupts, kills, lost sessions and record writes that fail.  The exit named is
  what the device did (`ExitIsTrue`); a record that says an apply is over never
  stands while the device still runs the change under its timer
  (`SettledMeansOver`).
* `device_apply_two` (2.9 million): an apply and a `check` on one device, each
  of which may find and settle what the other, killed or failed, left, while
  someone else commits, commits confirmed or checks.  The two never type at once
  (`OneTransaction`); the fate a later command writes over a pending record is what
  became of that apply (`SettleIsTrue`); tacctl ends nobody else's window
  (`EndsOnlyItsOwnWindow`) and commits nothing but the reviewed change, also when
  the configuration moved under it (`OnlyTheReviewedChange`).  What its words make
  permanent is what stood before the window and the change that its own fresh login
  proved (`PermanentOnlyProven`): a cancel typed as the window ends, when `rollback 1`
  has become the change itself, does not bring it back.  Whatever was killed, lost,
  interrupted or panicked after the typed commit, a record that is left open gives
  the end of its window, and once that is over the next command can settle it
  (`OpenRecordSettles`; until it has, every apply on the device is refused).
  `ExitIsTrue` again.
* `device_apply_record` (violation): see [below](#where-the-code-and-its-documentation-differ).

*Store apply*

* `store_apply_fail` (5.2 million): a change, a restore, a forced render and
  a tunable write at once, any step of which may fail, while an administrator
  edits generated files between commands and `store.yaml` and `tacctl.yaml` also
  while a command renders or rolls back.  A command that failed leaves every file
  and record as it found it (`AllOrNothing`); between commands the daemons run what
  is installed (`DaemonIsCurrent`); the state a command changed, and the snapshot
  a restore reads, are there to go back to (`UndoKept`); no edit is lost
  (`HandEditKept`), and only a forced command takes one out of a generated file
  (`OnlyForceDiscards`).
* `store_apply_crash` (395 thousand): two changes and a forced render that may be
  killed between any two steps, with restarts and records that fail.  Whatever a
  kill left, the next command that succeeds has rendered everything from the
  files as they are (`OkMeansRendered`); a change that was acknowledged is not
  taken back by another command's write or rollback (`AcknowledgedStays`).

*Batch*

* `batch` (494 thousand): three jobs, called in four ways (two canaries with a follower
  and a failure budget; a canary, a job without a shape and pauses; no canaries and
  a budget of one, with two workers and with one), with two interrupts and a
  cancellation at any time.  `AllAccounted`, `CanaryDecides`, `StopsAreKept`,
  `FullPauseBeforeStart`, and `Run` returns (`RunReturns`).

*Askpass*

* `askpass_lines` (6.8 million): two lines and three requests of either at every
  stage, the clock running and set back, the agent closing.  A line gets the
  password at most `MaxGets` times (`GetsPerLine`); a request of an earlier line
  gets and changes nothing, and nothing expired is sent
  (`GrantedToTheRunningLine`); a staged password is nowhere but in the store that
  reads it, and a released page is empty with nobody at work on it
  (`PageIsClean`); the last notice told is true (`NoticesAgree`).
* `askpass_live` (96 thousand): an expired password is forgotten without a
  request (`ExpiredIsForgotten`); `Close` and `Flush` return (`CallsReturn`).

*Hosts*

* `uid_ledger` (2.8 million): two users added, removed, disabled, renamed and added
  again, a number set by hand and a range change between any two steps of two
  commands.  Two users never have one number (`NumbersUnique`); as long as nobody
  sets one by hand or moves the range, none goes to a second person
  (`NeverReused`).
* `host_accounts` (694 thousand): from a ledger and a host of an old release: two
  people, three names, two renames, a removal or a disable, a range change, a local
  account at a number of the range, and scripts that arrive late and while users
  are logged in.  An account is at its person's number, or at the same offset of an
  earlier range (`NumberIsTheLink`); no run renames one person's account to another's
  name (`NoHandover`) or deletes the account of someone the script names
  (`UsersKeepAccounts`); the local account is never touched (`LocalUntouched`).
  Names are not given to a second person here and the range is moved while no
  script is under way: the documentation asks the operator for the first, and the
  list [below](#where-the-code-and-its-documentation-differ) says what happens
  otherwise.
* `rotate` (2.0 million): three commands over three accounts, two at a time, with a
  key and a password, and any three faults: a failing step, a signal, a lost
  connection, a kill, a power cut.  The registry's login gets in after every step,
  and reaches root unless `host target` wrote, with a warning, one that does not
  (`NeverLockedOut`); no sudoers line without its account and record
  (`GrantsAreAccounted`); what a command says it left or removed is so
  (`SaysWhatIsLeft`).  All three are about behaviours in which no two have worked on
  one account at once (`~crossed`), which the code does not prevent; `crossed` is never
  reset, so TLC does not go on from a state that has it (`Promised`).

`CHECK_DEADLOCK FALSE` stands in every configuration because commands end:
a state in which every command is done and the clocks have run out is the
normal end of a behaviour.

## Bounds

* *Processes.*  Two commands are what the races here need: a holder and a
  waiter, a writer of a record and its reader.  `store_apply_fail` has four,
  one of each kind.  `device_apply_silent` has one command, `device_apply_two`
  two, each with one commit or check of someone else (`MaxStranger`), which is
  enough to shift a rollback number or to open or end a window.
* *Time.*  `Window` 3, `MinWindow` 2, `CancelMargin` 1: each margin can be hit
  exactly, missed by one, and passed.  `SettleSlack` 1 or 2 with `ExpiryLag` one
  less: the device's rollback may be as late as the slack allows and no later,
  which is what `settleSlack` assumes.  `Idle` 1 and `Max` 2 (2 and 3 in
  `askpass_live`) with `Slack` 1: either lifetime can end first, and a clock set
  back can be inside and outside the slack.
* *History.*  `HistKeep` 4 (the device keeps 50): small enough that tacctl's
  commit can fall out of the list, which `byRollbacks` must survive.
* *Files.*  `NArt` 2 is one TACACS+ and one RADIUS file: two backends, so that
  one can fail after the other was installed.  `Retention` 1 makes every
  snapshot a pruning one; 2 keeps what `HandEditKept` may look for.  Hand edits of
  `store.yaml` and `tacctl.yaml` (`FileEditAt`) come between commands and from `stage`
  to the last step of a rollback; one at the gate, the snapshot, the restart or the
  unlock is one just before the command took the lock or just after it gave it up,
  since nothing between looks at the two files.
* *Lock.*  `MaxAcquire` 3 and `MaxProbe` 2: two nested levels and a later
  acquisition, and a probe before and after it.
* *Batch.*  Three jobs are a canary, its follower and a third that is neither;
  `MaxSignals` 2 is the interrupt that spares and the one that cancels.
* *Askpass.*  `MaxGen` 5 is two lines; three requests are a first get, one beyond
  the limit and a store; `Sem` 2 lets two be served at once.
* *Ledger.*  Ranges of three numbers with two people: the range can be exhausted
  by numbers that were given up, and an offset can be outside the other range.
* *Rotation.*  Three accounts are the one in use, the new one and the one `host
  target` may name; three faults are a failure, the failure of its clean-up and a
  lost connection, or a lost command and a second run that fails and is lost too.
* Each command runs once, or as often as `MaxRuns` says.  A longer life of the
  system is a longer sequence of commands over the same files: the initial states
  of `StoreApply` include every combination of generated files there or missing,
  recorded or not.

## Fairness

Safety properties assume none.

* `ApplyLock`: weak fairness of the flock loop (`Try`, `WaitTick`: a loop with a
  100 ms ticker in a running process), of the end of a probe, and of the releases
  (they are deferred, so a command that runs reaches them).  Nothing is assumed
  about who wins a poll: the code's polls are not fair among waiters, so
  `WaiterProceeds` rests on there being finitely many commands ahead.
* `Batch`: weak fairness of the dispatcher, of the pause's timer and of each
  worker: a job has a deadline and honours its context.  Reporting progress is not
  fair, and `select` may always prefer another message.
* `Askpass`: weak fairness of the sweeper (a ticker), of each handler (its
  connection has a deadline), of the notices' goroutine (`Notify` only queues) and
  of the wait at the end of `Close`.

## Proofs

All theorems hold for every value of the constants that meets the named
assumptions: any set of commands, clients, accounts or names, any number of files
and jobs, any window and margins with `CancelMargin <= MinWindow <= Window` and
`ExpiryLag < SettleSlack`, any lifetimes and ranges, any set of faults.  A theorem
that needs more says so as its own hypothesis, named below.  Each invariant was
checked by TLC on the module's run before it was proved.

**ApplyLock_proofs.**  `LockInvariant` (`FlockIsDepth`), `LockExcludes` (mutual
exclusion), `FreeLockIsGiven` (`FreeLockNotRefused`) and `LockRefinesMutex`
(`AbstractSpec`).  The inductive
invariant adds to `FlockIsDepth` that only a process in its own code has levels
out, that the probe's flock is held exactly in `Busy`, and that the release
functions out are among those issued.  Without the second, `Busy`'s flock could
be dropped by someone else's step; without the last, a new release function
could coincide with an old one and the count would not grow.  Exclusion follows
because the flock has one holder.  The refinement is about the callers' side: it maps
the abstract grants to the release functions not yet called, so an Acquire that
returns has to be shown to find no other process with one out.  That is the
invariant again: a release function is out only while its process has levels, and
levels only while it has the flock.

**StoreApply_proofs.**  `StoreApplyType` proves `TypeOK`, whose last conjuncts
say that exactly the lock's holder is between `Acquire` and `Unlock`.  All that
follows rests on it: an invariant that speaks of the holder's files is kept by
other commands' steps because none of them is in the section.  Edits of the store
and of `tacctl.yaml` may come at any time unless a hypothesis says otherwise.

* `FailureUndone` (`AllOrNothing`), if generated files are edited only while no
  command holds the lock (`ArtEditAt \subseteq {"start"}`).  `HolderInv` says, for
  each place the holder can be in, how the disk relates to what it found: which
  places a command of its kind can be in (`KindInv`); that until the commit begins
  the generated files and records are those found, and that from then on the kept
  copies are (`ArtsInv`); and that the same holds of the store and `tacctl.yaml`
  with the copies under `.apply.*` (`FilesInv`, hand edits aside).  `AllOrNothing`
  by itself is not inductive: it says nothing of the copies a rollback will use.
* `OkIsRendered` (`OkMeansRendered`), if nobody edits a file between the stage and
  the verdict (`NoEditInRender`): a command that is done reports what it read.
  `RendersInv` carries it through the commit: what is staged is the render of the
  store and of the command's view, its word is what `rendered.json` says of the
  file that is there, and file by file install and record turn that into the file
  and its record.  It assumes nothing of what an earlier kill left; it needs that a
  file that is not there is no content (`NoFileAssumption`).
* `AcknowledgedIsKept` (`AcknowledgedStays`).  `AckInv`: while no restore is past
  its copy, the files hold every acknowledged change, and so do the copies the
  holder would roll back to, half a rollback included (`CopiesInv`); and a change
  past its writer is in the files (`PlaceInv`).  The copies are what makes it
  inductive: they were taken under the lock, so nothing was acknowledged since.
* `ChangeCanBeUndone` (`UndoKept`).  `UndoInv`: the snapshot a restore is to read is
  no newer than the newest, so the one taken before the writer never has its number,
  and retention spares both.
* `DaemonsRunFiles` (`DaemonIsCurrent`), if generated files are edited between
  commands only and there is neither a kill nor a failed restart: with either of
  those it is false, as [below](#where-the-code-and-its-documentation-differ).
  `DaemonsInv`: the daemons run the files the holder found, and what it has replaced
  since is in its list of backends to restart.  It needs `MarksInv`, that no rendered
  content and no record has a hand edit in it.
* `ForceAloneDiscards` (`OnlyForceDiscards`), if generated files are edited between
  commands only.  `EditsInv`: an unforced command forces a backend only where its
  gate found no edit, and every file is staged, and so judged, before the first is
  replaced.
* `HandEditsStay` (`HandEditKept`), under three hypotheses: generated files are edited
  between commands only, `store.yaml` and `tacctl.yaml` not between the snapshot and
  the end of the writer, and `Retention` is at least the number of changes and restores
  (finitely many).  With any of the three dropped TLC finds an edit that is gone: the
  second is the gap of `guard` described [below](#where-the-code-and-its-documentation-differ),
  and with `Retention` 1 a restore replaces an edited store and the next change prunes
  the only snapshot that has the edit.  `KeptInv` has four parts: the snapshots have
  distinct numbers, no more than one for each command past its snapshot and one
  initial, without edits, so a pruned one never held an edit (`CountInv`); in the writer
  the edits on disk are in a snapshot, and after it those of the state it left, the one
  state `guard` does not save (`WayInv`); every file is staged before the first is
  replaced, an edited one as displaced, so `SaveDisplaced` copies it (`StagingInv`); and
  each edit is in its file, a copy of it or a snapshot.

**DeviceApply_proofs.**  `DeviceApplyType` proves `TypeOK`; beyond types it needs
that a `rollback 1` about to be typed has a commit to go back to (`ShapeOK`).
`TransactionsExclude` proves `OneTransaction` from `OwnInv`: a process in the
driver works under its own id and holds the device's lock, and nobody, the
record included, names a process that has not begun.  The last part is needed
because a command that settles another's record carries that command's id
through the same compare steps, and must not be taken for its owner.
`WindowsOfOthersStand` proves `EndsOnlyItsOwnWindow` from `WinInv`: past the two
steps that look for a banner, a process that holds the exclusive candidate while
a window is open has its own confirmed commit at entry 0.  The exclusive lock
does not forbid a window to exist when the session is opened; the look does, and
from then on only the session's own commit can start one.

`OnlyTheChangeIsCommitted` (`OnlyTheReviewedChange`) and `OnlyProvenIsPermanent`
(`PermanentOnlyProven`) follow from `ChangeInv` on top of these.  It has four parts.
`Exact`: a candidate that was compared with a device without a window differs from
the running configuration in the change only, for as long as the session has the
candidate, and a cancel's candidate lacks only the change.  `Guarded`: under a
session past its looks, an open window goes back to a configuration that differs in
the change only, and only the session's own process waits for one.  `NoStray`:
without a window nobody's change is pending.  `Noted`: a process is at the confirm
only with its verification done, and a cancel about to be typed has no change in its
candidate.  `Exact` is not inductive without `Guarded`: the
timer may roll the device back between two words, and what it goes back to must
still agree with the candidate.  `Guarded` in turn needs `WinInv`, and `NoStray` for
the moment a new window is opened.  Kills, panics, lost sessions, strangers and a
device that prints no banner are all in.

`ExitsAreTrue` (`ExitIsTrue`), `SettlesAreTrue` (`SettleIsTrue`) and `RecordsAreOver`
(`SettledMeansOver`) say that what tacctl says of an apply is what the device did.
Their one hypothesis is `Told`: where a fresh login may print no banner
(`Silent`), nobody else types confirmed commits.  It is needed: without it TLC
refutes all three, as [below](#where-the-code-and-its-documentation-differ).  The
invariant is `TaleInv`, on top of all the above, with these parts:

* `LedgerInv` ties the history to the fates: a process has at most one confirmed
  commit there, it brought the change in, the commit directly after it is read as
  its confirm or its cancel only if that is what it was, and while the fate is open
  only other people's confirmed commits stand over it.
* `Course`: a process has a fate exactly from its landing on, confirms or cancels
  at most once, and what it remembers of the history's length lies before its own
  commit.  `Unnamed`: until then neither the record nor another command names it.
* `Weighs`: a settle that has gone on to compare rollbacks is about a fate that is
  decided, and its two compares are right for as long as the history has the length
  that was read, which is what the second look at the history asks.
* `Bounded`: as long as a change is under its timer, the end of the window that a
  command or the record keeps, slack included, is not before the device's (where
  strangers open windows of their own the banner tells, by `Told`).  `RecOK`
  and `Ends`: a record, or an exit on its way to one, that is not open is of an
  apply that is over.

None of the three is inductive alone.  An exit is found some steps after the history
was read, a record is written some steps after the exit was named, and in between
strangers, the timer and other commands go on; the parts above say which facts
survive that.  The argument is the same for every step: the invariant and the truth
of what the step says (`Truthful`) follow from what it does to its own process
(`Tells`) when it leaves the device alone, and otherwise from what it does to the
history (`Drift`), which everyone else's part of the invariant survives (`Bystander`).

`OpenRecordsSettle` (`OpenRecordSettles`), also under `Told`, needs one more
invariant, `DateInv`: a process from the typed commit on, an exit it may leave open,
and a record that is open all give the time the window ends.  An open record without
one would be read by `settle` as a window that still runs.  The other half is
`LedgerInv`: where the history shows the commit, and the device runs what it ran
before or after it, the reads of `settle` and `byRollbacks` cannot disagree.

**Batch_proofs.**  `EveryJobAccounted` (`AllAccounted`), `CanariesDecide`
(`CanaryDecides`), `StopsInTime` (`StopsAreKept`) and `PauseIsFull`
(`FullPauseBeforeStart`), for any number of jobs, shapes, workers, progress steps
and signals.  One invariant `Inv` carries all four; its parts are about one record
and are kept by the operators of the dispatcher (`Ended`, `AfterCanary`,
`SkipShape`, `StopFor`) one at a time, as lemmas about them.  `RunInv`: the entry, the
row and the state of a job go together, the counters count, a stop settles whatever
was not started, a canary that ended has released or settled its followers, and the
running jobs are all that may still fail (`BudgetInv`).  `ChanInv` is about the
channel: every message is of a running job, nothing follows a job's end, and the end
of a job whose goroutine is gone is on its way.  Without it a result could be taken
twice or never.  `SignalInv` says who cut the jobs off, and that an interrupt the
dispatcher has noticed is no longer waiting for it, which is why one Ctrl-C is never
taken for two.

**Askpass_proofs.**  `LineLimit` (`GetsPerLine`), `PageLeftClean` (`PageIsClean`),
`OnlyTheRunningLine` (`GrantedToTheRunningLine`) and `NoticesInOrder`
(`NoticesAgree`), for any number of
connections, requests, lines and lifetimes.  The inductive invariant has two parts
beside the types.  `LineInv`: the token is the number of the running line, the count
of gets is what that line was served, later numbers were served nothing, and a
request that passed its check carries the number it was checked under, which is
never above the current one and is the current one only while that line runs.
That last clause is what makes the second look at the line number enough: a
request that finds its number unchanged is of the line in flight.  `PageInv`: at
most one store holds the staging lock and what is staged is its own; a released
page has no handler.  `NoticeInv`: until the agent closes, the last notice that
was queued or told, barriers aside, is what the page holds.

**UIDLedger_proofs.**  `LedgerUnique` (`NumbersUnique`) and `LedgerNeverReuses`
(`NeverReused`), for any names, people, ranges and commands.  Uniqueness needs that
every range brought to the ledger starts above 0 (0 is "no line"), that the lock is
held exactly by the command inside its window, and that what `For` gives lies above
every number of its range.  No reuse needs more: as long as nobody set a number by
hand or moved the range, every number ever given in it is still at or below some
line of the ledger, and a line only ever changes its name, never its number or its
person.  The highest line is therefore above everything given, which is why the
ledger may forget nothing else.

**HostAccounts_proofs.**  The first half asks nothing of the operator.
`AccountsToldApart` (`HTypeOK`) and `LocalAccountsStay` (`LocalUntouched`) hold for
any names, ranges and scripts of any age: `HInv` adds to the ledger's invariant that
no two accounts share a name or a number and that tacctl's own are the ones with a
person.  Each part of `RunScript` keeps it by itself; the loop over the listed users
by induction on its rounds, stated over the set of the rounds that keep it
(`Induction`), which the provers can instantiate where they cannot an operator.

The second half is about the people: `NumberLinks` (`NumberIsTheLink`),
`AccountsOfUsersStay` (`UsersKeepAccounts`) and `NoAccountHandedOver` (`NoHandover`).
Their hypothesis is `Orderly`: no name is given to somebody else
(`docs/hosts/account-lifecycle.md:40` asks for it), a range is changed while no
command is between reading it and writing its script, and the ranges that are ever
set do not overlap.  `NoHandover` also needs that nobody sets a number by hand.  TLC
refutes `NoHandover` without any one of the four, all three properties when names are
reused, and `NumberIsTheLink` when the range changes under a command; for the others
it finds no counterexample on the small instances, but the proof uses the whole of
`Orderly`.  `LinkInv` follows a number from the line it was given with:

* `OrderInv`: every line lies in the recorded range (`Lawful`), a command at work has
  that range, and what the check of a range change allowed is still allowed when the
  file is renumbered.
* `StandInv`, `RowsInv`: a name stands for one person in the store, the ledger and the
  rows that commands read, also between the two halves of a rename.
* `SourceInv`: the number of a line is as far into its range (`Offset`) as one that was
  given to the line's person, in a range the ledger has been in.  `ScriptInv`, the same
  of every script that may still be run, and `HostInv`, of every account that was not
  created off its number.
* `MemoryInv`, for `NoHandover` only: whatever was given has a line as far into the
  range or further, so `NextUID` gives no offset twice.

`NumberIsTheLink` is not inductive: it speaks of the ledger's line alone, while a run
takes the numbers from a script that may be older than two renumberings.  The offset
is what a renumbering, a script and the host have in common.

**Rotate_proofs.**  `LoginStays` (`NeverLockedOut`), `LinesAreAccounted`
(`GrantsAreAccounted`) and `SaidIsLeft` (`SaysWhatIsLeft`), for any accounts, keys,
commands, runs and faults.  The invariant has the types, who has the lock and which
script belongs to which command (`WorkInv`), and `Calm`, what holds as long as no two
have worked on one account.  `Calm` says that the registry's login is `Reached`
(it gets in, with root unless `rootless`); of an account nobody looks at that it has a
line only with its record (`HostInv`); of a script at each of its steps what it knows
of its account (`ProgressInv`); that no two scripts share an account and none has the
registry's (`ApartInv`); and of a command what it learnt: an account it created is
there, a login it proved still works, a script that ended well left what it says
(`KnownInv`).  `NeverLockedOut` alone is not inductive: `Replace` writes a login that
was proven some steps before, and only `ApartInv` and `KnownInv` say that it still
works.  The proof takes a script's 25 steps one by one, each as a pair of a script and an
account before and after (`Keeps`), then the commands' 18, and puts either among
everyone else's once (`ScriptInv`, `CmdInv`).

*Only proved.*  The two type theorems (`StoreApplyType`, `DeviceApplyType`) and
exclusion (`MutualExclusion`) are not asked of TLC again: they hold for the constants
of every run.

*Only model-checked.*

* Liveness (`WaiterProceeds`, `RunReturns`, `ExpiredIsForgotten`,
  `CallsReturn`) and anything about `ENABLED` are outside the prover's reach.
* `RecordSaysPending` is refuted by its run, as
  [below](#where-the-code-and-its-documentation-differ).

## Where the code and its documentation differ

One run shows it:

* `device_apply_record`, `RecordSaysPending`.  `docs/devices/planning.md:273`
  says the record says `pending` from the moment the confirmed commit is typed.
  A second command on the device, which fails at once because the lock is held,
  goes through `keep` all the same and writes its own `failed` record over the
  pending one while the first one's window runs.

The rest was met while modelling.  The models above state their properties so that
these cases are excepted (by a constant, a guard or a history variable), and no
run asks for them; each is named with the line where it comes from.

*Store apply*

* A hand edit of `store.yaml` or `tacctl.yaml` between the copy and the end of the
  writer is part of the state `guard` takes for the writer's, and a rollback
  replaces it without the copy `docs/server/store-and-configs.md:15` promises
  (`backend/apply.go:280`; `FileEditAt` leaves these places out).
* `ConfigRender` renders from the `tacctl.yaml` it read before it waited for the
  lock, so the files are out of date when the command it waited for changed that
  file; StoreApply reloads it (`backend/render.go:281`).
* A kill between the install of a generated file and its record reads as a hand
  edit: the next command refuses the file (`render/tacacs/stage.go:290`;
  `docs/server/store-and-configs.md:17`).  A kill between the commit of the files
  and the restart leaves the daemon on the old file, and a later render sees
  nothing to change (`backend/render.go:242`).
* A hand edit of a generated file between `Stage`, which judged it, and
  `CommitConfig`, which replaces it, is lost (`render/tacacs/stage.go:266`;
  `ArtEditAt`).

*Device apply*

* On a session that prints no banner a stranger's confirmed commit over tacctl's
  reads as a plain commit that ended its window: `fate` goes on to the rollbacks,
  and the exit and the record say applied or rolled back while the device's timer
  still runs over both (`devapply/driver.go:903`; its comment at `driver.go:847`
  allows for a missing banner only where tacctl's commit is entry 0).
  `device_apply_silent` leaves these commits out, `device_apply_two` the silence.
* A confirmed commit whose answer timed out may land after the state was read and
  named (`devapply/junoscli.go:840`).  Not modelled: a commit lands with its word
  or not at all.

*Batch*

* A pause that ends because the run was cancelled counts as over
  (`batch.go:680`); an interrupt that waits while the last result is taken is not
  reported (`batch.go:617`); the end of a job can wait behind progress messages
  while the dispatcher is busy, because both share one channel (the comment at
  `batch.go:520` says a job's end never blocks a worker).

*Numbers and accounts*

* The highest number of the range is the only memory of what was given out:
  `config linux uid` to a lower number, or a command that still has the earlier
  range, lets a number be given again (`uids.go:231`, `cli/linux.go:350`).
* `user rename` moves the ledger's line after the store; a script whose rows were
  read between the two gives the new name a second number (`installer.go:409`).
* `RenumberTo` looks for an overlap with the earlier ranges only when the start
  moves, so a range may grow into one of them (`uids.go:578`).
* The script's UID check comes before its renumbering and counts an account that
  is about to move out of the way as a conflict (`client-install.sh:746`).
* A renamed user who is removed, whose old name is given to a new user before the
  host has synced, leaves that user the account with its home: nothing claims the
  number any more (`client-install.sh:1571`).  `docs/hosts/ids-and-groups.md:6`
  says a later user never inherits a removed one's files;
  `docs/hosts/account-lifecycle.md:41` asks not to reuse the name, and expects the
  UID check to refuse the sync.

*Rotation*

* A rollback after a lost connection stops at its first message when the terminal
  is gone, because `set -e` ends it there (`rotate_script.go:396`; the comment at
  `rotate.go:40` says its rollback runs).
* `host target` does not take the host's lock: a login tested before and written
  after `--remove-old` deleted its account leaves tacctl out, against
  `docs/hosts/enrolling.md:224`.
* `docs/hosts/enrolling.md:194` says `host target` "checks that the login is root or
  may use sudo".  On a terminal it takes the probe's `sudo-password` with a warning
  (`cli/host_target.go:145`), which is also the answer of a login that may not use
  sudo at all (`hosts/target.go:15`, `hosts/rotate.go:134`).  An adopted account
  whose sudoers line a failed rotation took back can so become the registry's login,
  from which nothing runs on the host as root.  `TargetTest` does as the code does, and
  `NeverLockedOut` excepts that line by `rootless`.
* The lock goes with the command while its script runs on, so a second run can
  adopt the account the first script is about to empty or delete
  (`rotate_script.go:422` says the lock keeps it out).
* A signal during `useradd` leaves an account without a record, which a re-run
  refuses; a kill between the registry's change and the record's leaves
  `--remove-old` unable to resume.

## What is left out

*Abstracted in what is modelled.*  Configuration text, rendering and parsing:
contents are sets of changes, and an answer of the device is understood or not.
The review, allow-list, gate and shape store of a device apply: their verdict is
the choice of `Read`.

* `StoreApply`: systemd drop-ins, an unreadable `rendered.json`, the
  `DeferRestart`, `After` and gate options, restores without a render, the host,
  device and console files of a snapshot, and a put-back that fails itself; edits
  of generated files *during* a command.
* `DeviceApply`: the late landing above; a second tacctl server; clocks of device
  and server that run at different speeds.
* `Batch`: the width of the pool (`PoolSize`), the texts, the timing table; a
  job is a job, whatever it does to its device.
* `Askpass`: the socket's directory and modes, peer credentials, the client's side
  and its terminal; the length of a password.
* `UIDLedger`, `HostAccounts`: groups and GIDs, homes, the reserved numbers of
  systemd, malformed ledger files, a snapshot's ledger put back; the script's PAM,
  sudo and package parts, and steps of it that fail (it runs as a whole).  `linux script` reads the
  rows just before it renumbers, the host commands just after (`ReadRows`): the
  renumbering looks at no row and writes none.
* `Rotate`: homes, the account's number and the record of it, the generation of
  keys, the dry run, the prompts, the other commands that take the host's lock, and
  changes made on the host by hand.

*Not modelled.*  Text (plan, readers, templates, reports, parsers, masking) has
no state to interleave; terminal and SSH input and output appear as lost
sessions and failed words; enrolment and the per-release migrations are long
sequences of single-machine steps.  These are by far most of the repository's
lines: vendor syntax, schema, readers and their tests.  `PROJECT.json` has the
full list with reasons.

## Plan

Done: apply lock, store apply, device apply over the command line, batch runner,
askpass agent, UID ledger, host accounts and rotation, with the theorems above.  In
order of what matters next:

1. *Device apply, further*: the NETCONF transport as a second implementation of
   the words (`junosnetconf.go`: lock, confirmed commit and confirm by id), and
   a late landing of a commit in `Land`; chassis members (`members.go`).  An
   abstract specification of what an apply promises (kept, undone or still
   pending, and said so), with `DeviceApply` shown to implement it.
2. *Backend enable and settings* (`backend/set.go`) in `StoreApply`: the set of
   backends changes while another command waits.
3. *Lifecycle*: the order of upgrade steps and what a failure leaves
   (`upgrade.go`, `rollback.go`); the break-glass hold of a firewall change
   (`breakglass_hold.go`, `firewall`).
4. *Pure operators*: `choose.go` and snapshot id order against reference
   definitions.
