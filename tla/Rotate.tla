------------------------------- MODULE Rotate -------------------------------
(***************************************************************************)
(* 'host provisioner <name> rotate': the account tacctl logs in to a host  *)
(* with is replaced by another, over the login in use, "without ever being *)
(* locked out".  Three parts run at once: the command on the server        *)
(* (cli/host_provisioner.go), the bash script it runs on the host as root  *)
(* (hosts/rotate_script.go), and 'host target', which rewrites the same    *)
(* registry line and does not take the host's lock.                        *)
(*                                                                         *)
(* The script outlives its command: when the command is killed or its      *)
(* connection is lost, the host hangs the script up some time later.       *)
(***************************************************************************)
EXTENDS Naturals, FiniteSets

CONSTANTS
    Accounts,  \* account names on the host
    Initial,   \* the login tacctl starts with: made by hand, sudo of its own
    Keys,      \* --key files
    Password,  \* --password
    Cmds,      \* commands that may run at once
    NoOne,
    MaxRuns,   \* bound: commands started
    MaxFaults  \* bound: kills, lost connections, signals and failing steps

Creds == Keys \cup {Password}

ASSUME RotateAssumption ==
    /\ Initial \in Accounts
    /\ NoOne \notin Cmds \cup Accounts \cup Creds /\ Password \notin Keys
    /\ MaxRuns \in Nat /\ MaxFaults \in Nat

VARIABLES
    host,   \* the host's accounts: see Account
    reg,    \* the registry's line: the login and what it logs in with
    rootless,\* 'host target' wrote that line, with a warning, though its login did
            \* not reach root
    prov,   \* the record's last rotation: old, new, removed
    lock,   \* the holder of the host's lock, or NoOne
    cmd,    \* the commands
    scr,    \* the script each command runs on the host
    stuck,  \* accounts whose sudoers line a script could not take out
    crossed,\* two have worked on one account at once
    spent   \* how much of each bound is used

vars == <<host, reg, rootless, prov, lock, cmd, scr, stuck, crossed, spent>>

\* there: in /etc/passwd; cred: what it logs in with; ssh: it has a ~/.ssh; rec:
\* root's record of it ("made", or "ssh" once ~/.ssh is tacctl's); line: its line
\* in tacctl's sudoers file; own: another sudoers file names it.
Account == [there : BOOLEAN, expired : BOOLEAN, own : BOOLEAN, ssh : BOOLEAN,
            cred : Creds \cup {NoOne}, rec : {"none", "made", "ssh"}, line : {"none", "key", "password"}]
NoAccount == [there |-> FALSE, expired |-> FALSE, own |-> FALSE, ssh |-> FALSE,
              cred |-> NoOne, rec |-> "none", line |-> "none"]
NoProv == [old |-> Initial, new |-> Initial, removed |-> TRUE]
NoEntry == [login |-> Initial, cred |-> NoOne]
Idle == [at |-> "idle", user |-> Initial, cred |-> NoOne, rm |-> FALSE, old |-> Initial,
         entry |-> NoEntry, made |-> FALSE, added |-> FALSE, intr |-> FALSE, rootless |-> FALSE]
NoScript == [at |-> "none", acct |-> Initial, cred |-> NoOne, via |-> Initial, only |-> FALSE,
             created |-> FALSE, adopted |-> FALSE, touched |-> FALSE, added |-> FALSE,
             prev |-> "none", conn |-> "up", ok |-> FALSE]

AuthOf(k) == IF k = Password THEN "password" ELSE "key"

\* ssh with the credentials.
LogsIn(e) == LET h == host[e.login] IN h.there /\ ~h.expired /\ h.cred = e.cred

\* ProveLogin and every script run over a login: ssh, then root by sudo (a key
\* login has no password to give sudo).
Works(e) ==
    LET h == host[e.login]
    IN  LogsIn(e) /\ (h.own \/ h.line \in {"key", AuthOf(e.cred)})

Init ==
    /\ \E k \in Keys :
          /\ host = [a \in Accounts |->
                        IF a = Initial
                        THEN [NoAccount EXCEPT !.there = TRUE, !.own = TRUE, !.ssh = TRUE, !.cred = k]
                        ELSE NoAccount]
          /\ reg = [login |-> Initial, cred |-> k]
    /\ rootless = FALSE
    /\ prov = NoProv
    /\ lock = NoOne
    /\ cmd = [c \in Cmds |-> Idle]
    /\ scr = [c \in Cmds |-> NoScript]
    /\ stuck = {}
    /\ crossed = FALSE
    /\ spent = [runs |-> 0, faults |-> 0]

Fault == spent.faults < MaxFaults /\ spent' = [spent EXCEPT !.faults = @ + 1]

(***************************************************************************)
(* The script on the host.  set -e: a step that fails ends it, the create  *)
(* script through its rollback.                                            *)
(***************************************************************************)
Step(c, place) == scr[c].at = place
Acct(c) == host[scr[c].acct]
Goes(c, place) == scr' = [scr EXCEPT ![c].at = place]
Sets(c, h) == host' = [host EXCEPT ![scr[c].acct] = h]
OnHost == UNCHANGED <<reg, rootless, prov, lock, cmd, crossed>>

\* The script's end: its exit status reaches the command, unless nobody is there.
After(s, ok) == IF s.conn = "up" THEN [s EXCEPT !.at = "done", !.ok = ok] ELSE NoScript
Exits(c, ok) == scr' = [scr EXCEPT ![c] = After(@, ok)]

CreateSteps == {"look", "useradd", "made", "record", "empty", "write", "mark", "line", "end"}
RollbackSteps == {"rb_line", "rb_user", "rb_rec"}
RemoveSteps == {"rm_look", "rm_only", "rm_absent", "rm_line", "rm_expire", "rm_user", "rm_rec"}
Running(c) == scr[c].at \notin {"none", "done"}

\* getent passwd: an account is adopted only when root's record agrees.
Look(c) ==
    /\ Step(c, "look")
    /\ scr' = [scr EXCEPT ![c] = CASE ~Acct(c).there -> [@ EXCEPT !.at = "useradd"]
                                   [] Acct(c).there /\ Acct(c).rec = "none" -> [@ EXCEPT !.at = "rb_line"]
                                   [] OTHER -> [@ EXCEPT !.at = "empty", !.adopted = TRUE]]
    /\ UNCHANGED <<host, stuck, spent>> /\ OnHost

\* useradd, and then CREATED_NOW=1: a signal between the two finds it 0.
Useradd(c) ==
    /\ Step(c, "useradd") /\ Goes(c, "made")
    /\ Sets(c, [Acct(c) EXCEPT !.there = TRUE, !.expired = FALSE, !.cred = NoOne, !.ssh = FALSE])
    /\ UNCHANGED <<stuck, spent>> /\ OnHost

Made(c) ==
    /\ Step(c, "made")
    /\ scr' = [scr EXCEPT ![c] = [@ EXCEPT !.at = "record", !.created = TRUE]]
    /\ UNCHANGED <<host, stuck, spent>> /\ OnHost

\* state_write, at once.
Record(c) ==
    /\ Step(c, "record") /\ Goes(c, "empty")
    /\ Sets(c, [Acct(c) EXCEPT !.rec = "made"])
    /\ UNCHANGED <<stuck, spent>> /\ OnHost

\* usermod -p '!' for a key, then prepare_ssh up to the emptied ~/.ssh, which it
\* makes for a key; that of an adopted account is refused unless the record says
\* tacctl made it.
Empty(c) ==
    /\ Step(c, "empty") /\ Acct(c).there
    /\ LET k == IF Acct(c).cred = Password /\ scr[c].cred = Password THEN Password ELSE NoOne
       IN  IF scr[c].adopted /\ Acct(c).ssh /\ Acct(c).rec # "ssh"
           THEN /\ Goes(c, "rb_line")
                /\ Sets(c, [Acct(c) EXCEPT !.cred = IF @ = Password THEN k ELSE @])
           ELSE /\ Goes(c, "write")
                /\ Sets(c, [Acct(c) EXCEPT !.cred = k, !.ssh = @ \/ scr[c].cred # Password])
    /\ UNCHANGED <<stuck, spent>> /\ OnHost

\* The one authorized_keys, written by the account, or passwd on the terminal.
Write(c) ==
    /\ Step(c, "write") /\ Acct(c).there
    /\ Goes(c, IF scr[c].cred = Password THEN "line" ELSE "mark")
    /\ Sets(c, [Acct(c) EXCEPT !.cred = scr[c].cred])
    /\ UNCHANGED <<stuck, spent>> /\ OnHost

Mark(c) ==
    /\ Step(c, "mark") /\ Goes(c, "line")
    /\ Sets(c, [Acct(c) EXCEPT !.rec = "ssh"])
    /\ UNCHANGED <<stuck, spent>> /\ OnHost

\* The sudoers line, last.
Line(c) ==
    /\ Step(c, "line")
    /\ LET new == AuthOf(scr[c].cred)
       IN  /\ Sets(c, [Acct(c) EXCEPT !.line = new])
           /\ scr' = [scr EXCEPT ![c] = [@ EXCEPT !.at = "end", !.prev = Acct(c).line,
                                                  !.touched = Acct(c).line # new,
                                                  !.added = Acct(c).line = "none"]]
    /\ UNCHANGED <<stuck, spent>> /\ OnHost

\* CREATED_NOW=0, SUDOERS_TOUCHED=0: nothing is taken back any more.
End(c) ==
    /\ Step(c, "end")
    /\ scr' = [scr EXCEPT ![c] = After([@ EXCEPT !.touched = FALSE], TRUE)]
    /\ UNCHANGED <<host, stuck, spent>> /\ OnHost

\* A step of the create script that fails: useradd (it may leave an account
\* behind, which is then this run's), state_write, the key or passwd, visudo.  The
\* key and the password cannot be set for an account another script deleted.
CreateFails(c) ==
    /\ \/ scr[c].at \in {"useradd", "record", "write", "mark", "line"} /\ Fault
       \/ scr[c].at \in {"empty", "write"} /\ ~Acct(c).there /\ UNCHANGED spent
    /\ \/ Goes(c, "rb_line") /\ UNCHANGED host
       \/ /\ Step(c, "useradd")
          /\ Sets(c, [Acct(c) EXCEPT !.there = TRUE, !.expired = FALSE, !.cred = NoOne, !.ssh = FALSE])
          /\ scr' = [scr EXCEPT ![c] = [@ EXCEPT !.at = "rb_line", !.created = TRUE]]
    /\ UNCHANGED stuck /\ OnHost

\* A bug: the line is taken out only where the account stays.
RbLineAdopted(c) ==
    /\ Step(c, "rb_line")
    /\ Sets(c, [Acct(c) EXCEPT !.line = IF scr[c].created \/ ~scr[c].touched THEN @ ELSE scr[c].prev])
    /\ IF scr[c].created THEN Goes(c, "rb_user") ELSE Exits(c, FALSE)
    /\ UNCHANGED <<stuck, spent>> /\ OnHost

\* rollback: the line this run wrote goes, or becomes what it was...
RbLine(c) ==
    /\ Step(c, "rb_line")
    /\ Sets(c, [Acct(c) EXCEPT !.line = CASE scr[c].created -> "none"
                                          [] ~scr[c].created /\ scr[c].touched -> scr[c].prev
                                          [] OTHER -> @])
    /\ IF scr[c].created THEN Goes(c, "rb_user") ELSE Exits(c, FALSE)
    /\ UNCHANGED <<stuck, spent>> /\ OnHost

\* ... or cannot be taken out: 'sudoers_drop || true'.
RbLineFails(c) ==
    /\ Step(c, "rb_line") /\ Fault
    /\ scr[c].created \/ scr[c].touched
    /\ stuck' = stuck \cup {scr[c].acct}
    /\ IF scr[c].created THEN Goes(c, "rb_user") ELSE Exits(c, FALSE)
    /\ UNCHANGED host /\ OnHost

\* userdel -r, then the record when the account is gone.
Gone(h) == [h EXCEPT !.there = FALSE, !.expired = FALSE, !.cred = NoOne, !.ssh = FALSE]

RbUser(c) ==
    /\ Step(c, "rb_user")
    /\ \/ Sets(c, Gone(Acct(c))) /\ Goes(c, "rb_rec") /\ UNCHANGED spent
       \/ Fault /\ UNCHANGED host /\ Exits(c, FALSE)
    /\ UNCHANGED stuck /\ OnHost

RbRec(c) ==
    /\ Step(c, "rb_rec") /\ Exits(c, FALSE)
    /\ Sets(c, [Acct(c) EXCEPT !.rec = "none"])
    /\ UNCHANGED <<stuck, spent>> /\ OnHost

\* The remove script: an account of the session itself is refused.
RmLook(c) ==
    /\ Step(c, "rm_look")
    /\ CASE scr[c].only -> Goes(c, "rm_only")
         [] ~scr[c].only /\ ~Acct(c).there -> Goes(c, "rm_absent")
         [] ~scr[c].only /\ Acct(c).there /\ scr[c].via = scr[c].acct -> Exits(c, FALSE)
         [] OTHER -> Goes(c, "rm_line")
    /\ UNCHANGED <<host, stuck, spent>> /\ OnHost

\* Only the line goes (the account is an adopted one) ...
RmOnly(c) ==
    /\ Step(c, "rm_only") /\ Exits(c, TRUE)
    /\ Sets(c, [Acct(c) EXCEPT !.line = "none"])
    /\ UNCHANGED <<stuck, spent>> /\ OnHost

\* ... or there is no account: its line goes, and then its record.
RmAbsent(c) ==
    /\ Step(c, "rm_absent") /\ Goes(c, "rm_rec")
    /\ Sets(c, [Acct(c) EXCEPT !.line = "none"])
    /\ UNCHANGED <<stuck, spent>> /\ OnHost

\* The grant goes first, then the account is expired, ended and deleted, and
\* root's record is last.
RmLine(c) ==
    /\ Step(c, "rm_line") /\ Goes(c, "rm_expire")
    /\ Sets(c, [Acct(c) EXCEPT !.line = "none"])
    /\ UNCHANGED <<stuck, spent>> /\ OnHost

RmExpire(c) ==
    /\ Step(c, "rm_expire") /\ Goes(c, "rm_user")
    /\ \/ Sets(c, [Acct(c) EXCEPT !.expired = TRUE]) /\ UNCHANGED spent
       \/ Fault /\ UNCHANGED host
    /\ UNCHANGED stuck /\ OnHost

RmUser(c) ==
    /\ Step(c, "rm_user") /\ Goes(c, "rm_rec")
    /\ Sets(c, Gone(Acct(c)))
    /\ UNCHANGED <<stuck, spent>> /\ OnHost

\* A bug: root's record of the account stays.
RmRecKept(c) ==
    /\ Step(c, "rm_rec") /\ Exits(c, TRUE)
    /\ UNCHANGED <<host, stuck, spent>> /\ OnHost

RmRec(c) ==
    /\ Step(c, "rm_rec") /\ Exits(c, TRUE)
    /\ Sets(c, [Acct(c) EXCEPT !.rec = "none"])
    /\ UNCHANGED <<stuck, spent>> /\ OnHost

\* The line cannot be taken out, or userdel fails.
RemoveFails(c) ==
    /\ scr[c].at \in {"rm_only", "rm_absent", "rm_line", "rm_user"} /\ Fault
    /\ Exits(c, FALSE)
    /\ stuck' = IF Step(c, "rm_user") THEN stuck ELSE stuck \cup {scr[c].acct}
    /\ UNCHANGED host /\ OnHost

\* What a signal does: the create script rolls back; a rollback, or the remove
\* script, ends where it is ('exit 130', and no EXIT trap any more).
Signalled(s) ==
    IF s.at \in CreateSteps THEN [s EXCEPT !.at = "rb_line"] ELSE After(s, FALSE)

\* The terminal is gone when the hang-up comes: the rollback's first message
\* cannot be written, and set -e ends it there, unless sudo gave the script a
\* terminal of its own.
HangUp(c) ==
    /\ Running(c) /\ scr[c].conn = "gone"
    /\ LET s == [scr[c] EXCEPT !.conn = "told"]
       IN  scr' = [scr EXCEPT ![c] = IF s.at \in CreateSteps THEN [s EXCEPT !.at = "rb_line"] ELSE NoScript]
    /\ UNCHANGED <<host, stuck, spent>> /\ OnHost

HangUpMute(c) ==
    /\ Running(c) /\ scr[c].conn = "gone"
    /\ scr' = [scr EXCEPT ![c] = NoScript]
    /\ UNCHANGED <<host, stuck, spent>> /\ OnHost

\* The host loses power, or the shell is killed outright.
Power(c) ==
    /\ Running(c) /\ Fault
    /\ Exits(c, FALSE)
    /\ UNCHANGED <<host, stuck>> /\ OnHost

Script(c) ==
    \/ Look(c) \/ Useradd(c) \/ Made(c) \/ Record(c) \/ Empty(c) \/ Write(c) \/ Mark(c)
    \/ Line(c) \/ End(c) \/ CreateFails(c)
    \/ RbLine(c) \/ RbLineFails(c) \/ RbUser(c) \/ RbRec(c)
    \/ RmLook(c) \/ RmOnly(c) \/ RmAbsent(c) \/ RmLine(c) \/ RmExpire(c) \/ RmUser(c) \/ RmRec(c)
    \/ RemoveFails(c)
    \/ HangUp(c) \/ HangUpMute(c) \/ Power(c)

(***************************************************************************)
(* The command.                                                            *)
(***************************************************************************)
At(c, place) == cmd[c].at = place
To(c, place) == cmd' = [cmd EXCEPT ![c].at = place]
Ends(c) == cmd' = [cmd EXCEPT ![c] = Idle] /\ lock' = IF lock = c THEN NoOne ELSE lock

\* LockHost and rotateValidate.  The login in use is refused as the new account,
\* unless a rotation to it is recorded whose old account is still to be removed.
Resume(u, rm) == u = reg.login /\ rm /\ prov.new = u /\ prov.old # u /\ ~prov.removed

Start(c, u, k, rm) ==
    /\ At(c, "idle") /\ scr[c] = NoScript /\ lock = NoOne
    /\ u # reg.login \/ Resume(u, rm)
    /\ spent.runs < MaxRuns /\ spent' = [spent EXCEPT !.runs = @ + 1]
    /\ lock' = c
    /\ cmd' = [cmd EXCEPT ![c] = [Idle EXCEPT !.at = IF Resume(u, rm) THEN "rm_check" ELSE "create",
                                              !.user = u, !.cred = k, !.rm = rm, !.entry = reg,
                                              !.old = IF Resume(u, rm) THEN prov.old ELSE reg.login]]
    /\ UNCHANGED <<host, reg, rootless, prov, scr, stuck, crossed>>

\* RunRotateScript: copied and run over the login e, which must get in.  The script
\* of a command that was killed or cut off may still be at work.
WorkedOn(c, a) == \E d \in Cmds \ {c} : Running(d) /\ scr[d].acct = a

Runs(c, e, s) ==
    /\ crossed' = (crossed \/ WorkedOn(c, s.acct))
    /\ scr' = [scr EXCEPT ![c] = [s EXCEPT !.via = e.login]]

CreateScript(c) == [NoScript EXCEPT !.at = "look", !.acct = cmd[c].user, !.cred = cmd[c].cred]
RemoveScript(a, only) == [NoScript EXCEPT !.at = "rm_look", !.acct = a, !.only = only]

RunCreate(c) ==
    /\ At(c, "create")
    /\ IF Works(cmd[c].entry)
       THEN Runs(c, cmd[c].entry, CreateScript(c)) /\ To(c, "creating") /\ UNCHANGED lock
       ELSE Ends(c) /\ UNCHANGED <<scr, crossed>>
    /\ UNCHANGED <<host, reg, rootless, prov, stuck, spent>>

\* The script ended: a failure, or an interrupt meanwhile, ends the command.
Created(c) ==
    /\ At(c, "creating") /\ Step(c, "done")
    /\ IF scr[c].ok /\ ~cmd[c].intr
       THEN /\ cmd' = [cmd EXCEPT ![c] = [@ EXCEPT !.at = "prove", !.made = scr[c].created,
                                                   !.added = scr[c].added]]
            /\ UNCHANGED lock
       ELSE Ends(c)
    /\ scr' = [scr EXCEPT ![c] = NoScript]
    /\ UNCHANGED <<host, reg, rootless, prov, stuck, spent, crossed>>

New(c) == [login |-> cmd[c].user, cred |-> cmd[c].cred]

\* ProveLogin and proofProblem; the network, the host's keys or the operator may
\* refuse a login that works.
Prove(c) ==
    /\ At(c, "prove")
    /\ \/ To(c, IF Works(New(c)) THEN "snapshot" ELSE "takeback") /\ UNCHANGED spent
       \/ Fault /\ To(c, "takeback")
    /\ UNCHANGED <<host, reg, rootless, prov, lock, scr, stuck, crossed>>

\* rotateProofFailed: an account this run created is removed, an adopted one only
\* loses the line this run added.
TakeBack(c) ==
    /\ At(c, "takeback")
    /\ IF (cmd[c].made \/ cmd[c].added) /\ Works(cmd[c].entry)
       THEN /\ Runs(c, cmd[c].entry, RemoveScript(cmd[c].user, ~cmd[c].made))
            /\ To(c, "taking") /\ UNCHANGED lock
       ELSE Ends(c) /\ UNCHANGED <<scr, crossed>>
    /\ UNCHANGED <<host, reg, rootless, prov, stuck, spent>>

TakenBack(c) ==
    /\ At(c, "taking") /\ Step(c, "done")
    /\ scr' = [scr EXCEPT ![c] = NoScript]
    /\ Ends(c)
    /\ UNCHANGED <<host, reg, rootless, prov, stuck, spent, crossed>>

\* snapshotFirst, then the entry is read again.
Snapshot(c) ==
    /\ At(c, "snapshot")
    /\ \/ /\ UNCHANGED spent
          /\ IF reg = cmd[c].entry THEN To(c, "replace") /\ UNCHANGED lock ELSE Ends(c)
       \/ Fault /\ Ends(c)
    /\ UNCHANGED <<host, reg, rootless, prov, scr, stuck, crossed>>

\* Registry.Replace writes the whole line, whatever it is by now.
Replace(c) ==
    /\ At(c, "replace")
    /\ \/ UNCHANGED <<spent, lock>> /\ reg' = New(c) /\ rootless' = FALSE /\ To(c, "record")
       \/ Fault /\ Ends(c) /\ UNCHANGED <<reg, rootless>>
    /\ UNCHANGED <<host, prov, scr, stuck, crossed>>

\* Records.Update: a failure is only said.
RecordIt(c) ==
    /\ At(c, "record")
    /\ \/ /\ prov' = [old |-> cmd[c].old, new |-> cmd[c].user, removed |-> FALSE]
          /\ UNCHANGED spent
       \/ Fault /\ UNCHANGED prov
    /\ IF cmd[c].rm THEN To(c, "rm_check") /\ UNCHANGED lock ELSE Ends(c)
    /\ UNCHANGED <<host, reg, rootless, scr, stuck, crossed>>

\* A bug: where the registry points by now is not looked at.
RmCheckBlind(c) ==
    /\ At(c, "rm_check")
    /\ cmd' = [cmd EXCEPT ![c] = [@ EXCEPT !.at = "rm_run", !.entry = New(c)]]
    /\ UNCHANGED <<host, reg, rootless, prov, lock, scr, stuck, spent, crossed>>

\* rotateRemoveOld: the registry must reach the new account, and is read once.
RmCheck(c) ==
    /\ At(c, "rm_check")
    /\ IF cmd[c].old # cmd[c].user /\ reg.login = cmd[c].user
       THEN cmd' = [cmd EXCEPT ![c] = [@ EXCEPT !.at = "rm_run", !.entry = reg]] /\ UNCHANGED lock
       ELSE Ends(c)
    /\ UNCHANGED <<host, reg, rootless, prov, scr, stuck, spent, crossed>>

RmRun(c) ==
    /\ At(c, "rm_run")
    /\ IF Works(cmd[c].entry)
       THEN /\ Runs(c, cmd[c].entry, RemoveScript(cmd[c].old, FALSE))
            /\ To(c, "removing") /\ UNCHANGED lock
       ELSE Ends(c) /\ UNCHANGED <<scr, crossed>>
    /\ UNCHANGED <<host, reg, rootless, prov, stuck, spent>>

Removed(c) ==
    /\ At(c, "removing") /\ Step(c, "done")
    /\ scr' = [scr EXCEPT ![c] = NoScript]
    /\ IF scr[c].ok /\ ~cmd[c].intr THEN To(c, "rm_record") /\ UNCHANGED lock ELSE Ends(c)
    /\ UNCHANGED <<host, reg, rootless, prov, stuck, spent, crossed>>

RmRecord(c) ==
    /\ At(c, "rm_record")
    /\ \/ prov' = [prov EXCEPT !.removed = @ \/ prov.new = cmd[c].user] /\ UNCHANGED spent
       \/ Fault /\ UNCHANGED prov
    /\ Ends(c)
    /\ UNCHANGED <<host, reg, rootless, scr, stuck, crossed>>

(***************************************************************************)
(* What can happen to a command.                                           *)
(***************************************************************************)
Waiting(c) == cmd[c].at \in {"creating", "taking", "removing"}
Cut(c) == scr' = [scr EXCEPT ![c] = IF Running(c) THEN [@ EXCEPT !.conn = "gone"] ELSE NoScript]

\* Ctrl-C: the terminal sends it to the script too, and the command waits for it.
Interrupt(c) ==
    /\ Waiting(c) /\ ~cmd[c].intr /\ Fault
    /\ cmd' = [cmd EXCEPT ![c].intr = TRUE]
    /\ scr' = [scr EXCEPT ![c] = IF Running(c) THEN Signalled(@) ELSE @]
    /\ UNCHANGED <<host, reg, rootless, prov, lock, stuck, crossed>>

\* The connection is lost: the command sees a failed script, the script runs on.
Lose(c) ==
    /\ Waiting(c) /\ Fault
    /\ Cut(c) /\ Ends(c)
    /\ UNCHANGED <<host, reg, rootless, prov, stuck, crossed>>

\* The command is killed: its lock goes with it.
Kill(c) ==
    /\ ~At(c, "idle") /\ Fault
    /\ Cut(c) /\ Ends(c)
    /\ UNCHANGED <<host, reg, rootless, prov, stuck, crossed>>

(***************************************************************************)
(* 'host target': a login that gets in is written over the line.           *)
(***************************************************************************)
\* The test connection: the login must get in.  On a terminal one whose 'sudo -n'
\* fails is accepted with a warning, also when it may not use sudo at all (the
\* probe says 'sudo-password' of both); without one it is refused.
TargetTest(c, e) ==
    /\ At(c, "idle") /\ scr[c] = NoScript
    /\ spent.runs < MaxRuns /\ spent' = [spent EXCEPT !.runs = @ + 1]
    /\ e # reg /\ LogsIn(e)
    /\ cmd' = [cmd EXCEPT ![c] = [Idle EXCEPT !.at = "target", !.entry = e, !.rootless = ~Works(e)]]
    /\ UNCHANGED <<host, reg, rootless, prov, lock, scr, stuck, crossed>>

\* A rotation is at work on the account, or was since the test.
Overtaken(c) ==
    LET a == cmd[c].entry.login
    IN  \/ ~LogsIn(cmd[c].entry) \/ (~cmd[c].rootless /\ ~Works(cmd[c].entry)) \/ WorkedOn(c, a)
        \/ \E d \in Cmds : cmd[d].at \in {"create", "creating", "prove", "takeback", "taking"} /\ cmd[d].user = a
        \/ \E d \in Cmds : cmd[d].at \in {"rm_run", "removing"} /\ cmd[d].old = a

TargetWrite(c) ==
    /\ At(c, "target")
    /\ reg' = cmd[c].entry /\ rootless' = cmd[c].rootless
    /\ crossed' = (crossed \/ Overtaken(c))
    /\ Ends(c)
    /\ UNCHANGED <<host, prov, scr, stuck, spent>>

Command(c) ==
    \/ \E u \in Accounts, k \in Creds, rm \in BOOLEAN : Start(c, u, k, rm)
    \/ RunCreate(c) \/ Created(c) \/ Prove(c) \/ TakeBack(c) \/ TakenBack(c)
    \/ Snapshot(c) \/ Replace(c) \/ RecordIt(c)
    \/ RmCheck(c) \/ RmRun(c) \/ Removed(c) \/ RmRecord(c)
    \/ Interrupt(c) \/ Lose(c) \/ Kill(c)
    \/ \E l \in Accounts, k \in Creds : TargetTest(c, [login |-> l, cred |-> k])
    \/ TargetWrite(c)

Next == \E c \in Cmds : Script(c) \/ Command(c)

Spec == Init /\ [][Next]_vars

(***************************************************************************)
(* Properties.                                                             *)
(***************************************************************************)
TypeOK ==
    /\ host \in [Accounts -> Account]
    /\ reg \in [login : Accounts, cred : Creds]
    /\ prov \in [old : Accounts, new : Accounts, removed : BOOLEAN]
    /\ lock \in Cmds \cup {NoOne}
    /\ stuck \subseteq Accounts /\ crossed \in BOOLEAN /\ rootless \in BOOLEAN
    /\ \A c \in Cmds :
          /\ scr[c].at \in CreateSteps \cup RollbackSteps \cup RemoveSteps \cup {"none", "done"}
          /\ scr[c].conn \in {"up", "gone", "told"} /\ scr[c].acct \in Accounts
          /\ Waiting(c) => scr[c] # NoScript
          /\ lock = c => cmd[c].at # "idle"

\* docs/hosts/enrolling.md 224: a rotation "cannot lock tacctl out": after every
\* step of a rotation, of its scripts, of a rollback or a removal, and after any
\* kill, lost connection or failed step, the login the registry names gets in, and
\* it reaches root unless 'host target' itself, with a warning, wrote a login that
\* does not (host_target.go 145-150); a rotation never makes such a line.  Nothing
\* is promised once two have worked on one account at once: the host's lock does
\* not keep out 'host target', nor the script of a command that is dead.
NeverLockedOut == TypeOK /\ (~crossed => LogsIn(reg) /\ (rootless \/ Works(reg)))

\* host_provisioner.go 608-650 and 665-690: what the command says is so.  A proof
\* that failed leaves nothing of an account this run created, and neither deletes
\* an adopted one nor leaves it the line this run added; an old account said to be
\* removed is gone with its line and its record.
SaysWhatIsLeft ==
    [][\A c \in Cmds :
        LET u == host'[cmd[c].user]
            o == host'[cmd[c].old]
            said == Step(c, "done") /\ scr[c].ok /\ scr'[c] = NoScript
        IN  ~crossed =>
            /\ At(c, "taking") /\ said /\ cmd[c].made => u = [NoAccount EXCEPT !.own = u.own]
            /\ At(c, "taking") /\ said /\ ~cmd[c].made => u.there /\ u.line = "none"
            /\ At(c, "removing") /\ said => o = [NoAccount EXCEPT !.own = o.own]]_vars

\* rotate_script.go 16-22: the line comes last and goes first: there is never a
\* line of tacctl's for an account that is not there or that root has no record of
\* (one that could not be taken out is the exception, and the script failed).
GrantsAreAccounted ==
    ~crossed => \A a \in Accounts \ stuck :
        host[a].line # "none" => host[a].there /\ host[a].rec # "none"
=============================================================================
