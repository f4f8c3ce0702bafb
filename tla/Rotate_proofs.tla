--------------------------- MODULE Rotate_proofs ---------------------------
(***************************************************************************)
(* Proofs about Rotate, for any set of accounts, keys and commands, and any *)
(* number of runs and faults.                                               *)
(***************************************************************************)
EXTENDS Rotate, TLAPS

MaybeCred == Creds \cup {NoOne}
Entry == [login : Accounts, cred : MaybeCred]
ScriptSteps == CreateSteps \cup RollbackSteps \cup RemoveSteps
ScrType == [at : ScriptSteps \cup {"none", "done"}, acct : Accounts, cred : MaybeCred,
            via : Accounts, only : BOOLEAN, created : BOOLEAN, adopted : BOOLEAN,
            touched : BOOLEAN, added : BOOLEAN, prev : {"none", "key", "password"},
            conn : {"up", "gone", "told"}, ok : BOOLEAN]

\* Where a command is: nowhere, in 'host target', or in a rotation, which is
\* before its proof, between the proof and the registry, or past it.
Waits == {"creating", "taking", "removing"}
OnUser == {"create", "creating", "prove", "takeback", "taking"}
Proven == {"snapshot", "replace"}
OnOld == {"rm_run", "removing"}
Rotation == OnUser \cup Proven \cup OnOld \cup {"record", "rm_check", "rm_record"}
CmdType == [at : Rotation \cup {"idle", "target"}, user : Accounts, cred : MaybeCred,
            rm : BOOLEAN, old : Accounts, entry : Entry, made : BOOLEAN, added : BOOLEAN,
            intr : BOOLEAN, rootless : BOOLEAN]

\* The types, and what a rotation writes into the registry is a login.
TypeInv ==
    /\ host \in [Accounts -> Account]
    /\ reg \in [login : Accounts, cred : Creds]
    /\ prov \in [old : Accounts, new : Accounts, removed : BOOLEAN]
    /\ lock \in Cmds \cup {NoOne}
    /\ cmd \in [Cmds -> CmdType] /\ scr \in [Cmds -> ScrType]
    /\ stuck \subseteq Accounts /\ crossed \in BOOLEAN /\ rootless \in BOOLEAN
CredInv ==
    \A c \in Cmds : /\ cmd[c].at \in OnUser \cup Proven => cmd[c].cred \in Creds
                    /\ cmd[c].at = "target" => cmd[c].entry.cred \in Creds

\* Which command has the lock, and what its script is for.
Script0(s, k) ==
    /\ k.at \notin Waits \cup {"idle"} => s = NoScript
    /\ k.at = "idle" => s.at = "none" \/ (s.at # "done" /\ s.conn # "up")
    /\ k.at \in Waits => s.at # "none" /\ s.conn = "up"
    /\ k.at = "creating" => s.acct = k.user /\ s.at \in CreateSteps \cup RollbackSteps \cup {"done"}
    /\ k.at = "taking" => s.acct = k.user /\ s.only = ~k.made /\ s.at \in RemoveSteps \cup {"done"}
    /\ k.at = "removing" => s.acct = k.old /\ ~s.only /\ s.at \in RemoveSteps \cup {"done"}
    /\ s.at = "none" => s = NoScript
WorkInv ==
    \A c \in Cmds : /\ cmd[c].at \in Rotation <=> lock = c
                    /\ Script0(scr[c], cmd[c])

\* What is so of an account nobody works on: it has a line only with the account
\* and its record there, and nothing is left of one that is not there.
Sound(h, st) ==
    /\ st \/ h.line = "none" \/ (h.there /\ h.rec # "none")
    /\ ~h.there => ~h.expired /\ ~h.ssh /\ h.cred = NoOne

\* What is left of a removed account.
Bare(h) == h = [NoAccount EXCEPT !.own = h.own]

\* What a script knows of its account at each of its steps.
Progress(s, h, st) ==
    /\ s.at \in {"made", "record"} => h.there
    /\ s.at \in {"empty", "write", "mark", "line", "end"} => h.there /\ h.rec # "none"
    /\ s.at = "rb_line" /\ s.touched => h.there /\ h.rec # "none"
    /\ s.touched => s.at \in RollbackSteps \cup {"end", "done"}
    /\ s.at \in {"rb_user", "rb_rec"} => st \/ h.line = "none"
    /\ s.at \in {"rm_line", "rm_expire", "rm_user"} => h.there
    /\ s.at \in {"rm_expire", "rm_user", "rm_rec"} => h.line = "none"
    /\ s.at \in {"rm_absent", "rm_rec"} => ~h.there
    /\ s.at = "rm_only" => s.only
    /\ s.only => h.there /\ s.at \in {"rm_look", "rm_only", "done"}

HostInv == \A a \in Accounts : Sound(host[a], a \in stuck)
ProgressInv == \A c \in Cmds : Progress(scr[c], host[scr[c].acct], scr[c].acct \in stuck)

\* No two scripts work on one account, and none on the login in use.
ApartInv ==
    /\ \A c, d \in Cmds : c # d /\ scr[c].at # "none" /\ Running(d) => scr[c].acct # scr[d].acct
    /\ \A d \in Cmds : Running(d) => scr[d].acct # reg.login
    /\ \A c, d \in Cmds : cmd[c].at \in {"prove", "takeback"} \cup Proven /\ Running(d) =>
                             scr[d].acct # cmd[c].user

\* A login gets in: the account as it is, and the entry.
GetsIn(h, e) ==
    /\ h.there /\ ~h.expired /\ h.cred = e.cred
    /\ h.own \/ h.line \in {"key", AuthOf(e.cred)}

\* What a script that ended well leaves.
Left(only, h) == IF only THEN h.line = "none" ELSE Bare(h)

\* What a command k with script s knows of its accounts, the registry being
\* r and the host's accounts hs.
Known(k, s, r, hs) ==
    /\ k.at \in OnUser => k.user # r.login
    /\ k.at \in OnOld => k.old # r.login
    /\ k.at \in {"prove", "takeback"} => hs[k.user].there
    /\ k.at \in Proven => GetsIn(hs[k.user], k)
    /\ k.at = "creating" /\ s.at = "done" /\ s.ok => hs[s.acct].there
    /\ k.at \in {"taking", "removing"} /\ s.at = "done" /\ s.ok => Left(s.only, hs[s.acct])

KnownInv == \A c \in Cmds : Known(cmd[c], scr[c], reg, host)

\* The registry's login gets in, and reaches root unless 'host target' took it
\* without (w).
RegIn(h, e, w) ==
    /\ h.there /\ ~h.expired /\ h.cred = e.cred
    /\ w \/ h.own \/ h.line \in {"key", AuthOf(e.cred)}
Reached == LogsIn(reg) /\ (rootless \/ Works(reg))

Calm == Reached /\ HostInv /\ ProgressInv /\ ApartInv /\ KnownInv

Inv == TypeInv /\ CredInv /\ WorkInv /\ (~crossed => Calm)

----------------------------------------------------------------------------
(* Records.                                                                *)

Places == ScriptSteps \cup {"none", "done"}

LEMMA NoScriptType == NoScript \in ScrType /\ NoScript.at = "none" /\ ~NoScript.touched /\ ~NoScript.only
BY RotateAssumption DEF NoScript, ScrType, MaybeCred

LEMMA IdleType == Idle \in CmdType /\ Idle.at = "idle"
BY RotateAssumption DEF Idle, NoEntry, Entry, CmdType, MaybeCred

LEMMA AccountParts ==
    ASSUME NEW h \in Account
    PROVE  /\ h.there \in BOOLEAN /\ h.expired \in BOOLEAN /\ h.own \in BOOLEAN /\ h.ssh \in BOOLEAN
           /\ h.cred \in MaybeCred /\ h.rec \in {"none", "made", "ssh"}
           /\ h.line \in {"none", "key", "password"}
BY DEF Account, MaybeCred

LEMMA OwnSet ==
    ASSUME NEW n \in Account, NEW x \in BOOLEAN
    PROVE  LET b == [n EXCEPT !.own = x]
           IN  /\ b \in Account /\ b.own = x /\ b.there = n.there /\ b.expired = n.expired
               /\ b.ssh = n.ssh /\ b.cred = n.cred /\ b.rec = n.rec /\ b.line = n.line
BY DEF Account

LEMMA SameAccount ==
    ASSUME NEW g \in Account, NEW h \in Account,
           g.there = h.there, g.expired = h.expired, g.own = h.own, g.ssh = h.ssh,
           g.cred = h.cred, g.rec = h.rec, g.line = h.line
    PROVE  g = h
BY DEF Account

LEMMA BareIs ==
    ASSUME NEW h \in Account
    PROVE  Bare(h) <=> /\ ~h.there /\ ~h.expired /\ ~h.ssh
                       /\ h.cred = NoOne /\ h.rec = "none" /\ h.line = "none"
<1> DEFINE b == [NoAccount EXCEPT !.own = h.own]
<1>1. /\ b \in Account /\ b.own = h.own /\ b.there = FALSE /\ b.expired = FALSE /\ b.ssh = FALSE
      /\ b.cred = NoOne /\ b.rec = "none" /\ b.line = "none"
  <2>1. h.own \in BOOLEAN BY DEF Account
  <2>2. NoAccount \in Account BY DEF NoAccount, Account
  <2>3. /\ NoAccount.there = FALSE /\ NoAccount.expired = FALSE /\ NoAccount.ssh = FALSE
        /\ NoAccount.cred = NoOne /\ NoAccount.rec = "none" /\ NoAccount.line = "none"
    BY DEF NoAccount
  <2> QED BY <2>1, <2>2, <2>3, OwnSet
<1> HIDE DEF b
<1>3. h.there \in BOOLEAN /\ h.expired \in BOOLEAN /\ h.ssh \in BOOLEAN BY DEF Account
<1>4. ASSUME h = b
      PROVE  ~h.there /\ ~h.expired /\ ~h.ssh /\ h.cred = NoOne /\ h.rec = "none" /\ h.line = "none"
  BY <1>1, <1>4
<1>5. ASSUME ~h.there, ~h.expired, ~h.ssh, h.cred = NoOne, h.rec = "none", h.line = "none"
      PROVE  h = b
  <2>1. h.there = FALSE /\ h.expired = FALSE /\ h.ssh = FALSE BY <1>3, <1>5
  <2> QED BY <1>1, <1>5, <2>1, SameAccount
<1>6. Bare(h) <=> h = b BY DEF Bare, b
<1> QED BY <1>4, <1>5, <1>6

\* The script goes on: everything but its place stays.
Like(s, r) ==
    /\ r.acct = s.acct /\ r.only = s.only /\ r.conn = s.conn
    /\ r.touched = s.touched /\ r.created = s.created /\ r.prev = s.prev

LEMMA MovedTo ==
    ASSUME NEW s \in ScrType, NEW x \in Places
    PROVE  /\ [s EXCEPT !.at = x] \in ScrType /\ [s EXCEPT !.at = x].at = x
           /\ Like(s, [s EXCEPT !.at = x])
BY DEF ScrType, Places, Like

\* The script ends: nobody is told when the connection is gone.
LEMMA AfterIs ==
    ASSUME NEW s \in ScrType, NEW ok \in BOOLEAN
    PROVE  /\ After(s, ok) \in ScrType
           /\ \/ s.conn # "up" /\ After(s, ok) = NoScript
              \/ /\ s.conn = "up" /\ Like(s, After(s, ok))
                 /\ After(s, ok).at = "done" /\ After(s, ok).ok = ok
<1>1. CASE s.conn = "up"
  <2> DEFINE r == [s EXCEPT !.at = "done", !.ok = ok]
  <2>1. r \in ScrType /\ Like(s, r) /\ r.at = "done" /\ r.ok = ok BY DEF ScrType, Like
  <2>2. After(s, ok) = r BY <1>1 DEF After
  <2> QED BY <1>1, <2>1, <2>2
<1>2. CASE s.conn # "up" BY <1>2, NoScriptType DEF After
<1> QED BY <1>1, <1>2

LEMMA StepSets ==
    /\ CreateSteps \subseteq ScriptSteps /\ RollbackSteps \subseteq ScriptSteps
    /\ RemoveSteps \subseteq ScriptSteps /\ "none" \notin ScriptSteps /\ "done" \notin ScriptSteps
    /\ RemoveSteps \cap (CreateSteps \cup RollbackSteps) = {}
BY DEF CreateSteps, RollbackSteps, RemoveSteps, ScriptSteps

----------------------------------------------------------------------------
(* One step of a script: from script s over account h to script r over g.   *)

\* The script goes on in its own part, or ends and tells who is there.
Onward(s, r) ==
    \/ s.conn # "up" /\ r = NoScript
    \/ /\ r.acct = s.acct /\ r.only = s.only /\ (r.conn = "up" <=> s.conn = "up")
       /\ \/ s.at \in RemoveSteps /\ r.at \in RemoveSteps
          \/ s.at \notin RemoveSteps /\ r.at \in CreateSteps \cup RollbackSteps
          \/ r.at = "done" /\ s.conn = "up"

\* It leaves its account as its next step, and everyone, may find it.
Keeps(s, h, st, r, g, su) ==
    Sound(h, st) /\ Progress(s, h, st) =>
        /\ Sound(g, su) /\ Progress(r, g, su)
        /\ r.at = "done" /\ r.ok => IF s.at \in RemoveSteps THEN Left(r.only, g) ELSE g.there

LEMMA GoesOnward ==
    ASSUME NEW s \in ScrType, NEW x \in ScriptSteps,
           s.at \in RemoveSteps <=> x \in RemoveSteps
    PROVE  Onward(s, [s EXCEPT !.at = x])
BY MovedTo, StepSets DEF Onward, Like, ScriptSteps, Places

LEMMA EndsOnward ==
    ASSUME NEW s \in ScrType, NEW ok \in BOOLEAN
    PROVE  Onward(s, After(s, ok))
BY AfterIs DEF Onward, Like

LEMMA NoScriptKeeps == \A h, st : Progress(NoScript, h, st)
BY DEF NoScript, Progress, RollbackSteps

\* An end that does not claim anything and leaves the account.
LEMMA EndKeeps ==
    ASSUME NEW s \in ScrType, NEW h \in Account, NEW st \in BOOLEAN, NEW su \in BOOLEAN, st => su
    PROVE  Keeps(s, h, st, After(s, FALSE), h, su)
<1>1. CASE After(s, FALSE) = NoScript
  BY <1>1, NoScriptKeeps, NoScriptType DEF Keeps, Sound
<1>2. CASE Like(s, After(s, FALSE)) /\ After(s, FALSE).at = "done" /\ After(s, FALSE).ok = FALSE
  <2>1. Progress(s, h, st) => Progress(After(s, FALSE), h, su) BY <1>2 DEF Progress, Like
  <2>2. Sound(h, st) => Sound(h, su) BY DEF Sound
  <2> QED BY <1>2, <2>1, <2>2 DEF Keeps
<1> QED BY <1>1, <1>2, AfterIs

----------------------------------------------------------------------------
(* The steps of the create script, of its rollback and of the remove script. *)

\* A step of c's script.
ScriptStep(c) ==
    \E r \in ScrType, g \in Account :
        /\ scr' = [scr EXCEPT ![c] = r]
        /\ host' = [host EXCEPT ![scr[c].acct] = g]
        /\ Onward(scr[c], r)
        /\ Keeps(scr[c], Acct(c), scr[c].acct \in stuck, r, g, scr[c].acct \in stuck')
        /\ stuck \subseteq stuck' /\ stuck' \subseteq stuck \cup {scr[c].acct}
        /\ Running(c) /\ OnHost

LEMMA ScriptParts ==
    ASSUME TypeInv, NEW c \in Cmds
    PROVE  /\ scr[c] \in ScrType /\ scr[c].acct \in Accounts /\ Acct(c) \in Account
           /\ \A x : Goes(c, x) => scr' = [scr EXCEPT ![c] = [scr[c] EXCEPT !.at = x]]
           /\ \A ok : Exits(c, ok) => scr' = [scr EXCEPT ![c] = After(scr[c], ok)]
           /\ \A g : Sets(c, g) => host' = [host EXCEPT ![scr[c].acct] = g]
           /\ UNCHANGED host => host' = [host EXCEPT ![scr[c].acct] = Acct(c)]
           /\ cmd[c] \in CmdType
<1>1. scr[c] \in ScrType /\ cmd[c] \in CmdType BY DEF TypeInv
<1>2. scr[c].acct \in Accounts BY <1>1 DEF ScrType
<1>3. Acct(c) \in Account BY <1>2 DEF TypeInv, Acct
<1> QED BY <1>1, <1>2, <1>3 DEF TypeInv, Acct, Goes, Exits, Sets

\* A step that leaves the sudoers trouble alone and goes on to place x.
LEMMA GoesStep ==
    ASSUME TypeInv, NEW c \in Cmds, NEW x \in ScriptSteps, NEW g \in Account,
           scr[c].at \in ScriptSteps, scr[c].at \in RemoveSteps <=> x \in RemoveSteps,
           Goes(c, x), host' = [host EXCEPT ![scr[c].acct] = g], UNCHANGED stuck, OnHost,
           \A s, r \in ScrType, st \in BOOLEAN :
              s = scr[c] /\ r.at = x /\ Like(s, r) => Keeps(s, Acct(c), st, r, g, st)
    PROVE  ScriptStep(c)
<1> DEFINE s == scr[c]
           r == [s EXCEPT !.at = x]
           st == s.acct \in stuck
<1>1. s \in ScrType /\ scr' = [scr EXCEPT ![c] = r] BY ScriptParts
<1>2. r \in ScrType /\ r.at = x /\ Like(s, r) BY <1>1, MovedTo DEF Places
<1>3. Onward(s, r) BY <1>1, GoesOnward
<1>4. st \in BOOLEAN /\ (s.acct \in stuck') = st OBVIOUS
<1>5. Keeps(s, Acct(c), st, r, g, st) BY <1>1, <1>2, <1>4
<1>6. Running(c) BY StepSets DEF Running
<1> HIDE DEF r
<1> QED BY <1>1, <1>2, <1>3, <1>4, <1>5, <1>6 DEF ScriptStep

LEMMA EndsStep ==
    ASSUME TypeInv, NEW c \in Cmds, NEW ok \in BOOLEAN, NEW g \in Account,
           scr[c].at \in ScriptSteps,
           Exits(c, ok), host' = [host EXCEPT ![scr[c].acct] = g], OnHost,
           stuck \subseteq stuck' /\ stuck' \subseteq stuck \cup {scr[c].acct},
           Keeps(scr[c], Acct(c), scr[c].acct \in stuck, After(scr[c], ok), g, scr[c].acct \in stuck')
    PROVE  ScriptStep(c)
<1>1. scr[c] \in ScrType /\ scr' = [scr EXCEPT ![c] = After(scr[c], ok)] BY ScriptParts
<1>2. After(scr[c], ok) \in ScrType /\ Onward(scr[c], After(scr[c], ok))
  BY <1>1, AfterIs, EndsOnward
<1>3. Running(c) BY StepSets DEF Running
<1> QED BY <1>1, <1>2, <1>3 DEF ScriptStep

\* An end that claims nothing: a failure, or a death.
LEMMA FailsStep ==
    ASSUME TypeInv, NEW c \in Cmds, scr[c].at \in ScriptSteps, Exits(c, FALSE), UNCHANGED host, OnHost,
           stuck \subseteq stuck' /\ stuck' \subseteq stuck \cup {scr[c].acct}
    PROVE  ScriptStep(c)
<1>1. scr[c] \in ScrType /\ Acct(c) \in Account /\ host' = [host EXCEPT ![scr[c].acct] = Acct(c)]
  BY ScriptParts
<1> DEFINE st == scr[c].acct \in stuck
           su == scr[c].acct \in stuck'
<1>2. st \in BOOLEAN /\ su \in BOOLEAN /\ (st => su) OBVIOUS
<1>3. Keeps(scr[c], Acct(c), st, After(scr[c], FALSE), Acct(c), su)
  <2> HIDE DEF st, su
  <2> QED BY <1>1, <1>2, EndKeeps, Zenon
<1> QED BY <1>1, <1>3, EndsStep

\* An end that is said to be well.
LEMMA DoneKeeps ==
    ASSUME NEW s \in ScrType, NEW h \in Account, NEW g \in Account, NEW st \in BOOLEAN,
           Sound(h, st) /\ Progress(s, h, st) =>
               /\ Sound(g, st) /\ (s.only => g.there)
               /\ IF s.at \in RemoveSteps THEN Left(s.only, g) ELSE g.there
    PROVE  Keeps(s, h, st, After(s, TRUE), g, st)
<1>1. CASE After(s, TRUE) = NoScript
  BY <1>1, NoScriptKeeps, NoScriptType DEF Keeps
<1>2. CASE Like(s, After(s, TRUE)) /\ After(s, TRUE).at = "done"
  BY <1>2 DEF Keeps, Progress, Like
<1> QED BY <1>1, <1>2, AfterIs

LEMMA LookSteps == ASSUME TypeInv, NEW c \in Cmds, Look(c) PROVE ScriptStep(c)
<1> DEFINE s == scr[c]
           h == Acct(c)
           st == s.acct \in stuck
<1>1. s \in ScrType /\ h \in Account /\ host' = [host EXCEPT ![s.acct] = h]
  BY ScriptParts DEF Look
<1>2. s.at = "look" /\ s.at \in ScriptSteps /\ UNCHANGED stuck /\ OnHost
  BY DEF Look, Step, ScriptSteps, CreateSteps
<1>3. {"useradd", "rb_line", "empty"} \subseteq ScriptSteps \ RemoveSteps /\ s.at \notin RemoveSteps
  BY <1>2 DEF ScriptSteps, CreateSteps, RollbackSteps, RemoveSteps
<1>4. CASE ~h.there
  <2>1. Goes(c, "useradd") BY <1>4 DEF Look, Goes
  <2>2. \A s1, r \in ScrType, st1 \in BOOLEAN :
           s1 = s /\ r.at = "useradd" /\ Like(s1, r) => Keeps(s1, h, st1, r, h, st1)
    BY <1>2 DEF Keeps, Progress, Like, RollbackSteps
  <2> QED BY <1>1, <1>2, <1>3, <2>1, <2>2, GoesStep
<1>5. CASE h.there /\ h.rec = "none"
  <2>1. Goes(c, "rb_line") BY <1>5 DEF Look, Goes
  <2>2. \A s1, r \in ScrType, st1 \in BOOLEAN :
           s1 = s /\ r.at = "rb_line" /\ Like(s1, r) => Keeps(s1, h, st1, r, h, st1)
    BY <1>2 DEF Keeps, Progress, Like, RollbackSteps
  <2> QED BY <1>1, <1>2, <1>3, <2>1, <2>2, GoesStep
<1>6. CASE h.there /\ h.rec # "none"
  <2> DEFINE r == [s EXCEPT !.at = "empty", !.adopted = TRUE]
  <2>1. scr' = [scr EXCEPT ![c] = r] BY <1>6 DEF Look
  <2>2. r \in ScrType /\ r.at = "empty" /\ Like(s, r)
    BY <1>1, <1>3 DEF ScrType, Like
  <2>3. r.at \in CreateSteps BY <2>2 DEF CreateSteps
  <2> HIDE DEF r
  <2>4. Onward(s, r) BY <1>3, <2>2, <2>3 DEF Onward, Like
  <2>5. Keeps(s, h, st, r, h, s.acct \in stuck')
    BY <1>2, <1>6, <2>2 DEF Keeps, Progress, Like, RollbackSteps
  <2>6. Running(c) BY <1>2 DEF Running
  <2> QED BY <1>1, <1>2, <2>1, <2>2, <2>4, <2>5, <2>6 DEF ScriptStep
<1> QED BY <1>4, <1>5, <1>6

LEMMA UseraddSteps == ASSUME TypeInv, NEW c \in Cmds, Useradd(c) PROVE ScriptStep(c)
<1> DEFINE h == Acct(c)
           g == [h EXCEPT !.there = TRUE, !.expired = FALSE, !.cred = NoOne, !.ssh = FALSE]
<1>1. h \in Account /\ scr[c].at = "useradd" /\ UNCHANGED stuck /\ OnHost /\ Goes(c, "made")
      /\ host' = [host EXCEPT ![scr[c].acct] = g]
  BY ScriptParts DEF Useradd, Step
<1>2. /\ scr[c].at \in ScriptSteps /\ "made" \in ScriptSteps
      /\ scr[c].at \in RemoveSteps <=> "made" \in RemoveSteps
  BY <1>1 DEF ScriptSteps, CreateSteps, RollbackSteps, RemoveSteps
<1>3. g \in Account /\ g.there /\ g.line = h.line /\ g.rec = h.rec
  BY <1>1 DEF Account
<1> HIDE DEF g
<1>4. \A s, r \in ScrType, st \in BOOLEAN :
         s = scr[c] /\ r.at = "made" /\ Like(s, r) => Keeps(s, h, st, r, g, st)
  BY <1>1, <1>3 DEF Keeps, Sound, Progress, Like, RollbackSteps
<1> QED BY <1>1, <1>2, <1>3, <1>4, GoesStep

LEMMA RecordSteps == ASSUME TypeInv, NEW c \in Cmds, Record(c) PROVE ScriptStep(c)
<1> DEFINE h == Acct(c)
           g == [h EXCEPT !.rec = "made"]
<1>1. h \in Account /\ scr[c].at = "record" /\ UNCHANGED stuck /\ OnHost /\ Goes(c, "empty")
      /\ host' = [host EXCEPT ![scr[c].acct] = g]
  BY ScriptParts DEF Record, Step
<1>2. /\ scr[c].at \in ScriptSteps /\ "empty" \in ScriptSteps
      /\ scr[c].at \in RemoveSteps <=> "empty" \in RemoveSteps
  BY <1>1 DEF ScriptSteps, CreateSteps, RollbackSteps, RemoveSteps
<1>3. g \in Account /\ g.there = h.there /\ g.line = h.line /\ g.rec = "made" /\ g.expired = h.expired
         /\ g.ssh = h.ssh /\ g.cred = h.cred
  BY <1>1 DEF Account
<1> HIDE DEF g
<1>4. \A s, r \in ScrType, st \in BOOLEAN :
         s = scr[c] /\ r.at = "empty" /\ Like(s, r) => Keeps(s, h, st, r, g, st)
  BY <1>1, <1>3 DEF Keeps, Sound, Progress, Like, RollbackSteps
<1> QED BY <1>1, <1>2, <1>3, <1>4, GoesStep

LEMMA MarkSteps == ASSUME TypeInv, NEW c \in Cmds, Mark(c) PROVE ScriptStep(c)
<1> DEFINE h == Acct(c)
           g == [h EXCEPT !.rec = "ssh"]
<1>1. h \in Account /\ scr[c].at = "mark" /\ UNCHANGED stuck /\ OnHost /\ Goes(c, "line")
      /\ host' = [host EXCEPT ![scr[c].acct] = g]
  BY ScriptParts DEF Mark, Step
<1>2. /\ scr[c].at \in ScriptSteps /\ "line" \in ScriptSteps
      /\ scr[c].at \in RemoveSteps <=> "line" \in RemoveSteps
  BY <1>1 DEF ScriptSteps, CreateSteps, RollbackSteps, RemoveSteps
<1>3. g \in Account /\ g.there = h.there /\ g.line = h.line /\ g.rec = "ssh" /\ g.expired = h.expired
         /\ g.ssh = h.ssh /\ g.cred = h.cred
  BY <1>1 DEF Account
<1> HIDE DEF g
<1>4. \A s, r \in ScrType, st \in BOOLEAN :
         s = scr[c] /\ r.at = "line" /\ Like(s, r) => Keeps(s, h, st, r, g, st)
  BY <1>1, <1>3 DEF Keeps, Sound, Progress, Like, RollbackSteps
<1> QED BY <1>1, <1>2, <1>3, <1>4, GoesStep

LEMMA RmLineSteps == ASSUME TypeInv, NEW c \in Cmds, RmLine(c) PROVE ScriptStep(c)
<1> DEFINE h == Acct(c)
           g == [h EXCEPT !.line = "none"]
<1>1. h \in Account /\ scr[c].at = "rm_line" /\ UNCHANGED stuck /\ OnHost /\ Goes(c, "rm_expire")
      /\ host' = [host EXCEPT ![scr[c].acct] = g]
  BY ScriptParts DEF RmLine, Step
<1>2. /\ scr[c].at \in ScriptSteps /\ "rm_expire" \in ScriptSteps
      /\ scr[c].at \in RemoveSteps <=> "rm_expire" \in RemoveSteps
  BY <1>1 DEF ScriptSteps, CreateSteps, RollbackSteps, RemoveSteps
<1>3. g \in Account /\ g.there = h.there /\ g.line = "none"
  BY <1>1 DEF Account
<1> HIDE DEF g
<1>4. \A s, r \in ScrType, st \in BOOLEAN :
         s = scr[c] /\ r.at = "rm_expire" /\ Like(s, r) => Keeps(s, h, st, r, g, st)
  BY <1>1, <1>3 DEF Keeps, Sound, Progress, Like, RollbackSteps
<1> QED BY <1>1, <1>2, <1>3, <1>4, GoesStep

LEMMA RmAbsentSteps == ASSUME TypeInv, NEW c \in Cmds, RmAbsent(c) PROVE ScriptStep(c)
<1> DEFINE h == Acct(c)
           g == [h EXCEPT !.line = "none"]
<1>1. h \in Account /\ scr[c].at = "rm_absent" /\ UNCHANGED stuck /\ OnHost /\ Goes(c, "rm_rec")
      /\ host' = [host EXCEPT ![scr[c].acct] = g]
  BY ScriptParts DEF RmAbsent, Step
<1>2. /\ scr[c].at \in ScriptSteps /\ "rm_rec" \in ScriptSteps
      /\ scr[c].at \in RemoveSteps <=> "rm_rec" \in RemoveSteps
  BY <1>1 DEF ScriptSteps, CreateSteps, RollbackSteps, RemoveSteps
<1>3. g \in Account /\ g.there = h.there /\ g.line = "none" /\ g.expired = h.expired
         /\ g.ssh = h.ssh /\ g.cred = h.cred
  BY <1>1 DEF Account
<1> HIDE DEF g
<1>4. \A s, r \in ScrType, st \in BOOLEAN :
         s = scr[c] /\ r.at = "rm_rec" /\ Like(s, r) => Keeps(s, h, st, r, g, st)
  BY <1>1, <1>3 DEF Keeps, Sound, Progress, Like, RollbackSteps
<1> QED BY <1>1, <1>2, <1>3, <1>4, GoesStep

LEMMA RmUserSteps == ASSUME TypeInv, NEW c \in Cmds, RmUser(c) PROVE ScriptStep(c)
<1> DEFINE h == Acct(c)
           g == Gone(h)
<1>1. h \in Account /\ scr[c].at = "rm_user" /\ UNCHANGED stuck /\ OnHost /\ Goes(c, "rm_rec")
      /\ host' = [host EXCEPT ![scr[c].acct] = g]
  BY ScriptParts DEF RmUser, Step, Gone
<1>2. /\ scr[c].at \in ScriptSteps /\ "rm_rec" \in ScriptSteps
      /\ scr[c].at \in RemoveSteps <=> "rm_rec" \in RemoveSteps
  BY <1>1 DEF ScriptSteps, CreateSteps, RollbackSteps, RemoveSteps
<1>3. g \in Account /\ ~g.there /\ g.line = h.line /\ ~g.expired /\ ~g.ssh /\ g.cred = NoOne
  BY <1>1 DEF Account, Gone
<1> HIDE DEF g
<1>4. \A s, r \in ScrType, st \in BOOLEAN :
         s = scr[c] /\ r.at = "rm_rec" /\ Like(s, r) => Keeps(s, h, st, r, g, st)
  BY <1>1, <1>3 DEF Keeps, Sound, Progress, Like, RollbackSteps
<1> QED BY <1>1, <1>2, <1>3, <1>4, GoesStep

\* The run knows from here on that the account is its own.
LEMMA MadeSteps == ASSUME TypeInv, NEW c \in Cmds, Made(c) PROVE ScriptStep(c)
<1> DEFINE s == scr[c]
           h == Acct(c)
           r == [s EXCEPT !.at = "record", !.created = TRUE]
<1>1. s \in ScrType /\ h \in Account /\ host' = [host EXCEPT ![s.acct] = h]
  BY ScriptParts DEF Made
<1>2. s.at = "made" /\ UNCHANGED stuck /\ OnHost /\ scr' = [scr EXCEPT ![c] = r]
  BY DEF Made, Step
<1>3. /\ r \in ScrType /\ r.at = "record" /\ r.acct = s.acct /\ r.only = s.only /\ r.conn = s.conn
      /\ r.touched = s.touched
  BY <1>1 DEF ScrType, ScriptSteps, CreateSteps
<1> HIDE DEF r
<1>4. Onward(s, r) BY <1>2, <1>3 DEF Onward, CreateSteps, RemoveSteps
<1>5. Keeps(s, h, s.acct \in stuck, r, h, s.acct \in stuck')
  BY <1>2, <1>3 DEF Keeps, Progress, RollbackSteps
<1>6. Running(c) BY <1>2 DEF Running
<1> QED BY <1>1, <1>2, <1>3, <1>4, <1>5, <1>6 DEF ScriptStep

\* A step of the create script that fails, or is stopped, takes back.
LEMMA ToRollback ==
    ASSUME TypeInv, NEW c \in Cmds, scr[c].at \in CreateSteps, Goes(c, "rb_line"),
           UNCHANGED <<host, stuck>>, OnHost
    PROVE  ScriptStep(c)
<1>1. scr[c].at \in ScriptSteps /\ scr[c].at \notin RemoveSteps BY StepSets
<1>2. "rb_line" \in ScriptSteps /\ "rb_line" \notin RemoveSteps
  BY DEF ScriptSteps, RollbackSteps, RemoveSteps
<1>3. Acct(c) \in Account /\ host' = [host EXCEPT ![scr[c].acct] = Acct(c)] BY ScriptParts
<1>4. \A s, r \in ScrType, st \in BOOLEAN :
         s = scr[c] /\ r.at = "rb_line" /\ Like(s, r) => Keeps(s, Acct(c), st, r, Acct(c), st)
  BY DEF Keeps, Progress, Like, RollbackSteps, CreateSteps
<1> QED BY <1>1, <1>2, <1>3, <1>4, GoesStep

LEMMA CreateFailsSteps == ASSUME TypeInv, NEW c \in Cmds, CreateFails(c) PROVE ScriptStep(c)
<1>1. CASE Goes(c, "rb_line") /\ UNCHANGED host
  <2>1. scr[c].at \in CreateSteps /\ UNCHANGED stuck /\ OnHost BY DEF CreateFails, CreateSteps
  <2> QED BY <1>1, <2>1, ToRollback
<1>2. CASE ~(Goes(c, "rb_line") /\ UNCHANGED host)
  <2> DEFINE s == scr[c]
             h == Acct(c)
             g == [h EXCEPT !.there = TRUE, !.expired = FALSE, !.cred = NoOne, !.ssh = FALSE]
             r == [s EXCEPT !.at = "rb_line", !.created = TRUE]
  <2>1. s \in ScrType /\ h \in Account BY ScriptParts
  <2>2. /\ s.at = "useradd" /\ UNCHANGED stuck /\ OnHost /\ scr' = [scr EXCEPT ![c] = r]
        /\ host' = [host EXCEPT ![s.acct] = g]
    BY <1>2, ScriptParts DEF CreateFails, Step
  <2>3. /\ r \in ScrType /\ r.at = "rb_line" /\ r.acct = s.acct /\ r.only = s.only /\ r.conn = s.conn
        /\ r.touched = s.touched
    BY <2>1 DEF ScrType, ScriptSteps, RollbackSteps
  <2>4. g \in Account /\ g.there /\ g.line = h.line /\ g.rec = h.rec BY <2>1 DEF Account
  <2> HIDE DEF r, g
  <2>5. Onward(s, r) BY <2>2, <2>3 DEF Onward, RollbackSteps, RemoveSteps
  <2>6. Keeps(s, h, s.acct \in stuck, r, g, s.acct \in stuck')
    BY <2>2, <2>3, <2>4 DEF Keeps, Progress, Sound, RollbackSteps
  <2>7. Running(c) BY <2>2 DEF Running
  <2> QED BY <2>2, <2>3, <2>4, <2>5, <2>6, <2>7 DEF ScriptStep
<1> QED BY <1>1, <1>2

LEMMA EmptySteps == ASSUME TypeInv, NEW c \in Cmds, Empty(c) PROVE ScriptStep(c)
<1> DEFINE s == scr[c]
           h == Acct(c)
           k == IF h.cred = Password /\ s.cred = Password THEN Password ELSE NoOne
           k2 == IF h.cred = Password THEN k ELSE h.cred
           z == h.ssh \/ s.cred # Password
<1>1. s \in ScrType /\ h \in Account BY ScriptParts
<1>2. s.at = "empty" /\ h.there /\ UNCHANGED stuck /\ OnHost BY DEF Empty, Step
<1>3. s.at \in ScriptSteps /\ s.at \notin RemoveSteps /\ {"rb_line", "write"} \subseteq ScriptSteps \ RemoveSteps
  BY <1>2 DEF ScriptSteps, CreateSteps, RollbackSteps, RemoveSteps
<1>4. k \in MaybeCred /\ k2 \in MaybeCred BY <1>1, AccountParts DEF MaybeCred, Creds
<1>5. \/ Goes(c, "rb_line") /\ host' = [host EXCEPT ![s.acct] = [h EXCEPT !.cred = k2]]
      \/ Goes(c, "write") /\ host' = [host EXCEPT ![s.acct] = [h EXCEPT !.cred = k, !.ssh = z]]
  BY ScriptParts DEF Empty
<1>11. z \in BOOLEAN BY <1>1, AccountParts
<1> HIDE DEF k, k2, z
<1>6. PICK x \in {"rb_line", "write"}, g \in Account :
         /\ Goes(c, x) /\ host' = [host EXCEPT ![s.acct] = g]
         /\ g.there = h.there /\ g.line = h.line /\ g.rec = h.rec
  <2>1. LET g == [h EXCEPT !.cred = k2]
        IN  g \in Account /\ g.there = h.there /\ g.line = h.line /\ g.rec = h.rec
    BY <1>1, <1>4 DEF Account, MaybeCred
  <2>2. LET g == [h EXCEPT !.cred = k, !.ssh = z]
        IN  g \in Account /\ g.there = h.there /\ g.line = h.line /\ g.rec = h.rec
    BY <1>1, <1>4, <1>11 DEF Account, MaybeCred
  <2> QED BY <1>5, <2>1, <2>2
<1>8. \A s1, r \in ScrType, st \in BOOLEAN :
         s1 = s /\ r.at = x /\ Like(s1, r) => Keeps(s1, h, st, r, g, st)
  BY <1>2, <1>6 DEF Keeps, Progress, Sound, Like, RollbackSteps
<1>9. x \in ScriptSteps /\ (s.at \in RemoveSteps <=> x \in RemoveSteps) BY <1>3
<1> QED BY <1>2, <1>3, <1>6, <1>8, <1>9, GoesStep

LEMMA WriteSteps == ASSUME TypeInv, NEW c \in Cmds, Write(c) PROVE ScriptStep(c)
<1> DEFINE s == scr[c]
           h == Acct(c)
           y == s.cred
           g == [h EXCEPT !.cred = y]
<1>1. s \in ScrType /\ h \in Account /\ y \in MaybeCred BY ScriptParts DEF ScrType
<1>2. /\ s.at = "write" /\ h.there /\ UNCHANGED stuck /\ OnHost
      /\ host' = [host EXCEPT ![s.acct] = g]
      /\ \E x \in {"line", "mark"} : Goes(c, x)
  BY ScriptParts DEF Write, Step
<1>3. s.at \in ScriptSteps /\ s.at \notin RemoveSteps /\ {"line", "mark"} \subseteq ScriptSteps \ RemoveSteps
  BY <1>2 DEF ScriptSteps, CreateSteps, RemoveSteps
<1> HIDE DEF y
<1>4. g \in Account /\ g.there = h.there /\ g.line = h.line /\ g.rec = h.rec
  BY <1>1 DEF Account, MaybeCred
<1> HIDE DEF g
<1>5. PICK x \in {"line", "mark"} : Goes(c, x) BY <1>2
<1>6. \A s1, r \in ScrType, st \in BOOLEAN :
         s1 = s /\ r.at = x /\ Like(s1, r) => Keeps(s1, h, st, r, g, st)
  BY <1>2, <1>4 DEF Keeps, Progress, Sound, Like, RollbackSteps
<1>7. x \in ScriptSteps /\ (s.at \in RemoveSteps <=> x \in RemoveSteps) BY <1>3
<1> QED BY <1>2, <1>3, <1>4, <1>5, <1>6, <1>7, GoesStep

LEMMA AuthType == \A k : AuthOf(k) \in {"key", "password"}
BY DEF AuthOf

LEMMA LineSteps == ASSUME TypeInv, NEW c \in Cmds, Line(c) PROVE ScriptStep(c)
<1> DEFINE s == scr[c]
           h == Acct(c)
           new == AuthOf(s.cred)
           t == h.line # new
           u == h.line = "none"
           g == [h EXCEPT !.line = new]
           r == [s EXCEPT !.at = "end", !.prev = h.line, !.touched = t, !.added = u]
<1>1. /\ s \in ScrType /\ h \in Account /\ new \in {"key", "password"} /\ h.line \in {"none", "key", "password"}
      /\ t \in BOOLEAN /\ u \in BOOLEAN
  BY ScriptParts, AuthType, AccountParts
<1>2. /\ s.at = "line" /\ UNCHANGED stuck /\ OnHost /\ scr' = [scr EXCEPT ![c] = r]
      /\ host' = [host EXCEPT ![s.acct] = g]
  BY ScriptParts DEF Line, Step
<1> HIDE DEF new, t, u
<1>3. /\ r \in ScrType /\ r.at = "end" /\ r.acct = s.acct /\ r.only = s.only /\ r.conn = s.conn
  BY <1>1 DEF ScrType, ScriptSteps, CreateSteps
<1>4. /\ g \in Account /\ g.there = h.there /\ g.rec = h.rec /\ g.expired = h.expired
      /\ g.ssh = h.ssh /\ g.cred = h.cred
  BY <1>1 DEF Account
<1> HIDE DEF r, g
<1>5. Onward(s, r) BY <1>2, <1>3 DEF Onward, CreateSteps, RemoveSteps
<1>6. Keeps(s, h, s.acct \in stuck, r, g, s.acct \in stuck')
  BY <1>2, <1>3, <1>4 DEF Keeps, Progress, Sound, RollbackSteps
<1>7. Running(c) BY <1>2 DEF Running
<1> QED BY <1>2, <1>3, <1>4, <1>5, <1>6, <1>7 DEF ScriptStep

LEMMA EndSteps == ASSUME TypeInv, NEW c \in Cmds, End(c) PROVE ScriptStep(c)
<1> DEFINE s == scr[c]
           h == Acct(c)
           m == [s EXCEPT !.touched = FALSE]
           r == After(m, TRUE)
<1>1. s \in ScrType /\ h \in Account /\ host' = [host EXCEPT ![s.acct] = h]
  BY ScriptParts DEF End
<1>2. s.at = "end" /\ UNCHANGED stuck /\ OnHost /\ scr' = [scr EXCEPT ![c] = r]
  BY DEF End, Step
<1>3. m \in ScrType /\ m.acct = s.acct /\ m.only = s.only /\ m.conn = s.conn /\ m.at = "end" /\ ~m.touched
  BY <1>1, <1>2 DEF ScrType
<1> HIDE DEF m
<1>4. r \in ScrType /\ Onward(s, r)
  <2>1. /\ r \in ScrType
        /\ \/ m.conn # "up" /\ r = NoScript
           \/ m.conn = "up" /\ Like(m, r) /\ r.at = "done"
    BY <1>3, AfterIs
  <2> HIDE DEF r
  <2>2. CASE r = NoScript /\ s.conn # "up" BY <2>1, <2>2 DEF Onward
  <2>3. CASE Like(m, r) /\ r.at = "done" /\ s.conn = "up" BY <1>3, <2>1, <2>3 DEF Onward, Like
  <2> QED BY <1>3, <2>1, <2>2, <2>3
<1>5. Keeps(m, h, s.acct \in stuck, r, h, s.acct \in stuck)
  <2>1. Progress(m, h, s.acct \in stuck) => h.there BY <1>3 DEF Progress
  <2>2. m.at \notin RemoveSteps BY <1>3 DEF RemoveSteps
  <2>3. (s.acct \in stuck) \in BOOLEAN OBVIOUS
  <2> QED BY <1>1, <1>3, <2>1, <2>2, <2>3, DoneKeeps
<1>6. Keeps(s, h, s.acct \in stuck, r, h, s.acct \in stuck')
  <2>1. Progress(s, h, s.acct \in stuck) => Progress(m, h, s.acct \in stuck)
    BY <1>2, <1>3 DEF Progress
  <2>2. s.at \notin RemoveSteps /\ m.at \notin RemoveSteps BY <1>2, <1>3 DEF RemoveSteps
  <2> QED BY <1>2, <1>5, <2>1, <2>2 DEF Keeps
<1>7. Running(c) BY <1>2 DEF Running
<1> HIDE DEF r
<1> QED BY <1>1, <1>2, <1>4, <1>6, <1>7 DEF ScriptStep

\* The rollback: the line of the run goes, then the account, then the record.
LEMMA RbLineSteps == ASSUME TypeInv, NEW c \in Cmds, RbLine(c) PROVE ScriptStep(c)
<1> DEFINE s == scr[c]
           h == Acct(c)
           v == CASE s.created -> "none"
                  [] ~s.created /\ s.touched -> s.prev
                  [] OTHER -> h.line
           g == [h EXCEPT !.line = v]
<1>1. s \in ScrType /\ h \in Account BY ScriptParts
<1>2. /\ s.at = "rb_line" /\ UNCHANGED stuck /\ OnHost
      /\ host' = [host EXCEPT ![s.acct] = g]
      /\ IF s.created THEN Goes(c, "rb_user") ELSE Exits(c, FALSE)
  BY ScriptParts DEF RbLine, Step
<1>3. /\ s.created \in BOOLEAN /\ s.touched \in BOOLEAN /\ s.prev \in {"none", "key", "password"}
      /\ h.line \in {"none", "key", "password"}
  BY <1>1, AccountParts DEF ScrType
<1>4. /\ v \in {"none", "key", "password"}
      /\ s.created => v = "none"
      /\ ~s.created /\ ~s.touched => v = h.line
  BY <1>3
<1> HIDE DEF v
<1>5. /\ g \in Account /\ g.there = h.there /\ g.rec = h.rec /\ g.expired = h.expired
      /\ g.ssh = h.ssh /\ g.cred = h.cred /\ g.line = v
  BY <1>1, <1>4 DEF Account
<1> HIDE DEF g
<1>6. s.at \in ScriptSteps /\ s.at \notin RemoveSteps /\ "rb_user" \in ScriptSteps \ RemoveSteps
  BY <1>2 DEF ScriptSteps, RollbackSteps, RemoveSteps
<1>7. \A st : Sound(h, st) /\ Progress(s, h, st) => Sound(g, st) /\ ~s.only
  BY <1>2, <1>3, <1>4, <1>5 DEF Sound, Progress
<1>8. CASE s.created
  <2>1. \A s1, r \in ScrType, st \in BOOLEAN :
           s1 = s /\ r.at = "rb_user" /\ Like(s1, r) => Keeps(s1, h, st, r, g, st)
    BY <1>2, <1>4, <1>5, <1>7, <1>8 DEF Keeps, Progress, Like, RollbackSteps
  <2> QED BY <1>2, <1>5, <1>6, <1>8, <2>1, GoesStep
<1>9. CASE ~s.created
  <2> DEFINE r == After(s, FALSE)
             st == s.acct \in stuck
  <2>1. Keeps(s, h, st, r, g, st)
    <3>1. CASE r = NoScript BY <1>7, <3>1, NoScriptKeeps, NoScriptType DEF Keeps
    <3>2. CASE Like(s, r) /\ r.at = "done" /\ r.ok = FALSE
      BY <1>7, <3>2 DEF Keeps, Progress, Like
    <3> QED BY <1>1, <3>1, <3>2, AfterIs
  <2>2. (s.acct \in stuck') = st BY <1>2
  <2> HIDE DEF st, r
  <2>3. Keeps(s, h, s.acct \in stuck, After(s, FALSE), g, s.acct \in stuck') BY <2>1, <2>2 DEF st, r
  <2> QED BY <1>2, <1>5, <1>6, <1>9, <2>3, EndsStep
<1> QED BY <1>8, <1>9

LEMMA RbLineFailsSteps == ASSUME TypeInv, NEW c \in Cmds, RbLineFails(c) PROVE ScriptStep(c)
<1> DEFINE s == scr[c]
           h == Acct(c)
<1>1. s \in ScrType /\ h \in Account /\ host' = [host EXCEPT ![s.acct] = h]
  BY ScriptParts DEF RbLineFails
<1>2. /\ s.at = "rb_line" /\ stuck' = stuck \cup {s.acct} /\ OnHost /\ UNCHANGED host
      /\ IF s.created THEN Goes(c, "rb_user") ELSE Exits(c, FALSE)
  BY DEF RbLineFails, Step
<1>3. s.at \in ScriptSteps /\ s.at \notin RemoveSteps /\ "rb_user" \in ScriptSteps \ RemoveSteps
  BY <1>2 DEF ScriptSteps, RollbackSteps, RemoveSteps
<1>4. CASE ~s.created BY <1>2, <1>3, <1>4, FailsStep
<1>5. CASE s.created
  <2> DEFINE r == [s EXCEPT !.at = "rb_user"]
  <2>1. scr' = [scr EXCEPT ![c] = r] BY <1>2, <1>5, ScriptParts
  <2>2. r \in ScrType /\ r.at = "rb_user" /\ Like(s, r) BY <1>1, <1>3, MovedTo DEF Places
  <2>3. Onward(s, r) BY <1>1, <1>3, GoesOnward
  <2> HIDE DEF r
  <2>4. Keeps(s, h, s.acct \in stuck, r, h, s.acct \in stuck')
    BY <1>2, <2>2 DEF Keeps, Sound, Progress, Like, RollbackSteps
  <2>5. Running(c) BY <1>2 DEF Running
  <2> QED BY <1>1, <1>2, <2>1, <2>2, <2>3, <2>4, <2>5 DEF ScriptStep
<1> QED BY <1>4, <1>5

LEMMA GoneIs ==
    ASSUME NEW h \in Account
    PROVE  /\ Gone(h) \in Account /\ ~Gone(h).there /\ ~Gone(h).expired /\ ~Gone(h).ssh
           /\ Gone(h).cred = NoOne /\ Gone(h).line = h.line /\ Gone(h).rec = h.rec
BY DEF Account, Gone

LEMMA RbUserSteps == ASSUME TypeInv, NEW c \in Cmds, RbUser(c) PROVE ScriptStep(c)
<1>1. scr[c].at = "rb_user" /\ UNCHANGED stuck /\ OnHost BY DEF RbUser, Step
<1>2. scr[c].at \in ScriptSteps /\ scr[c].at \notin RemoveSteps /\ "rb_rec" \in ScriptSteps \ RemoveSteps
  BY <1>1 DEF ScriptSteps, RollbackSteps, RemoveSteps
<1>3. CASE UNCHANGED host /\ Exits(c, FALSE) BY <1>1, <1>2, <1>3, FailsStep
<1>4. CASE Sets(c, Gone(Acct(c))) /\ Goes(c, "rb_rec")
  <2> DEFINE h == Acct(c)
             g == Gone(h)
  <2>1. h \in Account /\ host' = [host EXCEPT ![scr[c].acct] = g] BY <1>4, ScriptParts
  <2>2. g \in Account /\ ~g.there /\ ~g.expired /\ ~g.ssh /\ g.cred = NoOne /\ g.line = h.line
    BY <2>1, GoneIs
  <2> HIDE DEF g
  <2>3. \A s, r \in ScrType, st \in BOOLEAN :
           s = scr[c] /\ r.at = "rb_rec" /\ Like(s, r) => Keeps(s, h, st, r, g, st)
    BY <1>1, <2>2 DEF Keeps, Sound, Progress, Like, RollbackSteps
  <2> QED BY <1>1, <1>2, <1>4, <2>1, <2>2, <2>3, GoesStep
<1> QED BY <1>3, <1>4 DEF RbUser

LEMMA RbRecSteps == ASSUME TypeInv, NEW c \in Cmds, RbRec(c) PROVE ScriptStep(c)
<1> DEFINE s == scr[c]
           h == Acct(c)
           g == [h EXCEPT !.rec = "none"]
           r == After(s, FALSE)
           st == s.acct \in stuck
<1>1. s \in ScrType /\ h \in Account BY ScriptParts
<1>2. /\ s.at = "rb_rec" /\ UNCHANGED stuck /\ OnHost /\ Exits(c, FALSE)
      /\ host' = [host EXCEPT ![s.acct] = g]
  BY ScriptParts DEF RbRec, Step
<1>3. /\ g \in Account /\ g.there = h.there /\ g.line = h.line /\ g.expired = h.expired
      /\ g.ssh = h.ssh /\ g.cred = h.cred
  BY <1>1 DEF Account
<1> HIDE DEF g
<1>4. s.at \in ScriptSteps BY <1>2 DEF ScriptSteps, RollbackSteps
<1>5. Sound(h, st) /\ Progress(s, h, st) => Sound(g, st) /\ ~s.only
  BY <1>2, <1>3 DEF Sound, Progress
<1>6. Keeps(s, h, st, r, g, st)
  <2>1. CASE r = NoScript BY <1>5, <2>1, NoScriptKeeps, NoScriptType DEF Keeps
  <2>2. CASE Like(s, r) /\ r.at = "done" /\ r.ok = FALSE
    BY <1>5, <2>2 DEF Keeps, Progress, Like
  <2> QED BY <1>1, <2>1, <2>2, AfterIs
<1>7. (s.acct \in stuck') = st BY <1>2
<1> HIDE DEF r, st
<1>8. Keeps(s, h, s.acct \in stuck, After(s, FALSE), g, s.acct \in stuck') BY <1>6, <1>7 DEF r, st
<1> QED BY <1>2, <1>3, <1>4, <1>8, EndsStep

\* The remove script.
LEMMA RmLookSteps == ASSUME TypeInv, NEW c \in Cmds, RmLook(c) PROVE ScriptStep(c)
<1> DEFINE s == scr[c]
           h == Acct(c)
<1>1. s \in ScrType /\ h \in Account /\ host' = [host EXCEPT ![s.acct] = h] /\ h.there \in BOOLEAN
  BY ScriptParts, AccountParts DEF RmLook
<1>2. s.at = "rm_look" /\ UNCHANGED <<host, stuck>> /\ OnHost BY DEF RmLook, Step
<1>3. s.at \in ScriptSteps /\ s.at \in RemoveSteps
      /\ {"rm_only", "rm_absent", "rm_line"} \subseteq ScriptSteps \cap RemoveSteps
  BY <1>2 DEF ScriptSteps, RemoveSteps
<1>4. CASE Exits(c, FALSE) BY <1>2, <1>3, <1>4, FailsStep
<1>5. CASE \E x \in {"rm_only", "rm_absent", "rm_line"} :
              /\ Goes(c, x)
              /\ x = "rm_only" <=> s.only
              /\ x = "rm_absent" => ~h.there
              /\ x = "rm_line" => h.there
  <2>1. PICK x \in {"rm_only", "rm_absent", "rm_line"} :
              /\ Goes(c, x)
              /\ x = "rm_only" <=> s.only
              /\ x = "rm_absent" => ~h.there
              /\ x = "rm_line" => h.there
    BY <1>5
  <2>2. \A s1, r \in ScrType, st \in BOOLEAN :
           s1 = s /\ r.at = x /\ Like(s1, r) => Keeps(s1, h, st, r, h, st)
    BY <1>2, <2>1 DEF Keeps, Sound, Progress, Like, RollbackSteps
  <2> QED BY <1>1, <1>2, <1>3, <2>1, <2>2, GoesStep
<1>6. s.only \in BOOLEAN BY <1>1 DEF ScrType
<1> QED BY <1>1, <1>4, <1>5, <1>6 DEF RmLook

LEMMA RmExpireSteps == ASSUME TypeInv, NEW c \in Cmds, RmExpire(c) PROVE ScriptStep(c)
<1> DEFINE h == Acct(c)
<1>1. scr[c].at = "rm_expire" /\ UNCHANGED stuck /\ OnHost /\ Goes(c, "rm_user") BY DEF RmExpire, Step
<1>2. h \in Account BY ScriptParts
<1>3. \E x \in BOOLEAN : host' = [host EXCEPT ![scr[c].acct] = [h EXCEPT !.expired = x]]
  <2>1. CASE Sets(c, [h EXCEPT !.expired = TRUE])
    <3>1. TRUE \in BOOLEAN OBVIOUS
    <3>2. host' = [host EXCEPT ![scr[c].acct] = [h EXCEPT !.expired = TRUE]] BY <2>1 DEF Sets
    <3> QED BY <3>1, <3>2
  <2>2. CASE UNCHANGED host
    <3>1. h.expired \in BOOLEAN /\ h = [h EXCEPT !.expired = h.expired] BY <1>2 DEF Account
    <3>2. host' = [host EXCEPT ![scr[c].acct] = h] BY <2>2, ScriptParts
    <3> QED BY <3>1, <3>2
  <2> QED BY <2>1, <2>2 DEF RmExpire
<1>4. PICK x \in BOOLEAN : host' = [host EXCEPT ![scr[c].acct] = [h EXCEPT !.expired = x]] BY <1>3
<1> DEFINE g == [h EXCEPT !.expired = x]
<1>5. g \in Account /\ g.there = h.there /\ g.line = h.line BY <1>2 DEF Account
<1>6. host' = [host EXCEPT ![scr[c].acct] = g] BY <1>4
<1> HIDE DEF g
<1>7. \A s, r \in ScrType, st \in BOOLEAN :
         s = scr[c] /\ r.at = "rm_user" /\ Like(s, r) => Keeps(s, h, st, r, g, st)
  BY <1>1, <1>5 DEF Keeps, Sound, Progress, Like, RollbackSteps
<1>8. /\ scr[c].at \in ScriptSteps /\ "rm_user" \in ScriptSteps
      /\ scr[c].at \in RemoveSteps <=> "rm_user" \in RemoveSteps
  BY <1>1 DEF ScriptSteps, RemoveSteps
<1> QED BY <1>1, <1>5, <1>6, <1>7, <1>8, GoesStep

LEMMA RmEndSteps ==
    ASSUME TypeInv, NEW c \in Cmds, RmOnly(c) \/ RmRec(c) PROVE ScriptStep(c)
<1> DEFINE s == scr[c]
           h == Acct(c)
           st == s.acct \in stuck
<1>1. s \in ScrType /\ h \in Account BY ScriptParts
<1>2. /\ s.at \in {"rm_only", "rm_rec"} /\ UNCHANGED stuck /\ OnHost /\ Exits(c, TRUE)
  BY DEF RmOnly, RmRec, Step
<1>3. \E g \in Account :
         /\ host' = [host EXCEPT ![s.acct] = g]
         /\ g.there = h.there /\ g.expired = h.expired /\ g.ssh = h.ssh /\ g.cred = h.cred
         /\ s.at = "rm_only" => g.line = "none" /\ g.rec = h.rec
         /\ s.at = "rm_rec" => g.line = h.line /\ g.rec = "none"
  <2>1. CASE RmOnly(c)
    <3> DEFINE g == [h EXCEPT !.line = "none"]
    <3>1. s.at = "rm_only" /\ host' = [host EXCEPT ![s.acct] = g] BY <2>1, ScriptParts DEF RmOnly, Step
    <3>2. /\ g \in Account /\ g.there = h.there /\ g.expired = h.expired /\ g.ssh = h.ssh
          /\ g.cred = h.cred /\ g.line = "none" /\ g.rec = h.rec
      BY <1>1 DEF Account
    <3> HIDE DEF g
    <3> QED BY <3>1, <3>2
  <2>2. CASE RmRec(c)
    <3> DEFINE g == [h EXCEPT !.rec = "none"]
    <3>1. s.at = "rm_rec" /\ host' = [host EXCEPT ![s.acct] = g] BY <2>2, ScriptParts DEF RmRec, Step
    <3>2. /\ g \in Account /\ g.there = h.there /\ g.expired = h.expired /\ g.ssh = h.ssh
          /\ g.cred = h.cred /\ g.line = h.line /\ g.rec = "none"
      BY <1>1 DEF Account
    <3> HIDE DEF g
    <3> QED BY <3>1, <3>2
  <2> QED BY <2>1, <2>2
<1>4. PICK g \in Account :
         /\ host' = [host EXCEPT ![s.acct] = g]
         /\ g.there = h.there /\ g.expired = h.expired /\ g.ssh = h.ssh /\ g.cred = h.cred
         /\ s.at = "rm_only" => g.line = "none" /\ g.rec = h.rec
         /\ s.at = "rm_rec" => g.line = h.line /\ g.rec = "none"
  BY <1>3
<1>5. s.at \in ScriptSteps /\ s.at \in RemoveSteps BY <1>2 DEF ScriptSteps, RemoveSteps
<1>6. ASSUME Sound(h, st), Progress(s, h, st)
      PROVE  Sound(g, st) /\ (s.only => g.there) /\ Left(s.only, g)
  <2>1. s.only <=> s.at = "rm_only" BY <1>2, <1>6 DEF Progress
  <2>2. g.line = "none" BY <1>2, <1>4, <1>6 DEF Progress
  <2>3. ~s.only => ~g.there /\ ~g.expired /\ ~g.ssh /\ g.cred = NoOne /\ g.rec = "none"
    BY <1>2, <1>4, <1>6, <2>1 DEF Progress, Sound
  <2>4. Sound(g, st) /\ (s.only => g.there) BY <1>4, <1>6, <2>2 DEF Progress, Sound
  <2> QED BY <2>2, <2>3, <2>4, BareIs DEF Left
<1>7. st \in BOOLEAN /\ (s.acct \in stuck') = st BY <1>2
<1>8. Keeps(s, h, st, After(s, TRUE), g, st) BY <1>1, <1>5, <1>6, <1>7, DoneKeeps
<1>9. Keeps(s, h, s.acct \in stuck, After(s, TRUE), g, s.acct \in stuck') BY <1>7, <1>8
<1> QED BY <1>2, <1>4, <1>5, <1>9, EndsStep

LEMMA RemoveFailsSteps == ASSUME TypeInv, NEW c \in Cmds, RemoveFails(c) PROVE ScriptStep(c)
<1>1. scr[c].at \in ScriptSteps BY DEF RemoveFails, ScriptSteps, RemoveSteps
<1>2. Exits(c, FALSE) /\ UNCHANGED host /\ OnHost BY DEF RemoveFails
<1>3. stuck \subseteq stuck' /\ stuck' \subseteq stuck \cup {scr[c].acct} BY DEF RemoveFails
<1> QED BY <1>1, <1>2, <1>3, FailsStep

\* A hang-up, and the end of the host's or the shell's life.
LEMMA RunningSteps == ASSUME TypeInv, NEW c \in Cmds, Running(c) PROVE scr[c].at \in ScriptSteps
BY ScriptParts DEF Running, ScrType

LEMMA StoppedSteps ==
    ASSUME TypeInv, NEW c \in Cmds, HangUp(c) \/ HangUpMute(c) \/ Power(c) PROVE ScriptStep(c)
<1> DEFINE s == scr[c]
           h == Acct(c)
<1>1. s \in ScrType /\ h \in Account /\ host' = [host EXCEPT ![s.acct] = h]
  BY ScriptParts DEF HangUp, HangUpMute, Power
<1>2. s.at \in ScriptSteps /\ UNCHANGED <<host, stuck>> /\ OnHost /\ Running(c)
  BY RunningSteps DEF HangUp, HangUpMute, Power
<1>3. CASE Power(c) BY <1>2, <1>3, FailsStep DEF Power
<1>4. CASE s.conn # "up" /\ scr' = [scr EXCEPT ![c] = NoScript]
  <2>1. Keeps(s, h, s.acct \in stuck, NoScript, h, s.acct \in stuck')
    BY <1>2, NoScriptKeeps, NoScriptType DEF Keeps
  <2> QED BY <1>1, <1>2, <1>4, <2>1, NoScriptType DEF ScriptStep, Onward
<1>5. CASE HangUp(c) /\ s.at \in CreateSteps
  <2> DEFINE m == [s EXCEPT !.conn = "told"]
             r == [m EXCEPT !.at = "rb_line"]
  <2>1. m \in ScrType /\ m.acct = s.acct /\ m.only = s.only /\ m.touched = s.touched
        /\ m.conn = "told" /\ m.at = s.at
    BY <1>1 DEF ScrType
  <2>2. scr' = [scr EXCEPT ![c] = r] /\ s.conn = "gone" BY <1>5, <2>1 DEF HangUp
  <2> HIDE DEF m
  <2>3. "rb_line" \in Places /\ "rb_line" \in RollbackSteps
    BY DEF Places, ScriptSteps, RollbackSteps
  <2>4. r \in ScrType /\ r.at = "rb_line" /\ Like(m, r) BY <2>1, <2>3, MovedTo
  <2> HIDE DEF r
  <2>5. Onward(s, r)
    <3>1. s.at \notin RemoveSteps BY <1>5, StepSets
    <3> QED BY <2>1, <2>2, <2>3, <2>4, <3>1 DEF Onward, Like
  <2>6. Keeps(s, h, s.acct \in stuck, r, h, s.acct \in stuck')
    BY <1>2, <1>5, <2>1, <2>4 DEF Keeps, Progress, Like, RollbackSteps, CreateSteps
  <2> QED BY <1>1, <1>2, <2>2, <2>4, <2>5, <2>6 DEF ScriptStep
<1>6. CASE HangUp(c) /\ s.at \notin CreateSteps
  <2>1. [s EXCEPT !.conn = "told"].at = s.at /\ s.conn = "gone" BY <1>1, <1>6 DEF ScrType, HangUp
  <2>2. scr' = [scr EXCEPT ![c] = NoScript] BY <1>6, <2>1 DEF HangUp
  <2> QED BY <1>4, <2>1, <2>2
<1> QED BY <1>3, <1>4, <1>5, <1>6 DEF HangUpMute

LEMMA EveryScriptStep == ASSUME TypeInv, NEW c \in Cmds, Script(c) PROVE ScriptStep(c)
BY LookSteps, UseraddSteps, MadeSteps, RecordSteps, EmptySteps, WriteSteps, MarkSteps, LineSteps,
   EndSteps, CreateFailsSteps, RbLineSteps, RbLineFailsSteps, RbUserSteps, RbRecSteps, RmLookSteps,
   RmEndSteps, RmAbsentSteps, RmLineSteps, RmExpireSteps, RmUserSteps, RemoveFailsSteps, StoppedSteps
   DEF Script

----------------------------------------------------------------------------
(* A step of a script among everyone else.                                  *)

Runs0(s) == s.at \notin {"none", "done"}

LEMMA OnwardScript0 ==
    ASSUME NEW s \in ScrType, NEW r \in ScrType, NEW k \in CmdType, Script0(s, k), Onward(s, r),
           Runs0(s)
    PROVE  Script0(r, k)
<1>1. k.at \in Waits \cup {"idle"}
  BY NoScriptType DEF Script0, Runs0
<1>2. CASE k.at = "idle"
  <2>1. s.conn # "up" BY <1>2 DEF Script0, Runs0
  <2>2. r.at = "none" => r = NoScript BY StepSets, NoScriptType DEF Onward
  <2>3. r.at = "none" \/ (r.at # "done" /\ r.conn # "up")
    BY <2>1, StepSets, NoScriptType DEF Onward
  <2> QED BY <1>2, <2>2, <2>3 DEF Script0, Waits
<1>3. CASE k.at \in Waits
  <2>1. s.conn = "up" BY <1>3 DEF Script0
  <2>2. /\ r.acct = s.acct /\ r.only = s.only /\ r.conn = "up"
        /\ \/ s.at \in RemoveSteps /\ r.at \in RemoveSteps
           \/ s.at \notin RemoveSteps /\ r.at \in CreateSteps \cup RollbackSteps
           \/ r.at = "done"
    BY <2>1 DEF Onward
  <2>3. r.at # "none" BY <2>2, StepSets
  <2>4. k.at = "creating" => s.at \notin RemoveSteps BY StepSets DEF Script0, Runs0
  <2>5. k.at \in {"taking", "removing"} => s.at \in RemoveSteps BY DEF Script0, Runs0
  <2>6. k.at # "idle" BY <1>3 DEF Waits
  <2> QED BY <1>3, <2>2, <2>3, <2>4, <2>5, <2>6 DEF Script0
<1> QED BY <1>1, <1>2, <1>3

LEMMA ScriptInv == ASSUME Inv, NEW c \in Cmds, ScriptStep(c) PROVE Inv'
<1>1. TypeInv /\ CredInv /\ WorkInv BY DEF Inv
<1> DEFINE s == scr[c]
           a == s.acct
           h == host[a]
<1>2. s \in ScrType /\ a \in Accounts /\ Acct(c) = h /\ h \in Account /\ cmd[c] \in CmdType
  BY <1>1, ScriptParts DEF Acct
<1>3. PICK r \in ScrType, g \in Account :
        /\ scr' = [scr EXCEPT ![c] = r] /\ host' = [host EXCEPT ![a] = g]
        /\ Onward(s, r) /\ Keeps(s, h, a \in stuck, r, g, a \in stuck')
        /\ stuck \subseteq stuck' /\ stuck' \subseteq stuck \cup {a}
        /\ Running(c) /\ OnHost
  BY <1>2 DEF ScriptStep
<1>4. /\ scr'[c] = r /\ \A d \in Cmds \ {c} : scr'[d] = scr[d]
      /\ host'[a] = g /\ \A b \in Accounts \ {a} : host'[b] = host[b]
      /\ UNCHANGED <<reg, rootless, prov, lock, cmd, crossed>>
  BY <1>1, <1>2, <1>3 DEF TypeInv, OnHost
<1>5. Runs0(s) BY <1>3 DEF Running, Runs0
<1>6. TypeInv'
  <2>1. scr' \in [Cmds -> ScrType] /\ host' \in [Accounts -> Account] BY <1>1, <1>2, <1>3 DEF TypeInv
  <2>2. stuck' \subseteq Accounts BY <1>1, <1>2, <1>3 DEF TypeInv
  <2> QED BY <1>1, <1>4, <2>1, <2>2 DEF TypeInv
<1>7. CredInv' BY <1>1, <1>4 DEF CredInv
<1>8. WorkInv'
  <2>1. Script0(r, cmd[c]) BY <1>1, <1>2, <1>3, <1>5, OnwardScript0 DEF WorkInv
  <2> QED BY <1>1, <1>4, <2>1 DEF WorkInv
<1>9. ASSUME ~crossed' PROVE Calm'
  <2>1. Reached /\ HostInv /\ ProgressInv /\ ApartInv /\ KnownInv BY <1>4, <1>9 DEF Inv, Calm
  <2>2. Sound(h, a \in stuck) /\ Progress(s, h, a \in stuck)
    BY <1>2, <2>1 DEF HostInv, ProgressInv
  <2>3. /\ Sound(g, a \in stuck') /\ Progress(r, g, a \in stuck')
        /\ r.at = "done" /\ r.ok => IF s.at \in RemoveSteps THEN Left(r.only, g) ELSE g.there
    BY <1>3, <2>2 DEF Keeps
  <2>4. \A b \in Accounts \ {a} : host'[b] = host[b] /\ (b \in stuck' <=> b \in stuck)
    BY <1>3, <1>4
  <2>5. \/ r = NoScript
        \/ r.acct = a /\ r.at # "none"
    BY <1>3, StepSets DEF Onward
  <2>6. \A d \in Cmds : Running(d)' => Running(d) /\ scr'[d].acct = scr[d].acct
    <3>1. Running(c)' => r # NoScript BY <1>4, NoScriptType DEF Running
    <3>2. Running(c)' => Running(c) /\ scr'[c].acct = scr[c].acct BY <1>3, <1>4, <2>5, <3>1
    <3>3. \A d \in Cmds \ {c} : Running(d)' => Running(d) /\ scr'[d].acct = scr[d].acct
      BY <1>4 DEF Running
    <3> QED BY <3>2, <3>3
  <2>7. \A d \in Cmds \ {c} : scr[d].at # "none" => scr[d].acct # a
    BY <1>3, <2>1 DEF ApartInv
  <2>8. reg.login # a /\ reg.login \in Accounts BY <1>1, <1>3, <2>1 DEF ApartInv, TypeInv
  <2>9. Reached' BY <1>4, <2>1, <2>8 DEF Reached, LogsIn, Works
  <2>10. HostInv' BY <1>4, <2>1, <2>3, <2>4 DEF HostInv
  <2>11. ProgressInv'
    <3>1. ASSUME NEW d \in Cmds \ {c}
          PROVE  Progress(scr'[d], host'[scr'[d].acct], scr'[d].acct \in stuck')
      <4>1. scr'[d] = scr[d] /\ scr[d].acct \in Accounts
        BY <1>1, <1>4 DEF TypeInv, ScrType
      <4>2. CASE scr[d].at = "none"
        <5>1. scr[d] = NoScript BY <1>1, <4>2 DEF WorkInv, Script0
        <5> QED BY <4>1, <5>1, NoScriptKeeps
      <4>3. CASE scr[d].at # "none"
        <5>1. /\ scr[d].acct \in Accounts \ {a} BY <4>1, <4>3, <2>7
        <5>2. host'[scr[d].acct] = host[scr[d].acct] /\ (scr[d].acct \in stuck' <=> scr[d].acct \in stuck)
          BY <2>4, <5>1
        <5>3. Progress(scr[d], host[scr[d].acct], scr[d].acct \in stuck) BY <2>1 DEF ProgressInv
        <5> QED BY <4>1, <5>2, <5>3
      <4> QED BY <4>2, <4>3
    <3>2. Progress(scr'[c], host'[scr'[c].acct], scr'[c].acct \in stuck')
      <4>1. CASE r = NoScript BY <1>4, <4>1, NoScriptKeeps
      <4>2. CASE r.acct = a BY <1>4, <2>3, <4>2
      <4> QED BY <2>5, <4>1, <4>2
    <3> QED BY <3>1, <3>2 DEF ProgressInv
  <2>12. ApartInv'
    <3>1. \A d \in Cmds : scr'[d].at # "none" => scr[d].at # "none" /\ scr'[d].acct = scr[d].acct
      <4>1. scr'[c].at # "none" => scr[c].at # "none" /\ scr'[c].acct = scr[c].acct
        BY <1>3, <1>4, <2>5, NoScriptType DEF Running
      <4> QED BY <1>4, <4>1
    <3>2. \A e, d \in Cmds : e # d /\ scr'[e].at # "none" /\ Running(d)' => scr'[e].acct # scr'[d].acct
      BY <2>1, <2>6, <3>1 DEF ApartInv
    <3>3. \A d \in Cmds : Running(d)' => scr'[d].acct # reg'.login BY <1>4, <2>1, <2>6 DEF ApartInv
    <3>4. \A e, d \in Cmds : cmd'[e].at \in {"prove", "takeback"} \cup Proven /\ Running(d)' =>
                                scr'[d].acct # cmd'[e].user
      BY <1>4, <2>1, <2>6 DEF ApartInv
    <3> QED BY <3>2, <3>3, <3>4 DEF ApartInv
  <2>13. KnownInv'
    <3>1. ASSUME NEW d \in Cmds PROVE Known(cmd[d], scr'[d], reg, host')
      <4> DEFINE k == cmd[d]
      <4>1. Known(k, scr[d], reg, host) /\ k.user \in Accounts BY <1>1, <2>1 DEF KnownInv, TypeInv, CmdType
      <4>2. k.at \in {"prove", "takeback"} \cup Proven => k.user # a BY <1>3, <2>1 DEF ApartInv
      <4>3. k.at \in {"prove", "takeback"} => host'[k.user].there
        BY <1>4, <4>1, <4>2 DEF Known
      <4>4. k.at \in Proven => GetsIn(host'[k.user], k) BY <1>4, <4>1, <4>2 DEF Known
      <4>5. CASE d # c
        <5>1. scr'[d] = scr[d] /\ scr[d].acct \in Accounts BY <1>1, <1>4, <4>5 DEF TypeInv, ScrType
        <5>2. scr[d].at = "done" => host'[scr[d].acct] = host[scr[d].acct]
          BY <1>4, <2>7, <4>5, <5>1
        <5> QED BY <1>4, <4>1, <4>3, <4>4, <5>1, <5>2 DEF Known
      <4>6. CASE d = c
        <5>1. Script0(s, k) BY <1>1, <4>6 DEF WorkInv
        <5>2. k.at = "creating" => s.at \notin RemoveSteps BY <1>5, <5>1, StepSets DEF Script0, Runs0
        <5>3. k.at \in {"taking", "removing"} => s.at \in RemoveSteps
          BY <1>5, <5>1 DEF Script0, Runs0
        <5>4. r.at = "done" => r.acct = a BY <2>5, NoScriptType
        <5> QED BY <1>4, <2>3, <4>1, <4>3, <4>4, <4>6, <5>2, <5>3, <5>4 DEF Known
      <4> QED BY <4>5, <4>6
    <3> QED BY <1>4, <3>1 DEF KnownInv
  <2> QED BY <2>9, <2>10, <2>11, <2>12, <2>13 DEF Calm
<1> QED BY <1>6, <1>7, <1>8, <1>9 DEF Inv

----------------------------------------------------------------------------
(* The steps of a command: the host stays as it is.                         *)

RegType == [login : Accounts, cred : Creds]
ProvType == [old : Accounts, new : Accounts, removed : BOOLEAN]
Careful == {"prove", "takeback"} \cup Proven

\* The lock follows the command, to state k.
Locked(c, k) ==
    /\ lock' = IF k.at \in Rotation THEN c ELSE IF lock = c THEN NoOne ELSE lock
    /\ k.at \in Rotation => lock \in {c, NoOne}

\* What the command in state k holds to be a login is one.
HasCreds(k) == /\ k.at \in OnUser \cup Proven => k.cred \in Creds
               /\ k.at = "target" => k.entry.cred \in Creds

\* The script s of the command in state k is alone on its account.
Alone(c, k, s) ==
    /\ \A d \in Cmds \ {c} : scr[d].acct = s.acct =>
          /\ s.at # "none" => ~Running(d)
          /\ Runs0(s) => scr[d].at = "none"
    /\ Runs0(s) => s.acct # reg'.login
    /\ k.at \in Careful => \A d \in Cmds \ {c} : Running(d) => scr[d].acct # k.user
    /\ \A d \in Cmds \ {c} : cmd[d].at \in Careful /\ Runs0(s) => s.acct # cmd[d].user

\* The registry's new line is nobody's work.
Untouched(c) ==
    \A d \in Cmds \ {c} :
        /\ Running(d) => scr[d].acct # reg'.login
        /\ cmd[d].at \in OnUser => cmd[d].user # reg'.login
        /\ cmd[d].at \in OnOld => cmd[d].old # reg'.login

CmdStep(c) ==
    \E k \in CmdType, s \in ScrType :
        /\ cmd' = [cmd EXCEPT ![c] = k] /\ scr' = [scr EXCEPT ![c] = s]
        /\ UNCHANGED <<host, stuck>>
        /\ reg' \in RegType /\ rootless' \in BOOLEAN /\ prov' \in ProvType
        /\ crossed' \in BOOLEAN /\ (crossed => crossed')
        /\ Locked(c, k) /\ HasCreds(k) /\ Script0(s, k)
        /\ ~crossed' => /\ RegIn(host[reg'.login], reg', rootless')
                        /\ Progress(s, host[s.acct], s.acct \in stuck)
                        /\ Alone(c, k, s)
                        /\ UNCHANGED reg \/ Untouched(c)
                        /\ Known(k, s, reg', host)

LEMMA WorksIs == \A e : Works(e) <=> GetsIn(host[e.login], e)
BY DEF Works, LogsIn, GetsIn

LEMMA ReachedIs ==
    /\ Reached <=> RegIn(host[reg.login], reg, rootless)
    /\ Reached' <=> RegIn(host'[reg'.login], reg', rootless')
BY DEF Reached, Works, LogsIn, RegIn

LEMMA CmdInv == ASSUME Inv, NEW c \in Cmds, CmdStep(c) PROVE Inv'
<1>1. TypeInv /\ CredInv /\ WorkInv BY DEF Inv
<1>2. PICK k \in CmdType, s \in ScrType :
        /\ cmd' = [cmd EXCEPT ![c] = k] /\ scr' = [scr EXCEPT ![c] = s]
        /\ UNCHANGED <<host, stuck>>
        /\ reg' \in RegType /\ rootless' \in BOOLEAN /\ prov' \in ProvType
        /\ crossed' \in BOOLEAN /\ (crossed => crossed')
        /\ Locked(c, k) /\ HasCreds(k) /\ Script0(s, k)
        /\ ~crossed' => /\ RegIn(host[reg'.login], reg', rootless')
                        /\ Progress(s, host[s.acct], s.acct \in stuck)
                        /\ Alone(c, k, s)
                        /\ UNCHANGED reg \/ Untouched(c)
                        /\ Known(k, s, reg', host)
  BY DEF CmdStep
<1>3. /\ scr'[c] = s /\ \A d \in Cmds \ {c} : scr'[d] = scr[d]
      /\ cmd'[c] = k /\ \A d \in Cmds \ {c} : cmd'[d] = cmd[d]
  BY <1>1, <1>2 DEF TypeInv
<1>4. TypeInv'
  <2>1. lock' \in Cmds \cup {NoOne} BY <1>1, <1>2 DEF TypeInv, Locked
  <2>2. cmd' \in [Cmds -> CmdType] /\ scr' \in [Cmds -> ScrType] BY <1>1, <1>2 DEF TypeInv
  <2> QED BY <1>1, <1>2, <2>1, <2>2 DEF TypeInv, RegType, ProvType
<1>5. CredInv' BY <1>1, <1>2, <1>3 DEF CredInv, HasCreds
<1>6. WorkInv'
  <2>1. k.at \in Rotation <=> lock' = c BY <1>2, RotateAssumption DEF Locked
  <2>2. \A d \in Cmds \ {c} : cmd[d].at \in Rotation <=> lock' = d
    BY <1>1, <1>2, RotateAssumption DEF WorkInv, Locked
  <2> QED BY <1>1, <1>2, <1>3, <2>1, <2>2 DEF WorkInv
<1>7. ASSUME ~crossed' PROVE Calm'
  <2>1. Reached /\ HostInv /\ ProgressInv /\ ApartInv /\ KnownInv BY <1>2, <1>7 DEF Inv, Calm
  <2>2. /\ RegIn(host[reg'.login], reg', rootless')
        /\ Progress(s, host[s.acct], s.acct \in stuck)
        /\ Alone(c, k, s) /\ (UNCHANGED reg \/ Untouched(c)) /\ Known(k, s, reg', host)
    BY <1>2, <1>7
  <2>3. Reached' BY <1>2, <2>2, ReachedIs
  <2>4. HostInv' BY <1>2, <2>1 DEF HostInv
  <2>5. ProgressInv' BY <1>2, <1>3, <2>1, <2>2 DEF ProgressInv
  <2>6. /\ Running(c)' <=> Runs0(s)
        /\ \A d \in Cmds \ {c} : Running(d)' <=> Running(d)
    BY <1>3 DEF Running, Runs0
  <2>7. ApartInv'
    <3>1. ASSUME NEW e \in Cmds, NEW d \in Cmds, e # d, scr'[e].at # "none", Running(d)'
          PROVE  scr'[e].acct # scr'[d].acct
      <4>1. CASE e = c BY <1>3, <2>2, <2>6, <3>1, <4>1 DEF Alone
      <4>2. CASE d = c BY <1>3, <2>2, <2>6, <3>1, <4>2 DEF Alone
      <4>3. CASE e # c /\ d # c BY <1>3, <2>1, <2>6, <3>1, <4>3 DEF ApartInv
      <4> QED BY <4>1, <4>2, <4>3
    <3>2. ASSUME NEW d \in Cmds, Running(d)' PROVE scr'[d].acct # reg'.login
      <4>1. CASE d = c BY <1>3, <2>2, <2>6, <3>2, <4>1 DEF Alone
      <4>2. CASE d # c BY <1>3, <2>1, <2>2, <2>6, <3>2, <4>2 DEF ApartInv, Untouched
      <4> QED BY <4>1, <4>2
    <3>3. ASSUME NEW e \in Cmds, NEW d \in Cmds, cmd'[e].at \in Careful, Running(d)'
          PROVE  scr'[d].acct # cmd'[e].user
      <4>1. CASE e = c /\ d = c
        <5>1. k.at \notin Waits \cup {"idle"} BY <1>3, <3>3, <4>1 DEF Careful, Proven, Waits
        <5>2. ~Runs0(s) BY <1>2, <5>1, NoScriptType DEF Script0, Runs0
        <5> QED BY <2>6, <3>3, <4>1, <5>2
      <4>2. CASE e = c /\ d # c BY <1>3, <2>2, <2>6, <3>3, <4>2 DEF Alone
      <4>3. CASE e # c /\ d = c BY <1>3, <2>2, <2>6, <3>3, <4>3 DEF Alone
      <4>4. CASE e # c /\ d # c BY <1>3, <2>1, <2>6, <3>3, <4>4 DEF ApartInv, Careful
      <4> QED BY <4>1, <4>2, <4>3, <4>4
    <3> QED BY <3>1, <3>2, <3>3 DEF ApartInv, Careful
  <2>8. KnownInv'
    <3>1. ASSUME NEW d \in Cmds PROVE Known(cmd'[d], scr'[d], reg', host')
      <4>1. CASE d = c BY <1>2, <1>3, <2>2, <4>1
      <4>2. CASE d # c
        <5>1. Known(cmd[d], scr[d], reg, host) BY <2>1 DEF KnownInv
        <5>2. CASE UNCHANGED reg BY <1>2, <1>3, <4>2, <5>1, <5>2
        <5>3. CASE Untouched(c) BY <1>2, <1>3, <4>2, <5>1, <5>3 DEF Untouched, Known
        <5> QED BY <2>2, <5>2, <5>3
      <4> QED BY <4>1, <4>2
    <3> QED BY <3>1 DEF KnownInv
  <2> QED BY <2>3, <2>4, <2>5, <2>7, <2>8 DEF Calm
<1> QED BY <1>4, <1>5, <1>6, <1>7 DEF Inv

LEMMA CmdParts ==
    ASSUME Inv, NEW c \in Cmds
    PROVE  /\ cmd[c] \in CmdType /\ scr[c] \in ScrType /\ Script0(scr[c], cmd[c])
           /\ cmd[c].at \in Rotation <=> lock = c
           /\ cmd[c].at \notin Waits \cup {"idle"} => scr[c] = NoScript
           /\ reg \in RegType /\ rootless \in BOOLEAN /\ prov \in ProvType /\ crossed \in BOOLEAN
           /\ cmd[c].user \in Accounts /\ cmd[c].old \in Accounts /\ cmd[c].made \in BOOLEAN
           /\ cmd[c].rootless \in BOOLEAN
           /\ cmd[c].rm \in BOOLEAN /\ cmd[c].cred \in MaybeCred /\ cmd[c].entry \in Entry
           /\ HasCreds(cmd[c])
           /\ ~crossed => Calm /\ Known(cmd[c], scr[c], reg, host)
<1>1. cmd[c] \in CmdType BY DEF Inv, TypeInv
<1>2. HasCreds(cmd[c]) BY DEF Inv, CredInv, HasCreds
<1>3. Calm => Known(cmd[c], scr[c], reg, host) BY DEF Calm, KnownInv
<1>4. Script0(scr[c], cmd[c]) /\ (cmd[c].at \in Rotation <=> lock = c) BY DEF Inv, WorkInv
<1> QED BY <1>1, <1>2, <1>3, <1>4 DEF Inv, TypeInv, CmdType, RegType, ProvType, Script0

LEMMA PlaceSets ==
    /\ Waits \subseteq Rotation /\ OnUser \subseteq Rotation /\ Careful \subseteq Rotation
    /\ OnOld \subseteq Rotation /\ "idle" \notin Rotation /\ "target" \notin Rotation
    /\ Careful \cap Waits = {}
BY DEF Waits, OnUser, Proven, Careful, OnOld, Rotation

\* Who holds the lock is the only one in a rotation.
LEMMA OnlyHolder ==
    ASSUME Inv, NEW c \in Cmds, lock = c
    PROVE  \A d \in Cmds \ {c} : cmd[d].at \notin Rotation /\ scr[d].at # "done"
<1>1. ASSUME NEW d \in Cmds \ {c} PROVE cmd[d].at \notin Rotation /\ scr[d].at # "done"
  <2>1. cmd[d].at \notin Rotation /\ Script0(scr[d], cmd[d]) BY CmdParts
  <2>2. cmd[d].at \notin Waits BY <2>1, PlaceSets
  <2> QED BY <2>1, <2>2, NoScriptType DEF Script0
<1> QED BY <1>1

\* A command goes on without a script.
LEMMA MovesCmd ==
    ASSUME Inv, NEW c \in Cmds, NEW k \in CmdType, k.at \notin Waits,
           cmd' = [cmd EXCEPT ![c] = k], scr' = [scr EXCEPT ![c] = NoScript],
           UNCHANGED <<host, reg, rootless, stuck, crossed>>, prov' \in ProvType,
           Locked(c, k), HasCreds(k),
           ~crossed => /\ Known(k, NoScript, reg, host)
                       /\ k.at \in Careful => \A d \in Cmds \ {c} : Running(d) => scr[d].acct # k.user
    PROVE  CmdStep(c)
<1>1. Script0(NoScript, k)
  BY NoScriptType DEF Script0, Waits
<1>2. ~Runs0(NoScript) BY NoScriptType DEF Runs0
<1>3. ~crossed => Alone(c, k, NoScript) BY <1>2, NoScriptType DEF Alone
<1>4. ~crossed => RegIn(host[reg'.login], reg', rootless') BY CmdParts, ReachedIs DEF Calm
<1> QED BY <1>1, <1>3, <1>4, CmdParts, NoScriptKeeps, NoScriptType DEF CmdStep

\* Its place is all that changes.
LEMMA ToIs ==
    ASSUME Inv, NEW c \in Cmds, NEW x \in Rotation
    PROVE  LET k == [cmd[c] EXCEPT !.at = x]
           IN  /\ k \in CmdType /\ k.at = x /\ k.user = cmd[c].user /\ k.old = cmd[c].old
               /\ k.cred = cmd[c].cred /\ k.made = cmd[c].made
               /\ To(c, x) => cmd' = [cmd EXCEPT ![c] = k]
BY CmdParts DEF CmdType, To

LEMMA SameScript ==
    ASSUME Inv, NEW c \in Cmds, scr[c] = NoScript, UNCHANGED scr
    PROVE  scr' = [scr EXCEPT ![c] = NoScript]
BY DEF Inv, TypeInv

\* A command that ends, with what it leaves of its script.
LEMMA EndsCmd ==
    ASSUME Inv, NEW c \in Cmds, NEW s \in ScrType, Ends(c), scr' = [scr EXCEPT ![c] = s],
           \/ s = NoScript
           \/ /\ Running(c) /\ s.at = scr[c].at /\ s.acct = scr[c].acct /\ s.only = scr[c].only
              /\ s.touched = scr[c].touched /\ s.conn = "gone",
           UNCHANGED <<host, reg, rootless, stuck, crossed>>, prov' \in ProvType
    PROVE  CmdStep(c)
<1>1. cmd' = [cmd EXCEPT ![c] = Idle] /\ Idle \in CmdType /\ Idle.at = "idle" BY IdleType DEF Ends
<1>2. Locked(c, Idle) BY <1>1, PlaceSets DEF Ends, Locked
<1>3. HasCreds(Idle) BY <1>1, PlaceSets DEF HasCreds, OnUser, Proven
<1>4. \A x, r, h : Known(Idle, x, r, h) BY <1>1 DEF Known, OnUser, OnOld, Proven
<1>5. Script0(s, Idle)
  BY <1>1, NoScriptType DEF Script0, Waits, Running
<1>6. ASSUME ~crossed PROVE Progress(s, host[s.acct], s.acct \in stuck) /\ Alone(c, Idle, s)
  <2>1. ProgressInv /\ ApartInv BY <1>6, CmdParts DEF Calm
  <2>2. Idle.at \notin Careful BY <1>1 DEF Careful, Proven
  <2>3. CASE s = NoScript
    BY <1>6, <2>2, <2>3, NoScriptKeeps, NoScriptType DEF Alone, Runs0
  <2>4. CASE /\ Running(c) /\ s.at = scr[c].at /\ s.acct = scr[c].acct /\ s.only = scr[c].only
             /\ s.touched = scr[c].touched
    <3>1. Progress(s, host[s.acct], s.acct \in stuck) BY <2>1, <2>4 DEF ProgressInv, Progress
    <3>2. scr[c].at # "none" BY <2>4 DEF Running
    <3>3. Alone(c, Idle, s) BY <2>1, <2>2, <2>4, <3>2 DEF Alone, ApartInv, Careful
    <3> QED BY <3>1, <3>3
  <2> QED BY <2>3, <2>4
<1>7. ~crossed => RegIn(host[reg'.login], reg', rootless') BY CmdParts, ReachedIs DEF Calm
<1> QED BY <1>1, <1>2, <1>3, <1>4, <1>5, <1>6, <1>7, CmdParts DEF CmdStep

\* A command that starts a script s for its state k.
LEMMA RunsCmd ==
    ASSUME Inv, NEW c \in Cmds, NEW k \in CmdType, NEW s \in ScrType,
           cmd[c].at \in Rotation \ Waits, k.at \in Waits,
           cmd' = [cmd EXCEPT ![c] = k], scr' = [scr EXCEPT ![c] = s],
           UNCHANGED <<host, reg, rootless, prov, stuck, lock>>,
           crossed' = (crossed \/ WorkedOn(c, s.acct)),
           Script0(s, k), s.at \in {"look", "rm_look"}, ~s.touched, HasCreds(k),
           s.only => s.at = "rm_look",
           ~crossed => /\ s.acct # reg.login /\ Known(k, s, reg, host)
                       /\ s.only => host[s.acct].there
    PROVE  CmdStep(c)
<1>1. lock = c /\ \A d \in Cmds \ {c} : cmd[d].at \notin Rotation /\ scr[d].at # "done"
  BY CmdParts, OnlyHolder
<1>2. Locked(c, k) BY <1>1, PlaceSets DEF Locked
<1>3. crossed' \in BOOLEAN /\ (crossed => crossed') BY CmdParts DEF WorkedOn
<1>4. ASSUME ~crossed' PROVE Progress(s, host[s.acct], s.acct \in stuck) /\ Alone(c, k, s)
  <2>1. ~crossed /\ \A d \in Cmds \ {c} : Running(d) => scr[d].acct # s.acct
    BY <1>4 DEF WorkedOn
  <2>2. Progress(s, host[s.acct], s.acct \in stuck)
    BY <2>1 DEF Progress, RollbackSteps
  <2>3. \A d \in Cmds \ {c} : scr[d].acct = s.acct => ~Running(d) /\ scr[d].at = "none"
    BY <1>1, <2>1 DEF Running
  <2>4. k.at \notin Careful /\ \A d \in Cmds \ {c} : cmd[d].at \notin Careful
    BY <1>1, PlaceSets
  <2> QED BY <2>1, <2>2, <2>3, <2>4 DEF Alone
<1>5. ~crossed => RegIn(host[reg'.login], reg', rootless') BY CmdParts, ReachedIs DEF Calm
<1> QED BY <1>1, <1>2, <1>3, <1>4, <1>5, CmdParts DEF CmdStep

\* The scripts that are run.
CreateRun(a, k, v) == [[NoScript EXCEPT !.at = "look", !.acct = a, !.cred = k] EXCEPT !.via = v]
RemoveRun(a, o, v) == [RemoveScript(a, o) EXCEPT !.via = v]

LEMMA ViaSet ==
    ASSUME NEW x \in ScrType, NEW v \in Accounts
    PROVE  LET y == [x EXCEPT !.via = v]
           IN  /\ y \in ScrType /\ y.at = x.at /\ y.acct = x.acct /\ y.only = x.only
               /\ y.touched = x.touched /\ y.conn = x.conn
BY DEF ScrType

LEMMA FreshScript ==
    /\ NoScript \in ScrType /\ NoScript.conn = "up" /\ NoScript.touched = FALSE /\ NoScript.only = FALSE
    /\ {"look", "rm_look"} \subseteq ScriptSteps \cup {"none", "done"}
BY NoScriptType DEF NoScript, ScriptSteps, CreateSteps, RemoveSteps

LEMMA CreateRunIs ==
    ASSUME NEW a \in Accounts, NEW v \in Accounts, NEW k \in MaybeCred
    PROVE  LET s == CreateRun(a, k, v)
           IN  s \in ScrType /\ s.at = "look" /\ s.acct = a /\ ~s.only /\ ~s.touched /\ s.conn = "up"
<1>1. ASSUME NEW n \in ScrType
      PROVE  LET m == [n EXCEPT !.at = "look", !.acct = a, !.cred = k]
             IN  /\ m \in ScrType /\ m.at = "look" /\ m.acct = a /\ m.only = n.only
                 /\ m.touched = n.touched /\ m.conn = n.conn
  BY FreshScript DEF ScrType
<1> DEFINE m == [NoScript EXCEPT !.at = "look", !.acct = a, !.cred = k]
<1>2. m \in ScrType /\ m.at = "look" /\ m.acct = a /\ m.only = FALSE /\ m.touched = FALSE /\ m.conn = "up"
  BY <1>1, FreshScript
<1>3. CreateRun(a, k, v) = [m EXCEPT !.via = v] BY DEF CreateRun
<1> HIDE DEF m
<1> QED BY <1>2, <1>3, ViaSet

LEMMA RemoveRunIs ==
    ASSUME NEW a \in Accounts, NEW v \in Accounts, NEW o \in BOOLEAN
    PROVE  LET r == RemoveRun(a, o, v)
           IN  /\ r \in ScrType /\ r.at = "rm_look" /\ r.acct = a /\ r.only = o /\ ~r.touched
               /\ r.conn = "up"
<1>1. ASSUME NEW n \in ScrType
      PROVE  LET m == [n EXCEPT !.at = "rm_look", !.acct = a, !.only = o]
             IN  /\ m \in ScrType /\ m.at = "rm_look" /\ m.acct = a /\ m.only = o
                 /\ m.touched = n.touched /\ m.conn = n.conn
  BY FreshScript DEF ScrType
<1> DEFINE m == [NoScript EXCEPT !.at = "rm_look", !.acct = a, !.only = o]
<1>2. m \in ScrType /\ m.at = "rm_look" /\ m.acct = a /\ m.only = o /\ m.touched = FALSE /\ m.conn = "up"
  BY <1>1, FreshScript
<1>3. RemoveRun(a, o, v) = [m EXCEPT !.via = v] BY DEF RemoveRun, RemoveScript
<1> HIDE DEF m
<1> QED BY <1>2, <1>3, ViaSet

----------------------------------------------------------------------------
(* The actions of a command.                                               *)

\* A command with no script of its own ends.
LEMMA EndsAlone ==
    ASSUME Inv, NEW c \in Cmds, scr[c] = NoScript, UNCHANGED scr, Ends(c),
           UNCHANGED <<host, reg, rootless, stuck, crossed>>, prov' \in ProvType
    PROVE  CmdStep(c)
BY SameScript, NoScriptType, EndsCmd

\* A command goes on to place x with no script of its own.
LEMMA GoesAlone ==
    ASSUME Inv, NEW c \in Cmds, NEW x \in Rotation \ Waits, cmd[c].at \in Rotation \ Waits,
           To(c, x), UNCHANGED <<host, reg, rootless, stuck, crossed, scr, lock>>, prov' \in ProvType,
           x \in OnUser \cup Proven => cmd[c].at \in OnUser \cup Proven,
           x \in OnUser => cmd[c].at \in OnUser,
           x \in OnOld => cmd[c].at \in OnOld,
           ~crossed => /\ x \in {"prove", "takeback"} => host[cmd[c].user].there
                       /\ x \in Proven => GetsIn(host[cmd[c].user], cmd[c])
                       /\ x \in Careful => cmd[c].at \in Careful
    PROVE  CmdStep(c)
<1> DEFINE k == [cmd[c] EXCEPT !.at = x]
<1>1. /\ k \in CmdType /\ k.at = x /\ k.user = cmd[c].user /\ k.old = cmd[c].old
      /\ k.cred = cmd[c].cred /\ k.made = cmd[c].made /\ cmd' = [cmd EXCEPT ![c] = k]
  BY ToIs
<1> HIDE DEF k
<1>2. lock = c /\ scr[c] = NoScript BY CmdParts, PlaceSets
<1>3. scr' = [scr EXCEPT ![c] = NoScript] BY <1>2, SameScript
<1>4. Locked(c, k) BY <1>1, <1>2 DEF Locked
<1>5. HasCreds(k)
  <2>1. k.at # "target" BY <1>1, PlaceSets
  <2>2. HasCreds(cmd[c]) BY CmdParts
  <2> QED BY <1>1, <2>1, <2>2 DEF HasCreds
<1>6. ASSUME ~crossed
      PROVE  /\ Known(k, NoScript, reg, host)
             /\ k.at \in Careful => \A d \in Cmds \ {c} : Running(d) => scr[d].acct # k.user
  <2>1. Known(cmd[c], scr[c], reg, host) /\ ApartInv BY <1>6, CmdParts DEF Calm
  <2>2. GetsIn(host[cmd[c].user], cmd[c]) => GetsIn(host[k.user], k) BY <1>1 DEF GetsIn
  <2>3. Known(k, NoScript, reg, host) BY <1>1, <1>6, <2>1, <2>2 DEF Known, Waits
  <2>4. ASSUME k.at \in Careful, NEW d \in Cmds \ {c}, Running(d) PROVE scr[d].acct # k.user
    BY <1>1, <1>6, <2>1, <2>4 DEF ApartInv, Careful
  <2> QED BY <2>3, <2>4
<1>7. k.at \notin Waits BY <1>1
<1> QED BY <1>1, <1>3, <1>4, <1>5, <1>6, <1>7, MovesCmd

LEMMA StartSteps ==
    ASSUME Inv, NEW c \in Cmds, NEW u \in Accounts, NEW cr \in Creds, NEW rm \in BOOLEAN,
           Start(c, u, cr, rm)
    PROVE  CmdStep(c)
<1> DEFINE x == IF Resume(u, rm) THEN "rm_check" ELSE "create"
           o == IF Resume(u, rm) THEN prov.old ELSE reg.login
           k == [Idle EXCEPT !.at = x, !.user = u, !.cred = cr, !.rm = rm, !.entry = reg, !.old = o]
<1>1. cmd' = [cmd EXCEPT ![c] = k] BY DEF Start
<1>2. reg \in RegType /\ prov \in ProvType BY CmdParts
<1>3. /\ x \in Rotation \ Waits /\ o \in Accounts /\ cr \in MaybeCred /\ reg \in Entry
  BY <1>2 DEF Rotation, Waits, OnUser, RegType, ProvType, Entry, MaybeCred
<1>4. \A y \in Rotation, p \in Accounts :
         LET q == [Idle EXCEPT !.at = y, !.user = u, !.cred = cr, !.rm = rm, !.entry = reg, !.old = p]
         IN  q \in CmdType /\ q.at = y /\ q.user = u /\ q.cred = cr
  <2>1. \A i \in CmdType, y \in Rotation, p \in Accounts :
         LET q == [i EXCEPT !.at = y, !.user = u, !.cred = cr, !.rm = rm, !.entry = reg, !.old = p]
         IN  q \in CmdType /\ q.at = y /\ q.user = u /\ q.cred = cr
    BY <1>3, ZenonT(60) DEF CmdType
  <2> QED BY <2>1, IdleType
<1>6. /\ x = "rm_check" \/ (x = "create" /\ u # reg.login)
  BY DEF Start
<1> HIDE DEF x, o
<1>5. k \in CmdType /\ k.at = x /\ k.user = u /\ k.cred = cr BY <1>3, <1>4
<1> HIDE DEF k
<1>7. Locked(c, k) /\ scr[c] = NoScript
  BY <1>3, <1>5 DEF Start, Locked
<1>8. scr' = [scr EXCEPT ![c] = NoScript] BY <1>7, SameScript DEF Start
<1>9. HasCreds(k) BY <1>5, <1>6 DEF HasCreds
<1>10. Known(k, NoScript, reg, host) /\ k.at \notin Careful
  BY <1>5, <1>6 DEF Known, OnUser, OnOld, Proven, Careful
<1>11. UNCHANGED <<host, reg, rootless, stuck, crossed>> /\ prov' \in ProvType BY <1>2 DEF Start
<1> QED BY <1>1, <1>3, <1>5, <1>7, <1>8, <1>9, <1>10, <1>11, MovesCmd

LEMMA RunCreateSteps == ASSUME Inv, NEW c \in Cmds, RunCreate(c) PROVE CmdStep(c)
<1>1. cmd[c].at = "create" /\ scr[c] = NoScript
  <2>1. cmd[c].at = "create" BY DEF RunCreate, At
  <2> QED BY <2>1, CmdParts DEF Waits
<1>2. CASE Works(cmd[c].entry)
  <2> DEFINE e == cmd[c].entry
             s == CreateRun(cmd[c].user, cmd[c].cred, e.login)
             k == [cmd[c] EXCEPT !.at = "creating"]
  <2>1. /\ k \in CmdType /\ k.at = "creating" /\ k.user = cmd[c].user
        /\ k.cred = cmd[c].cred /\ cmd' = [cmd EXCEPT ![c] = k]
    BY <1>2, ToIs DEF RunCreate, Rotation, OnUser
  <2>2. e.login \in Accounts BY CmdParts DEF Entry
  <2>3. /\ s \in ScrType /\ s.at = "look" /\ s.acct = cmd[c].user /\ ~s.only /\ ~s.touched
        /\ s.conn = "up"
    <3>1. cmd[c].user \in Accounts /\ cmd[c].cred \in MaybeCred BY CmdParts
    <3> HIDE DEF e
    <3> QED BY <2>2, <3>1, CreateRunIs
  <2>4. scr' = [scr EXCEPT ![c] = s] BY <1>2 DEF RunCreate, Runs, CreateScript, CreateRun
  <2>5. crossed' = (crossed \/ WorkedOn(c, s.acct))
    <3>1. CreateScript(c).acct = cmd[c].user
      BY DEF CreateScript, NoScript
    <3> QED BY <1>2, <2>3, <3>1 DEF RunCreate, Runs
  <2> HIDE DEF s, k
  <2>6. Script0(s, k)
    BY <2>1, <2>3 DEF Script0, Waits, CreateSteps
  <2>7. HasCreds(k) BY <1>1, <2>1, CmdParts DEF HasCreds, OnUser, Proven
  <2>8. ~crossed => s.acct # reg.login /\ Known(k, s, reg, host)
    <3>1. ~crossed => cmd[c].user # reg.login BY <1>1, CmdParts DEF Known, OnUser
    <3> QED BY <2>1, <2>3, <3>1 DEF Known, OnUser, OnOld, Proven
  <2>9. cmd[c].at \in Rotation \ Waits /\ k.at \in Waits
    BY <1>1, <2>1 DEF Rotation, OnUser, Waits
  <2>10. UNCHANGED <<host, reg, rootless, prov, stuck, lock>> BY <1>2 DEF RunCreate
  <2> QED BY <2>1, <2>3, <2>4, <2>5, <2>6, <2>7, <2>8, <2>9, <2>10, RunsCmd
<1>3. CASE ~Works(cmd[c].entry)
  BY <1>1, <1>3, CmdParts, EndsAlone DEF RunCreate
<1> QED BY <1>2, <1>3

LEMMA CreatedSteps == ASSUME Inv, NEW c \in Cmds, Created(c) PROVE CmdStep(c)
<1>1. /\ cmd[c].at = "creating" /\ scr[c].at = "done" /\ scr' = [scr EXCEPT ![c] = NoScript]
      /\ UNCHANGED <<host, reg, rootless, prov, stuck, crossed>>
  BY DEF Created, At, Step
<1>2. prov' \in ProvType BY <1>1, CmdParts
<1>3. CASE Ends(c) BY <1>1, <1>2, <1>3, NoScriptType, EndsCmd
<1>4. CASE scr[c].ok /\ ~cmd[c].intr
  <2> DEFINE k == [cmd[c] EXCEPT !.at = "prove", !.made = scr[c].created, !.added = scr[c].added]
  <2>1. cmd' = [cmd EXCEPT ![c] = k] /\ UNCHANGED lock BY <1>4 DEF Created
  <2>2. k \in CmdType /\ k.at = "prove" /\ k.user = cmd[c].user /\ k.cred = cmd[c].cred
    <3>1. scr[c].created \in BOOLEAN /\ scr[c].added \in BOOLEAN BY CmdParts DEF ScrType
    <3> QED BY <3>1, CmdParts DEF CmdType, Rotation, OnUser
  <2> HIDE DEF k
  <2>3. lock = c BY <1>1, CmdParts DEF Rotation, OnUser
  <2>4. Locked(c, k) BY <2>1, <2>2, <2>3 DEF Locked, Rotation, OnUser
  <2>5. HasCreds(k) BY <1>1, <2>2, CmdParts DEF HasCreds, OnUser
  <2>6. ASSUME ~crossed
        PROVE  /\ Known(k, NoScript, reg, host)
               /\ \A d \in Cmds \ {c} : Running(d) => scr[d].acct # k.user
    <3>1. ApartInv /\ Known(cmd[c], scr[c], reg, host) BY <2>6, CmdParts DEF Calm
    <3>2. scr[c].acct = cmd[c].user BY <1>1, CmdParts DEF Script0
    <3>3. host[k.user].there /\ k.user # reg.login BY <1>1, <1>4, <2>2, <3>1, <3>2 DEF Known, OnUser
    <3>4. Known(k, NoScript, reg, host) BY <2>2, <3>3 DEF Known, OnUser, OnOld, Proven
    <3>5. \A d \in Cmds \ {c} : Running(d) => scr[d].acct # k.user
      BY <1>1, <2>2, <3>1, <3>2 DEF ApartInv
    <3> QED BY <3>4, <3>5
  <2>7. k.at \notin Waits BY <2>2 DEF Waits
  <2> QED BY <1>1, <1>2, <2>1, <2>2, <2>4, <2>5, <2>6, <2>7, MovesCmd
<1> QED BY <1>3, <1>4 DEF Created

LEMMA ProveSteps == ASSUME Inv, NEW c \in Cmds, Prove(c) PROVE CmdStep(c)
<1>1. cmd[c].at = "prove" /\ UNCHANGED <<host, reg, rootless, prov, lock, scr, stuck, crossed>>
  BY DEF Prove, At
<1>2. /\ prov' \in ProvType /\ cmd[c].at \in Rotation \ Waits
      /\ {"snapshot", "takeback"} \subseteq Rotation \ Waits
  BY <1>1, CmdParts DEF Rotation, Waits, OnUser, Proven
<1>3. ~crossed => host[cmd[c].user].there BY <1>1, CmdParts DEF Known
<1>4. CASE To(c, "takeback")
  BY <1>1, <1>2, <1>3, <1>4, GoesAlone DEF OnUser, OnOld, Proven, Careful
<1>5. CASE To(c, "snapshot") /\ Works(New(c))
  <2>1. GetsIn(host[cmd[c].user], cmd[c]) BY <1>5 DEF Works, LogsIn, New, GetsIn
  <2> QED BY <1>1, <1>2, <1>5, <2>1, GoesAlone DEF OnUser, OnOld, Proven, Careful
<1> QED BY <1>4, <1>5 DEF Prove

LEMMA TakeBackSteps == ASSUME Inv, NEW c \in Cmds, TakeBack(c) PROVE CmdStep(c)
<1>1. cmd[c].at = "takeback" /\ scr[c] = NoScript
  <2>1. cmd[c].at = "takeback" BY DEF TakeBack, At
  <2> QED BY <2>1, CmdParts DEF Waits
<1>2. CASE (cmd[c].made \/ cmd[c].added) /\ Works(cmd[c].entry)
  <2> DEFINE e == cmd[c].entry
             o == ~cmd[c].made
             s == RemoveRun(cmd[c].user, o, e.login)
             k == [cmd[c] EXCEPT !.at = "taking"]
  <2>1. /\ k \in CmdType /\ k.at = "taking" /\ k.user = cmd[c].user /\ k.made = cmd[c].made
        /\ k.cred = cmd[c].cred /\ cmd' = [cmd EXCEPT ![c] = k]
    BY <1>2, ToIs DEF TakeBack, Rotation, OnUser
  <2>2. e.login \in Accounts BY CmdParts DEF Entry
  <2>3. /\ s \in ScrType /\ s.at = "rm_look" /\ s.acct = cmd[c].user /\ s.only = o
        /\ ~s.touched /\ s.conn = "up"
    <3>1. cmd[c].user \in Accounts /\ o \in BOOLEAN BY CmdParts
    <3> HIDE DEF e, o
    <3> QED BY <2>2, <3>1, RemoveRunIs
  <2>4. scr' = [scr EXCEPT ![c] = s] BY <1>2 DEF TakeBack, Runs, RemoveRun
  <2>5. crossed' = (crossed \/ WorkedOn(c, s.acct))
    <3>1. \A x : RemoveScript(cmd[c].user, x).acct = cmd[c].user
      BY DEF RemoveScript, NoScript
    <3> QED BY <1>2, <2>3, <3>1 DEF TakeBack, Runs
  <2> HIDE DEF s, k
  <2>6. Script0(s, k)
    BY <2>1, <2>3 DEF Script0, Waits, RemoveSteps
  <2>7. HasCreds(k) BY <1>1, <2>1, CmdParts DEF HasCreds, OnUser, Proven
  <2>8. ~crossed => /\ s.acct # reg.login /\ Known(k, s, reg, host)
                    /\ s.only => host[s.acct].there
    <3>1. ~crossed => cmd[c].user # reg.login /\ host[cmd[c].user].there
      BY <1>1, CmdParts DEF Known, OnUser
    <3> QED BY <2>1, <2>3, <3>1 DEF Known, OnUser, OnOld, Proven
  <2>9. cmd[c].at \in Rotation \ Waits /\ k.at \in Waits
    BY <1>1, <2>1 DEF Rotation, OnUser, Waits
  <2>10. UNCHANGED <<host, reg, rootless, prov, stuck, lock>> BY <1>2 DEF TakeBack
  <2> QED BY <2>1, <2>3, <2>4, <2>5, <2>6, <2>7, <2>8, <2>9, <2>10, RunsCmd
<1>3. CASE ~((cmd[c].made \/ cmd[c].added) /\ Works(cmd[c].entry))
  BY <1>1, <1>3, CmdParts, EndsAlone DEF TakeBack
<1> QED BY <1>2, <1>3

LEMMA TakenBackSteps == ASSUME Inv, NEW c \in Cmds, TakenBack(c) PROVE CmdStep(c)
BY NoScriptType, CmdParts, EndsCmd DEF TakenBack

LEMMA SnapshotSteps == ASSUME Inv, NEW c \in Cmds, Snapshot(c) PROVE CmdStep(c)
<1>1. cmd[c].at = "snapshot" /\ UNCHANGED <<host, reg, rootless, prov, scr, stuck, crossed>>
  BY DEF Snapshot, At
<1>2. /\ prov' \in ProvType /\ cmd[c].at \in Rotation \ Waits /\ scr[c] = NoScript
      /\ "replace" \in Rotation \ Waits
  BY <1>1, CmdParts DEF Rotation, Waits, OnUser, Proven
<1>3. CASE Ends(c) BY <1>1, <1>2, <1>3, EndsAlone
<1>4. CASE To(c, "replace") /\ UNCHANGED lock
  <2>1. ~crossed => GetsIn(host[cmd[c].user], cmd[c]) BY <1>1, CmdParts DEF Known, Proven
  <2> QED BY <1>1, <1>2, <1>4, <2>1, GoesAlone DEF OnUser, OnOld, Proven, Careful
<1> QED BY <1>3, <1>4 DEF Snapshot

\* Replace: the login proven is the registry's.
LEMMA ReplaceSteps == ASSUME Inv, NEW c \in Cmds, Replace(c) PROVE CmdStep(c)
<1>1. cmd[c].at = "replace" /\ UNCHANGED <<host, prov, scr, stuck, crossed>>
  BY DEF Replace, At
<1>2. /\ prov' \in ProvType /\ scr[c] = NoScript /\ cmd[c].cred \in Creds /\ lock = c
      /\ cmd[c].user \in Accounts
  BY <1>1, CmdParts DEF Rotation, Waits, OnUser, Proven, HasCreds
<1>3. CASE Ends(c) /\ UNCHANGED <<reg, rootless>> BY <1>1, <1>2, <1>3, EndsAlone
<1>4. CASE To(c, "record") /\ reg' = New(c) /\ rootless' = FALSE /\ UNCHANGED lock
  <2> DEFINE k == [cmd[c] EXCEPT !.at = "record"]
  <2>1. k \in CmdType /\ k.at = "record" /\ cmd' = [cmd EXCEPT ![c] = k]
    BY <1>4, ToIs DEF Rotation
  <2> HIDE DEF k
  <2>2. scr' = [scr EXCEPT ![c] = NoScript] BY <1>1, <1>2, SameScript
  <2>3. Locked(c, k) BY <1>2, <1>4, <2>1 DEF Locked, Rotation
  <2>4. HasCreds(k) BY <2>1 DEF HasCreds, OnUser, Proven
  <2>5. Script0(NoScript, k) BY <2>1, NoScriptType DEF Script0, Waits
  <2>6. reg' \in RegType /\ reg'.login = cmd[c].user /\ reg'.cred = cmd[c].cred
    BY <1>2, <1>4 DEF New, RegType
  <2>7. ASSUME ~crossed
        PROVE  /\ RegIn(host[reg'.login], reg', rootless') /\ Alone(c, k, NoScript) /\ Untouched(c)
               /\ Known(k, NoScript, reg', host)
    <3>1. ApartInv /\ Known(cmd[c], scr[c], reg, host) BY <2>7, CmdParts DEF Calm
    <3>2. GetsIn(host[cmd[c].user], cmd[c]) BY <1>1, <3>1 DEF Known, Proven
    <3>3. RegIn(host[reg'.login], reg', rootless') BY <2>6, <3>2 DEF GetsIn, RegIn
    <3>4. \A d \in Cmds \ {c} : cmd[d].at \notin Rotation BY <1>2, OnlyHolder
    <3>5. \A d \in Cmds : Running(d) => scr[d].acct # cmd[c].user
      BY <1>1, <3>1 DEF ApartInv, Proven
    <3>6. Untouched(c) BY <2>6, <3>4, <3>5, PlaceSets DEF Untouched
    <3>7. Alone(c, k, NoScript) BY <2>1, NoScriptType DEF Alone, Runs0, Careful, Proven
    <3>8. Known(k, NoScript, reg', host) BY <2>1 DEF Known, OnUser, OnOld, Proven
    <3> QED BY <3>3, <3>6, <3>7, <3>8
  <2>8. crossed' \in BOOLEAN BY <1>1, CmdParts
  <2> QED BY <1>1, <1>2, <1>4, <2>1, <2>2, <2>3, <2>4, <2>5, <2>6, <2>7, <2>8, NoScriptKeeps, NoScriptType
          DEF CmdStep
<1> QED BY <1>3, <1>4 DEF Replace

LEMMA RecordItSteps == ASSUME Inv, NEW c \in Cmds, RecordIt(c) PROVE CmdStep(c)
<1>1. cmd[c].at = "record" /\ UNCHANGED <<host, reg, rootless, scr, stuck, crossed>>
  BY DEF RecordIt, At
<1>2. prov' \in ProvType
  <2>1. prov' = [old |-> cmd[c].old, new |-> cmd[c].user, removed |-> FALSE] \/ prov' = prov
    BY DEF RecordIt
  <2>2. [old |-> cmd[c].old, new |-> cmd[c].user, removed |-> FALSE] \in ProvType
    <3>1. cmd[c].old \in Accounts /\ cmd[c].user \in Accounts BY CmdParts
    <3> QED BY <3>1 DEF ProvType
  <2> QED BY <2>1, <2>2, CmdParts
<1>3. cmd[c].at \in Rotation \ Waits /\ scr[c] = NoScript /\ "rm_check" \in Rotation \ Waits
  BY <1>1, CmdParts DEF Rotation, Waits
<1>4. CASE Ends(c) BY <1>1, <1>2, <1>3, <1>4, EndsAlone
<1>5. CASE To(c, "rm_check") /\ UNCHANGED lock
  BY <1>1, <1>2, <1>3, <1>5, GoesAlone DEF OnUser, OnOld, Proven, Careful
<1> QED BY <1>4, <1>5 DEF RecordIt

LEMMA RmCheckSteps == ASSUME Inv, NEW c \in Cmds, RmCheck(c) PROVE CmdStep(c)
<1>1. cmd[c].at = "rm_check" /\ UNCHANGED <<host, reg, rootless, prov, scr, stuck, crossed>>
  BY DEF RmCheck, At
<1>2. prov' \in ProvType /\ scr[c] = NoScript /\ lock = c /\ reg \in RegType
  BY <1>1, CmdParts DEF Rotation, Waits
<1>3. CASE Ends(c) BY <1>1, <1>2, <1>3, EndsAlone
<1>4. CASE ~Ends(c)
  <2> DEFINE k == [cmd[c] EXCEPT !.at = "rm_run", !.entry = reg]
  <2>1. /\ cmd' = [cmd EXCEPT ![c] = k] /\ UNCHANGED lock
        /\ cmd[c].old # cmd[c].user /\ reg.login = cmd[c].user
    BY <1>4 DEF RmCheck
  <2>2. k \in CmdType /\ k.at = "rm_run" /\ k.old = cmd[c].old
    <3>1. reg \in Entry /\ "rm_run" \in Rotation
      BY <1>2 DEF RegType, Entry, MaybeCred, Rotation, OnOld
    <3> QED BY <3>1, CmdParts DEF CmdType
  <2> HIDE DEF k
  <2>3. Locked(c, k) BY <1>2, <2>1, <2>2 DEF Locked, Rotation, OnOld
  <2>4. HasCreds(k) BY <2>2 DEF HasCreds, OnUser, Proven
  <2>5. Known(k, NoScript, reg, host) /\ k.at \notin Careful /\ k.at \notin Waits
    BY <2>1, <2>2 DEF Known, OnUser, OnOld, Proven, Careful, Waits
  <2>6. scr' = [scr EXCEPT ![c] = NoScript] BY <1>1, <1>2, SameScript
  <2> QED BY <1>1, <1>2, <2>1, <2>2, <2>3, <2>4, <2>5, <2>6, MovesCmd
<1> QED BY <1>3, <1>4

LEMMA RmRunSteps == ASSUME Inv, NEW c \in Cmds, RmRun(c) PROVE CmdStep(c)
<1>1. cmd[c].at = "rm_run" /\ scr[c] = NoScript
  <2>1. cmd[c].at = "rm_run" BY DEF RmRun, At
  <2> QED BY <2>1, CmdParts DEF Waits
<1>2. CASE Works(cmd[c].entry)
  <2> DEFINE e == cmd[c].entry
             s == RemoveRun(cmd[c].old, FALSE, e.login)
             k == [cmd[c] EXCEPT !.at = "removing"]
  <2>1. /\ k \in CmdType /\ k.at = "removing" /\ k.old = cmd[c].old
        /\ cmd' = [cmd EXCEPT ![c] = k]
    BY <1>2, ToIs DEF RmRun, Rotation, OnOld
  <2>2. e.login \in Accounts BY CmdParts DEF Entry
  <2>3. /\ s \in ScrType /\ s.at = "rm_look" /\ s.acct = cmd[c].old /\ ~s.only
        /\ ~s.touched /\ s.conn = "up"
    <3>1. cmd[c].old \in Accounts BY CmdParts
    <3> HIDE DEF e
    <3> QED BY <2>2, <3>1, RemoveRunIs, ZenonT(60)
  <2>4. scr' = [scr EXCEPT ![c] = s] BY <1>2 DEF RmRun, Runs, RemoveRun
  <2>5. crossed' = (crossed \/ WorkedOn(c, s.acct))
    <3>1. \A x : RemoveScript(cmd[c].old, x).acct = cmd[c].old
      BY DEF RemoveScript, NoScript
    <3> QED BY <1>2, <2>3, <3>1 DEF RmRun, Runs
  <2> HIDE DEF s, k
  <2>6. Script0(s, k) BY <2>1, <2>3 DEF Script0, Waits, RemoveSteps
  <2>7. HasCreds(k) BY <2>1 DEF HasCreds, OnUser, Proven
  <2>8. ~crossed => s.acct # reg.login /\ Known(k, s, reg, host)
    <3>1. ~crossed => cmd[c].old # reg.login BY <1>1, CmdParts DEF Known, OnOld
    <3> QED BY <2>1, <2>3, <3>1 DEF Known, OnUser, OnOld, Proven
  <2>9. cmd[c].at \in Rotation \ Waits /\ k.at \in Waits
    BY <1>1, <2>1 DEF Rotation, OnOld, Waits
  <2>10. UNCHANGED <<host, reg, rootless, prov, stuck, lock>> BY <1>2 DEF RmRun
  <2> QED BY <2>1, <2>3, <2>4, <2>5, <2>6, <2>7, <2>8, <2>9, <2>10, RunsCmd
<1>3. CASE ~Works(cmd[c].entry) BY <1>1, <1>3, CmdParts, EndsAlone DEF RmRun
<1> QED BY <1>2, <1>3

LEMMA RemovedSteps == ASSUME Inv, NEW c \in Cmds, Removed(c) PROVE CmdStep(c)
<1>1. /\ cmd[c].at = "removing" /\ scr' = [scr EXCEPT ![c] = NoScript]
      /\ UNCHANGED <<host, reg, rootless, prov, stuck, crossed>>
  BY DEF Removed, At
<1>2. prov' \in ProvType /\ lock = c BY <1>1, CmdParts DEF Rotation, OnOld
<1>3. CASE Ends(c) BY <1>1, <1>2, <1>3, NoScriptType, EndsCmd
<1>4. CASE To(c, "rm_record") /\ UNCHANGED lock
  <2> DEFINE k == [cmd[c] EXCEPT !.at = "rm_record"]
  <2>1. k \in CmdType /\ k.at = "rm_record" /\ cmd' = [cmd EXCEPT ![c] = k]
    BY <1>4, ToIs DEF Rotation
  <2> HIDE DEF k
  <2>2. Locked(c, k) BY <1>2, <1>4, <2>1 DEF Locked, Rotation
  <2>3. HasCreds(k) BY <2>1 DEF HasCreds, OnUser, Proven
  <2>4. Known(k, NoScript, reg, host) /\ k.at \notin Careful /\ k.at \notin Waits
    BY <2>1 DEF Known, OnUser, OnOld, Proven, Careful, Waits
  <2> QED BY <1>1, <1>2, <2>1, <2>2, <2>3, <2>4, MovesCmd
<1> QED BY <1>3, <1>4 DEF Removed

LEMMA RmRecordSteps == ASSUME Inv, NEW c \in Cmds, RmRecord(c) PROVE CmdStep(c)
<1>1. cmd[c].at = "rm_record" /\ UNCHANGED <<host, reg, rootless, scr, stuck, crossed>> /\ Ends(c)
  BY DEF RmRecord, At
<1>2. prov' \in ProvType
  <2>1. prov' = [prov EXCEPT !.removed = @ \/ prov.new = cmd[c].user] \/ prov' = prov BY DEF RmRecord
  <2>2. \A x \in BOOLEAN : [prov EXCEPT !.removed = x] \in ProvType BY CmdParts DEF ProvType
  <2>3. (prov.removed \/ prov.new = cmd[c].user) \in BOOLEAN BY CmdParts DEF ProvType
  <2> QED BY <2>1, <2>2, <2>3, CmdParts
<1>3. scr[c] = NoScript BY <1>1, CmdParts DEF Waits
<1> QED BY <1>1, <1>2, <1>3, EndsAlone

\* Ctrl-C reaches a script of a command that waits for it.
LEMMA SignalledIs ==
    ASSUME NEW s \in ScrType, s.conn = "up", s.at \in ScriptSteps
    PROVE  LET r == Signalled(s)
           IN  /\ r \in ScrType /\ Like(s, r)
               /\ \/ s.at \in CreateSteps /\ r.at = "rb_line"
                  \/ s.at \notin CreateSteps /\ r.at = "done" /\ ~r.ok
<1>1. CASE s.at \in CreateSteps
  <2>1. "rb_line" \in Places BY DEF Places, ScriptSteps, RollbackSteps
  <2> QED BY <1>1, <2>1, MovedTo DEF Signalled
<1>2. CASE s.at \notin CreateSteps
  <2>1. After(s, FALSE) \in ScrType /\ Like(s, After(s, FALSE)) /\ After(s, FALSE).at = "done"
        /\ After(s, FALSE).ok = FALSE
    BY AfterIs
  <2> QED BY <1>2, <2>1 DEF Signalled
<1> QED BY <1>1, <1>2

LEMMA InterruptSteps == ASSUME Inv, NEW c \in Cmds, Interrupt(c) PROVE CmdStep(c)
<1> DEFINE k == [cmd[c] EXCEPT !.intr = TRUE]
           s == IF Running(c) THEN Signalled(scr[c]) ELSE scr[c]
           o == scr[c]
<1>1. /\ cmd[c].at \in Waits /\ UNCHANGED <<host, reg, rootless, prov, lock, stuck, crossed>>
      /\ cmd' = [cmd EXCEPT ![c] = k] /\ scr' = [scr EXCEPT ![c] = s]
  BY DEF Interrupt, Waiting, Waits, Inv, TypeInv
<1>2. /\ k \in CmdType /\ k.at = cmd[c].at /\ k.user = cmd[c].user /\ k.old = cmd[c].old
      /\ k.made = cmd[c].made /\ k.cred = cmd[c].cred
  BY CmdParts DEF CmdType
<1>3. /\ lock = c /\ o.conn = "up" /\ o.at # "none" /\ Script0(o, cmd[c]) /\ o \in ScrType
      /\ cmd[c].at \notin Careful
  BY <1>1, CmdParts, PlaceSets DEF Script0
<1>4. /\ s \in ScrType /\ s.acct = o.acct /\ s.only = o.only /\ s.conn = "up" /\ s.touched = o.touched
      /\ \/ s = o
         \/ o.at \in CreateSteps /\ s.at = "rb_line" /\ Running(c)
         \/ o.at \notin CreateSteps /\ s.at = "done" /\ ~s.ok
  <2>1. CASE Running(c)
    <3>1. o.at \in ScriptSteps BY <2>1, RunningSteps DEF Inv
    <3> QED BY <1>3, <2>1, <3>1, SignalledIs DEF Like
  <2>2. CASE ~Running(c) BY <1>3, <2>2
  <2> QED BY <2>1, <2>2
<1> HIDE DEF k, s
<1>5. Locked(c, k)
  <2>1. k.at \in Rotation BY <1>1, <1>2, PlaceSets
  <2> QED BY <1>1, <1>3, <2>1 DEF Locked
<1>6. HasCreds(k) BY <1>1, <1>2, CmdParts DEF HasCreds, OnUser, Proven, Waits
<1>7. s.at # "none" BY <1>3, <1>4
<1>8. Script0(s, k)
  <2>1. k.at \notin {"idle"} /\ k.at \in Waits BY <1>1, <1>2 DEF Waits
  <2>2. k.at = "creating" => s.at \in CreateSteps \cup RollbackSteps \cup {"done"}
    BY <1>2, <1>3, <1>4 DEF Script0, RollbackSteps
  <2>3. k.at \in {"taking", "removing"} => s.at \in RemoveSteps \cup {"done"}
    BY <1>2, <1>3, <1>4, StepSets DEF Script0
  <2>4. k.at = "creating" => s.acct = k.user BY <1>2, <1>3, <1>4 DEF Script0
  <2>5. k.at = "taking" => s.acct = k.user /\ s.only = ~k.made BY <1>2, <1>3, <1>4 DEF Script0
  <2>6. k.at = "removing" => s.acct = k.old /\ ~s.only BY <1>2, <1>3, <1>4 DEF Script0
  <2> QED BY <1>4, <1>7, <2>1, <2>2, <2>3, <2>4, <2>5, <2>6 DEF Script0
<1>9. ASSUME ~crossed
      PROVE  /\ RegIn(host[reg'.login], reg', rootless') /\ Progress(s, host[s.acct], s.acct \in stuck)
             /\ Alone(c, k, s) /\ Known(k, s, reg', host)
  <2>1. Reached /\ ProgressInv /\ ApartInv /\ Known(cmd[c], o, reg, host)
    BY <1>9, CmdParts DEF Calm
  <2>2. RegIn(host[reg'.login], reg', rootless') BY <1>1, <2>1, ReachedIs
  <2>3. Progress(o, host[s.acct], s.acct \in stuck) BY <1>4, <2>1 DEF ProgressInv
  <2>4. Progress(s, host[s.acct], s.acct \in stuck)
    <3>1. CASE s = o BY <2>3, <3>1
    <3>2. CASE o.at \in CreateSteps /\ s.at = "rb_line"
      BY <1>4, <2>3, <3>2 DEF Progress, CreateSteps, RollbackSteps
    <3>3. CASE s.at = "done" BY <1>4, <2>3, <3>3 DEF Progress
    <3> QED BY <1>4, <3>1, <3>2, <3>3
  <2>5. Runs0(s) => Running(c) BY <1>4 DEF Runs0, Running
  <2>6. Alone(c, k, s)
    <3>1. k.at \notin Careful BY <1>2, <1>3
    <3>2. \A d \in Cmds \ {c} : scr[d].acct = s.acct => ~Running(d) /\ (Runs0(s) => scr[d].at = "none")
      BY <1>3, <1>4, <2>1, <2>5 DEF ApartInv
    <3>3. Runs0(s) => s.acct # reg'.login BY <1>1, <1>4, <2>1, <2>5 DEF ApartInv
    <3>4. \A d \in Cmds \ {c} : cmd[d].at \in Careful /\ Runs0(s) => s.acct # cmd[d].user
      BY <1>4, <2>1, <2>5 DEF ApartInv, Careful
    <3> QED BY <3>1, <3>2, <3>3, <3>4 DEF Alone
  <2>7. Known(k, s, reg', host)
    <3>1. s.at = "done" /\ s.ok => s = o BY <1>4
    <3>2. k.at \notin Careful BY <1>2, <1>3
    <3> QED BY <1>1, <1>2, <1>4, <2>1, <3>1, <3>2 DEF Known, Careful, OnUser, OnOld, Proven
  <2> QED BY <2>2, <2>4, <2>6, <2>7
<1> QED BY <1>1, <1>2, <1>4, <1>5, <1>6, <1>8, <1>9, CmdParts DEF CmdStep

\* Its script is cut off.
LEMMA CutSteps == ASSUME Inv, NEW c \in Cmds, Lose(c) \/ Kill(c) PROVE CmdStep(c)
<1> DEFINE s == IF Running(c) THEN [scr[c] EXCEPT !.conn = "gone"] ELSE NoScript
<1>1. /\ Ends(c) /\ UNCHANGED <<host, reg, rootless, prov, stuck, crossed>> /\ scr' = [scr EXCEPT ![c] = s]
  BY DEF Lose, Kill, Cut, Inv, TypeInv
<1>2. /\ s \in ScrType
      /\ \/ s = NoScript
         \/ /\ Running(c) /\ s.at = scr[c].at /\ s.acct = scr[c].acct /\ s.only = scr[c].only
            /\ s.touched = scr[c].touched /\ s.conn = "gone"
  BY CmdParts, NoScriptType DEF ScrType
<1> HIDE DEF s
<1> QED BY <1>1, <1>2, CmdParts, EndsCmd

LEMMA TargetTestSteps ==
    ASSUME Inv, NEW c \in Cmds, NEW l \in Accounts, NEW cr \in Creds,
           TargetTest(c, [login |-> l, cred |-> cr])
    PROVE  CmdStep(c)
<1> DEFINE e == [login |-> l, cred |-> cr]
           w == ~Works(e)
           k == [Idle EXCEPT !.at = "target", !.entry = e, !.rootless = w]
<1>1. /\ cmd[c].at = "idle" /\ scr[c] = NoScript /\ cmd' = [cmd EXCEPT ![c] = k]
      /\ UNCHANGED <<host, reg, rootless, prov, lock, scr, stuck, crossed>>
  BY DEF TargetTest, At
<1>2. e \in Entry /\ e.cred \in Creds BY DEF Entry, MaybeCred
<1>8. w \in BOOLEAN OBVIOUS
<1> HIDE DEF e, w
<1>3. k \in CmdType /\ k.at = "target" /\ k.entry = e
  <2>1. \A i \in CmdType : LET q == [i EXCEPT !.at = "target", !.entry = e, !.rootless = w]
                           IN  q \in CmdType /\ q.at = "target" /\ q.entry = e
    BY <1>2, <1>8 DEF CmdType
  <2> QED BY <2>1, IdleType
<1> HIDE DEF k
<1>4. scr' = [scr EXCEPT ![c] = NoScript] BY <1>1, SameScript
<1>5. Locked(c, k)
  <2>1. lock # c /\ k.at \notin Rotation BY <1>1, <1>3, CmdParts, PlaceSets
  <2> QED BY <1>1, <2>1 DEF Locked
<1>6. HasCreds(k) BY <1>2, <1>3 DEF HasCreds, OnUser, Proven
<1>7. Known(k, NoScript, reg, host) /\ k.at \notin Careful /\ k.at \notin Waits
  BY <1>3 DEF Known, OnUser, OnOld, Proven, Careful, Waits
<1> QED BY <1>1, <1>3, <1>4, <1>5, <1>6, <1>7, CmdParts, MovesCmd

LEMMA TargetWriteSteps == ASSUME Inv, NEW c \in Cmds, TargetWrite(c) PROVE CmdStep(c)
<1>1. /\ cmd[c].at = "target" /\ reg' = cmd[c].entry /\ crossed' = (crossed \/ Overtaken(c)) /\ Ends(c)
      /\ rootless' = cmd[c].rootless /\ UNCHANGED <<host, prov, scr, stuck>>
  BY DEF TargetWrite, At
<1>2. scr[c] = NoScript /\ scr' = [scr EXCEPT ![c] = NoScript] BY <1>1, CmdParts, SameScript DEF Waits
<1>3. cmd' = [cmd EXCEPT ![c] = Idle] /\ Idle \in CmdType /\ Idle.at = "idle" BY <1>1, IdleType DEF Ends
<1>4. Locked(c, Idle) BY <1>1, <1>3, PlaceSets DEF Ends, Locked
<1>5. HasCreds(Idle) BY <1>3 DEF HasCreds, OnUser, Proven
<1>6. reg' \in RegType BY <1>1, CmdParts DEF HasCreds, Entry, RegType
<1>7. Script0(NoScript, Idle) BY <1>3, NoScriptType DEF Script0, Waits
<1>8. crossed' \in BOOLEAN /\ (crossed => crossed') BY <1>1, CmdParts DEF Overtaken, WorkedOn
<1>9. ASSUME ~crossed'
      PROVE  /\ RegIn(host[reg'.login], reg', rootless') /\ Alone(c, Idle, NoScript) /\ Untouched(c)
             /\ Known(Idle, NoScript, reg', host)
  <2>1. ~Overtaken(c) BY <1>1, <1>9
  <2>2. RegIn(host[reg'.login], reg', rootless')
    <3>1. LogsIn(cmd[c].entry) /\ (cmd[c].rootless \/ Works(cmd[c].entry)) BY <2>1 DEF Overtaken
    <3> QED BY <1>1, <3>1 DEF RegIn, LogsIn, Works
  <2>3. Untouched(c) BY <1>1, <2>1 DEF Overtaken, WorkedOn, Untouched, OnUser, OnOld
  <2>4. Alone(c, Idle, NoScript) BY <1>3, NoScriptType DEF Alone, Runs0, Careful, Proven
  <2>5. Known(Idle, NoScript, reg', host) BY <1>3 DEF Known, OnUser, OnOld, Proven
  <2> QED BY <2>2, <2>3, <2>4, <2>5
<1> QED BY <1>1, <1>2, <1>3, <1>4, <1>5, <1>6, <1>7, <1>8, <1>9, CmdParts, NoScriptKeeps, NoScriptType
        DEF CmdStep

LEMMA EveryCmdStep == ASSUME Inv, NEW c \in Cmds, Command(c) PROVE CmdStep(c)
BY StartSteps, RunCreateSteps, CreatedSteps, ProveSteps, TakeBackSteps, TakenBackSteps, SnapshotSteps,
   ReplaceSteps, RecordItSteps, RmCheckSteps, RmRunSteps, RemovedSteps, RmRecordSteps, InterruptSteps,
   CutSteps, TargetTestSteps, TargetWriteSteps
   DEF Command

----------------------------------------------------------------------------
(* The invariant.                                                          *)

LEMMA InitInv == Init => Inv
<1> SUFFICES ASSUME Init PROVE Inv OBVIOUS
<1>1. PICK cr \in Keys :
        /\ host = [a \in Accounts |->
                     IF a = Initial
                     THEN [NoAccount EXCEPT !.there = TRUE, !.own = TRUE, !.ssh = TRUE, !.cred = cr]
                     ELSE NoAccount]
        /\ reg = [login |-> Initial, cred |-> cr]
  BY DEF Init
<1> DEFINE h == [NoAccount EXCEPT !.there = TRUE, !.own = TRUE, !.ssh = TRUE, !.cred = cr]
<1>2. h \in Account /\ h.there /\ ~h.expired /\ h.own /\ h.cred = cr /\ h.line = "none"
  BY DEF NoAccount, Account, Creds
<1>3. /\ NoAccount \in Account /\ ~NoAccount.there /\ ~NoAccount.expired /\ ~NoAccount.ssh
      /\ NoAccount.cred = NoOne /\ NoAccount.line = "none"
  BY DEF NoAccount, Account, Creds
<1>4. host = [a \in Accounts |-> IF a = Initial THEN h ELSE NoAccount] BY <1>1
<1> HIDE DEF h
<1>5. /\ \A c \in Cmds : cmd[c] = Idle /\ scr[c] = NoScript
      /\ cmd \in [Cmds -> CmdType] /\ scr \in [Cmds -> ScrType]
  BY IdleType, NoScriptType DEF Init
<1>6. TypeInv
  <2>1. host \in [Accounts -> Account] BY <1>2, <1>3, <1>4
  <2>2. reg \in [login : Accounts, cred : Creds] BY <1>1, RotateAssumption DEF Creds
  <2>3. prov \in [old : Accounts, new : Accounts, removed : BOOLEAN]
    BY RotateAssumption DEF Init, NoProv
  <2> QED BY <1>5, <2>1, <2>2, <2>3 DEF Init, TypeInv
<1>7. CredInv BY <1>5, IdleType DEF CredInv, OnUser, Proven
<1>8. WorkInv
  <2>1. lock = NoOne /\ \A c \in Cmds : lock # c BY RotateAssumption DEF Init
  <2>2. Script0(NoScript, Idle) BY IdleType, NoScriptType DEF Script0, Waits
  <2> QED BY <1>5, <2>1, <2>2, IdleType, PlaceSets DEF WorkInv
<1>9. Calm
  <2>1. reg.login = Initial /\ reg.cred = cr /\ host[Initial] = h BY <1>1, <1>4, RotateAssumption
  <2>2. Reached BY <1>2, <2>1 DEF Reached, LogsIn, Works
  <2>3. HostInv
    <3>1. ASSUME NEW a \in Accounts PROVE Sound(host[a], a \in stuck)
      <4>1. host[a] = h \/ host[a] = NoAccount BY <1>4
      <4> QED BY <1>2, <1>3, <4>1 DEF Sound
    <3> QED BY <3>1 DEF HostInv
  <2>4. ProgressInv BY <1>5, NoScriptKeeps DEF ProgressInv
  <2>5. ApartInv BY <1>5, NoScriptType DEF ApartInv, Running
  <2>6. KnownInv BY <1>5, IdleType DEF KnownInv, Known, OnUser, OnOld, Proven
  <2> QED BY <2>2, <2>3, <2>4, <2>5, <2>6 DEF Calm
<1> QED BY <1>6, <1>7, <1>8, <1>9 DEF Inv

LEMMA StutterInv == ASSUME Inv, UNCHANGED vars PROVE Inv'
<1>1. UNCHANGED <<host, reg, rootless, prov, lock, cmd, scr, stuck, crossed>> BY DEF vars
<1>2. TypeInv' /\ CredInv' /\ WorkInv' BY <1>1 DEF Inv, TypeInv, CredInv, WorkInv
<1>3. \A d \in Cmds : Running(d)' <=> Running(d) BY <1>1 DEF Running
<1>4. ASSUME ~crossed' PROVE Calm'
  <2>1. Reached /\ HostInv /\ ProgressInv /\ ApartInv /\ KnownInv BY <1>1, <1>4 DEF Inv, Calm
  <2>2. Reached' BY <1>1, <2>1 DEF Reached, LogsIn, Works
  <2>3. HostInv' /\ ProgressInv' /\ KnownInv' BY <1>1, <2>1 DEF HostInv, ProgressInv, KnownInv
  <2>4. ApartInv' BY <1>1, <1>3, <2>1 DEF ApartInv
  <2> QED BY <2>2, <2>3, <2>4 DEF Calm
<1> QED BY <1>2, <1>4 DEF Inv

LEMMA NextInv == Inv /\ [Next]_vars => Inv'
<1> SUFFICES ASSUME Inv, [Next]_vars PROVE Inv' OBVIOUS
<1>1. CASE UNCHANGED vars BY <1>1, StutterInv
<1>2. ASSUME NEW c \in Cmds, Script(c) PROVE Inv'
  BY <1>2, EveryScriptStep, ScriptInv DEF Inv
<1>3. ASSUME NEW c \in Cmds, Command(c) PROVE Inv' BY <1>3, EveryCmdStep, CmdInv
<1> QED BY <1>1, <1>2, <1>3 DEF Next

LEMMA Invariant == Spec => []Inv
BY InitInv, NextInv, PTL DEF Spec

LEMMA InvTypeOK == Inv => TypeOK
<1> SUFFICES ASSUME Inv PROVE TypeOK OBVIOUS
<1>1. ASSUME NEW c \in Cmds
      PROVE  /\ scr[c].at \in CreateSteps \cup RollbackSteps \cup RemoveSteps \cup {"none", "done"}
             /\ scr[c].conn \in {"up", "gone", "told"} /\ scr[c].acct \in Accounts
             /\ Waiting(c) => scr[c] # NoScript
             /\ lock = c => cmd[c].at # "idle"
  <2>1. scr[c] \in ScrType /\ Script0(scr[c], cmd[c]) /\ (cmd[c].at \in Rotation <=> lock = c) BY CmdParts
  <2>2. Waiting(c) => scr[c] # NoScript BY <2>1, NoScriptType DEF Waiting, Script0, Waits
  <2> QED BY <2>1, <2>2, PlaceSets DEF ScrType, ScriptSteps
<1> QED BY <1>1 DEF Inv, TypeInv, TypeOK

----------------------------------------------------------------------------
(* The theorems.                                                           *)

\* docs/hosts/enrolling.md 224: after every step of a rotation, of the scripts it
\* runs as root, of a rollback or a removal, and after any kill, lost connection or
\* failed step, the login the registry names gets in, and it reaches root unless
\* 'host target' itself accepted, with a warning, one that does not
\* (host_target.go 145-150): a rotation never makes such a line, and nothing it
\* does takes root away from a login that has it.  All this as long as no two have
\* worked on one account at once (cli/host_provisioner.go, hosts/rotate_script.go).
THEOREM LoginStays == Spec => []NeverLockedOut
<1>1. Inv => NeverLockedOut BY InvTypeOK DEF Inv, Calm, Reached, NeverLockedOut
<1> QED BY <1>1, Invariant, PTL

\* rotate_script.go 16-22: tacctl's sudoers file has a line for an account only
\* while the account and root's record of it are there, at every step of the
\* scripts; a line that could not be taken out is the exception.
THEOREM LinesAreAccounted == Spec => []GrantsAreAccounted
<1>1. Inv => GrantsAreAccounted
  <2> SUFFICES ASSUME Inv, ~crossed, NEW a \in Accounts \ stuck, host[a].line # "none"
               PROVE  host[a].there /\ host[a].rec # "none"
    BY DEF GrantsAreAccounted
  <2>1. Sound(host[a], a \in stuck) BY DEF Inv, Calm, HostInv
  <2> QED BY <2>1 DEF Sound
<1> QED BY <1>1, Invariant, PTL

\* cli/host_provisioner.go 608-650 and 665-690: what a rotation says of the account
\* it took back or of the old one it removed is so on the host.
THEOREM SaidIsLeft == Spec => SaysWhatIsLeft
<1> DEFINE Says(c) ==
        LET u == host'[cmd[c].user]
            o == host'[cmd[c].old]
            said == Step(c, "done") /\ scr[c].ok /\ scr'[c] = NoScript
        IN  ~crossed =>
            /\ At(c, "taking") /\ said /\ cmd[c].made => u = [NoAccount EXCEPT !.own = u.own]
            /\ At(c, "taking") /\ said /\ ~cmd[c].made => u.there /\ u.line = "none"
            /\ At(c, "removing") /\ said => o = [NoAccount EXCEPT !.own = o.own]
<1>1. ASSUME Inv, [Next]_vars, NEW c \in Cmds PROVE Says(c)
  <2> SUFFICES ASSUME ~crossed, scr[c].at = "done", scr[c].ok, scr'[c] = NoScript,
                      cmd[c].at \in {"taking", "removing"}
               PROVE  /\ cmd[c].at = "taking" /\ cmd[c].made => Bare(host'[cmd[c].user])
                      /\ cmd[c].at = "taking" /\ ~cmd[c].made =>
                            host'[cmd[c].user].there /\ host'[cmd[c].user].line = "none"
                      /\ cmd[c].at = "removing" => Bare(host'[cmd[c].old])
    BY DEF At, Step, Bare
  <2>1. scr'[c] # scr[c] BY NoScriptType
  <2>2. scr \in [Cmds -> ScrType] BY <1>1 DEF Inv, TypeInv
  <2>3. ASSUME NEW d \in Cmds, Script(d) PROVE FALSE
    <3>1. ScriptStep(d) BY <1>1, <2>3, EveryScriptStep DEF Inv
    <3>2. Running(d) /\ \E r : scr' = [scr EXCEPT ![d] = r] BY <3>1 DEF ScriptStep
    <3>3. d # c BY <3>2 DEF Running
    <3> QED BY <2>1, <2>2, <3>2, <3>3
  <2>4. \E d \in Cmds : Command(d) BY <1>1, <2>1, <2>3 DEF Next, vars
  <2>5. host' = host BY <1>1, <2>4, EveryCmdStep DEF CmdStep
  <2>6. Script0(scr[c], cmd[c]) /\ Known(cmd[c], scr[c], reg, host) /\ ProgressInv
    BY <1>1, CmdParts DEF Calm
  <2>7. Left(scr[c].only, host[scr[c].acct]) BY <2>6 DEF Known
  <2>8. scr[c].only => host[scr[c].acct].there BY <2>6 DEF ProgressInv, Progress
  <2>9. CASE cmd[c].at = "taking"
    <3>1. scr[c].acct = cmd[c].user /\ scr[c].only = ~cmd[c].made BY <2>6, <2>9 DEF Script0
    <3> QED BY <2>5, <2>7, <2>8, <2>9, <3>1 DEF Left
  <2>10. CASE cmd[c].at = "removing"
    <3>1. scr[c].acct = cmd[c].old /\ ~scr[c].only BY <2>6, <2>10 DEF Script0
    <3> QED BY <2>5, <2>7, <2>10, <3>1 DEF Left
  <2> QED BY <2>9, <2>10
<1>2. Inv /\ [Next]_vars => [\A c \in Cmds : Says(c)]_vars BY <1>1
<1>3. Spec => [][\A c \in Cmds : Says(c)]_vars
  <2> HIDE DEF Says
  <2> QED BY <1>2, Invariant, PTL DEF Spec
<1> QED BY <1>3 DEF SaysWhatIsLeft

============================================================================
