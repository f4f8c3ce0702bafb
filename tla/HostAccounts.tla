---------------------------- MODULE HostAccounts ----------------------------
(***************************************************************************)
(* The accounts of an enrolled host and the client script that keeps them  *)
(* (config/linux/client-install.sh), composed with the UID ledger the      *)
(* script is written from.  A script is run once, as a whole, at any time  *)
(* after it was written: the ledger and the store may have moved on, and a *)
(* younger script may have run first ('config linux script' hands it to    *)
(* the operator).                                                          *)
(*                                                                         *)
(* The script knows an account by its name, its UID and whether it is in   *)
(* the list of the accounts it created.  Whose account it is (owner) is    *)
(* not on the host: it is what the UID stands for.                         *)
(***************************************************************************)
EXTENDS UIDLedger

CONSTANTS
    NameOrder,  \* Names in the order of the rows and of 'sort'
    LocalUID,   \* the number a local account gets, 0 for no such account
    AllowMismatch \* --allow-uid-mismatch may be given

ASSUME NameOrderAssumption ==
    /\ NameOrder \in Seq(Names)
    /\ \A n \in Names : \E i \in 1 .. Len(NameOrder) : NameOrder[i] = n
    /\ \A i, j \in 1 .. Len(NameOrder) : NameOrder[i] = NameOrder[j] => i = j

ASSUME LocalAssumption == LocalUID \in Nat

VARIABLE host  \* the accounts: see Account

hvars == <<vars, host>>

\* ours: the account is in the script's 'created' list; expired: in its 'expired'
\* list; owner: the person, 0 for a local account; off: it was created at another
\* number than the person's, which was taken here.
Account(n, u, p) ==
    [name |-> n, uid |-> u, ours |-> p # 0, expired |-> FALSE, owner |-> p, off |-> FALSE]

HInit ==
    /\ Init
    /\ host = {Account(n, ledger.nums[n], who[n]) : n \in {m \in Names : ledger.nums[m] # 0}}

\* getent passwd <uid> and <name>.
WithUID(h, u) == {x \in h : x.uid = u}
Named(h, n) == {x \in h : x.name = n}
Free(h, u) == WithUID(h, u) = {}

\* account_state.
Foreign(h, n) == \E x \in Named(h, n) : ~x.ours
Managed(h, s, n) == \E x \in Named(h, n) : x.ours /\ Has(s.rng, x.uid)

\* RENAME_KNOWN: everyone the server names.
Known(s) == s.users \cup s.inactive

(***************************************************************************)
(* rename_accounts.  The number is the link: the holder of a listed user's *)
(* number, or of the number it had in an earlier range, is that user's     *)
(* account under an older name.  The numbers of two names differ, so the   *)
(* loop's rounds do not meet.                                              *)
(***************************************************************************)
\* A bug: the first number of each earlier range, whatever the user's offset.
CandidatesFirst(s, n) == <<s.nums[n]>> \o [i \in 1 .. Len(s.prev) |-> s.prev[i].min]

\* The number here, then the same offset in each earlier range.
Candidates(s, n) ==
    <<s.nums[n]>> \o
    [i \in 1 .. Len(s.prev) |-> LET u == s.nums[n] - s.rng.min + s.prev[i].min
                                IN  IF Has(s.prev[i], u) THEN u ELSE 0]

\* The holder of the first of them that some account has.
HolderOf(h, s, n) ==
    LET c == Candidates(s, n)
    IN  {x \in h : /\ s.nums[n] # 0
                   /\ \E i \in 1 .. Len(c) : x.uid = c[i] /\ \A j \in 1 .. i - 1 : Free(h, c[j])}

\* A bug: whoever made the account.
StaleAny(h, s, n) == {x \in HolderOf(h, s, n) : x.name # n /\ x.name \notin Known(s)}

\* rename_holder's early returns: a renamed account is tacctl's, and no one the
\* server names has its name.
Stale(h, s, n) == {x \in HolderOf(h, s, n) : x.name # n /\ x.ours /\ x.name \notin Known(s)}

\* The new name of each account renamed now.
RenamedTo(h, s, busy, x) ==
    {n \in Known(s) : x \in Stale(h, s, n) /\ Named(h, n) = {} /\ x.uid \notin busy}

\* The names left alone for this run.
RenameDeferred(h, s, busy) ==
    UNION {LET stale == {x \in Stale(h, s, n) : \/ Foreign(h, n)
                                                \/ Named(h, n) = {} /\ x.uid \in busy}
           IN  {x.name : x \in stale} \cup (IF stale = {} \/ Foreign(h, n) THEN {} ELSE {n})
           : n \in Known(s)}

\* rename_account: the account and tacctl's lists follow.
Renaming(h, s, busy) ==
    {[x EXCEPT !.name = IF RenamedTo(h, s, busy, x) = {} THEN @
                        ELSE CHOOSE n \in RenamedTo(h, s, busy, x) : TRUE] : x \in h}

\* check_ids: a new account whose number another account has.
Conflicts(h, s, deferred) ==
    {n \in s.users \ deferred : Named(h, n) = {} /\ ~Free(h, s.nums[n])}

(***************************************************************************)
(* sync_accounts.                                                          *)
(***************************************************************************)
\* previous_first.
PreviousFirst(s, u) ==
    LET at == {i \in 1 .. Len(s.prev) : Has(s.prev[i], u)}
    IN  IF at = {} THEN 0 ELSE s.prev[Min(at)].min

\* The accounts renumber_previous looks at.
Earlier(h, s) == {x \in h : x.ours /\ ~Has(s.rng, x.uid) /\ PreviousFirst(s, x.uid) # 0}

\* A bug: one too far.
NewUIDShifted(s, x) == x.uid - PreviousFirst(s, x.uid) + s.rng.min + 1

\* Where each would go: the same offset in the range.
NewUID(s, x) == x.uid - PreviousFirst(s, x.uid) + s.rng.min

Before(n, m) == \E i, j \in 1 .. Len(NameOrder) : i < j /\ NameOrder[i] = n /\ NameOrder[j] = m

\* renumber_account's refusals: outside the range, taken here (by an account moved
\* before it, too), or in use.
Renumberable(h, s, busy) ==
    {x \in Earlier(h, s) :
        /\ Has(s.rng, NewUID(s, x)) /\ Free(h, NewUID(s, x)) /\ x.uid \notin busy
        /\ ~\E y \in Earlier(h, s) : Before(y.name, x.name) /\ NewUID(s, y) = NewUID(s, x)}

Renumbering(h, s, busy) ==
    {[x EXCEPT !.uid = IF x \in Renumberable(h, s, busy) THEN NewUID(s, x) ELSE @] : x \in h}

\* free_id_in_range: the highest free number, none when the range is full.
FreeIDs(h, s) ==
    LET free == {u \in s.rng.min .. s.rng.max : Free(h, u)}
    IN  IF free = {} THEN {} ELSE {Max(free)}

\* The loop over the listed users, one of them: an account is created, or opened.
ListOne(s, h, n) ==
    IF Managed(h, s, n) THEN {[x EXCEPT !.expired = @ /\ x.name # n] : x \in h}
    ELSE IF Named(h, n) # {} THEN h
    ELSE IF Free(h, s.nums[n]) THEN h \cup {Account(n, s.nums[n], s.who[n])}
    ELSE h \cup {[Account(n, u, s.who[n]) EXCEPT !.off = TRUE] : u \in FreeIDs(h, s)}

\* The loop, round by round in the order of the rows.
Rounds(h, s, listed) ==
    LET round[i \in 0 .. Len(NameOrder)] ==
            IF i = 0 THEN h
            ELSE IF NameOrder[i] \in listed THEN ListOne(s, round[i - 1], NameOrder[i])
            ELSE round[i - 1]
    IN  round

\* assigned_holder.
AssignedHolder(s, u) == {n \in Known(s) : s.nums[n] = u}

\* A bug: a disabled user's account goes as a removed user's does.
RemovalDisabled(h, s, busy, deferred) ==
    LET unlisted == {x \in h : /\ x.ours /\ x.name \notin s.users \cup deferred
                               /\ Has(s.rng, x.uid)
                               /\ AssignedHolder(s, x.uid) \subseteq {x.name}}
        deleted == {x \in unlisted : x.uid \notin busy}
    IN  (h \ unlisted) \cup {[x EXCEPT !.expired = TRUE] : x \in unlisted \ deleted}

\* The loop over the accounts tacctl created that are not listed.  One outside the
\* range, or at the number of another user, is left; a disabled user's is expired;
\* any other is deleted (delete_account expires first, and an account with
\* processes cannot be deleted).
Removal(h, s, busy, deferred) ==
    LET unlisted == {x \in h : /\ x.ours /\ x.name \notin s.users \cup deferred
                               /\ Has(s.rng, x.uid)
                               /\ AssignedHolder(s, x.uid) \subseteq {x.name}}
        deleted == {x \in unlisted : x.name \notin s.inactive /\ x.uid \notin busy}
    IN  (h \ unlisted) \cup {[x EXCEPT !.expired = TRUE] : x \in unlisted \ deleted}

\* The script's run on a host, busy the UIDs with processes: rename_accounts,
\* check_ids (which may end it), then sync_accounts.
RunScript(h, s, busy, allow) ==
    LET h1 == Renaming(h, s, busy)
        d1 == RenameDeferred(h, s, busy)
        d2 == d1 \cup {x.name : x \in Earlier(h1, s) \ Renumberable(h1, s, busy)}
        h3 == Rounds(Renumbering(h1, s, busy), s, s.users \ d2)[Len(NameOrder)]
    IN  IF Conflicts(h1, s, d1) # {} /\ ~allow THEN h1 ELSE Removal(h3, s, busy, d2)

\* The built script reaches the host.  Any of tacctl's accounts there may have
\* processes.
Run(c) ==
    /\ At(c, "built")
    /\ \E allow \in {FALSE, AllowMismatch} :
       \E busy \in SUBSET {x.uid : x \in {y \in host : y.ours}} :
          host' = RunScript(host, cmd[c].script, busy, allow)
    /\ Done(c)

\* An administrator of the host adds a local account.
LocalAdd(n) ==
    /\ LocalUID # 0
    /\ Named(host, n) = {} /\ Free(host, LocalUID)
    /\ host' = host \cup {Account(n, LocalUID, 0)}
    /\ UNCHANGED vars

HNext ==
    \/ Next /\ UNCHANGED host
    \/ \E c \in Cmds : Run(c)
    \/ \E n \in Names : LocalAdd(n)

HSpec == HInit /\ [][HNext]_hvars

(***************************************************************************)
(* Properties.                                                             *)
(***************************************************************************)
\* The step is the run of c's script, and it changed the host.
Ran(c) == At(c, "built") /\ host' # host /\ cmd'[c] = Idle

People(h) == {x.owner : x \in h} \ {0}

\* A person who got a second number while a rename was between its two halves
\* (scriptUsers reads the rows before it locks the ledger), or by hand.
Split(p) == Cardinality({g[1] : g \in {h \in given : h[2] = p}}) > 1

\* No two accounts of the host share a name or a number, and tacctl's own are the
\* ones with a person behind them.
HTypeOK ==
    /\ \A x, y \in host : x # y => x.name # y.name /\ x.uid # y.uid
    /\ \A x \in host : x.name \in Names /\ (x.ours <=> x.owner # 0) /\ (x.expired => x.ours)

\* client-install.sh 520-543: the UID is the link.  An account tacctl gave to a
\* person whose line is in the ledger is at that line's number, or at the same
\* offset of a range the ledger was numbered for before, however many scripts, old
\* and new, renames and renumberings happened since.  (One that was created off
\* its number, because another account had it, has lost that link: the three
\* properties are about the others.)
NumberIsTheLink ==
  /\ HTypeOK
  /\ \A x \in host, m \in Names :
        x.ours /\ ~x.off /\ line[m] = x.owner /\ ~Split(x.owner) =>
            \/ x.uid = ledger.nums[m]
            \/ \E i \in 1 .. Len(ledger.prev) :
                  /\ Has(ledger.prev[i], x.uid)
                  /\ x.uid - ledger.prev[i].min = ledger.nums[m] - ledger.rec.min

\* docs/hosts/account-lifecycle.md 13-28: an account that appears under a name
\* belongs to the person the number was given to: no run renames one person's
\* account, with its home, to the name of another.
NoHandover ==
    [][\A c \in Cmds : Ran(c) =>
          \A x \in host' : x.ours /\ ~x.off /\ ~(\E y \in host : y.name = x.name /\ y.owner = x.owner) =>
             x.owner \in {cmd[c].script.who[x.name], cmd[c].script.line[x.name]}]_hvars

\* client-install.sh 1664-1694: no run deletes the account of a person the script
\* names, listed or disabled, with the one number the person has.
UsersKeepAccounts ==
    [][\A c \in Cmds : Ran(c) =>
          LET s == cmd[c].script
          IN  \A n \in Known(s) :
                 /\ s.nums[n] # 0 /\ s.who[n] = s.line[n] /\ ~Split(s.who[n])
                 /\ s.who[n] \in People({x \in host : ~x.off})
                 => s.who[n] \in People(host')]_hvars

\* client-install.sh 465-470: an account tacctl did not create is left exactly as
\* it is, whatever its name and whatever is renamed around it.
LocalUntouched ==
    [][\A x \in host : ~x.ours => x \in host']_hvars
=============================================================================
