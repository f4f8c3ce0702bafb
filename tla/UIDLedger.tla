------------------------------ MODULE UIDLedger ------------------------------
(***************************************************************************)
(* The UID ledger (/etc/tacctl/linux-uids): the number each user has on    *)
(* every enrolled host.  The ledger is one file, replaced whole by every   *)
(* writer under its own lock; the commands that use it read the range from *)
(* tacctl.yaml and the users from the store first, each at a moment of its *)
(* own, so that what they bring into the lock can be old.                  *)
(*                                                                         *)
(*   host sync, host enroll, config linux script   Begin .. BuildEnd       *)
(*   config linux uid <user> <uid>                 Begin, Renumber, Assign *)
(*   config linux uid-range                        RangeCheck .. RangeDone *)
(*   user add, remove, disable, enable, rename     the store, then the     *)
(*                                                 ledger (MoveUser)       *)
(*                                                                         *)
(* A user is a name; the person behind it (who) is not in the code: it is  *)
(* what the promise "a later user never inherits a number" is about.  A    *)
(* name added again while the ledger still has its line is the same person *)
(* come back; any other added name is a new person.                        *)
(***************************************************************************)
EXTENDS Integers, Sequences, FiniteSets, FiniteSetsExt

CONSTANTS
    Names,      \* user names
    Cmds,       \* commands that may run at once
    Ranges,     \* the ranges an operator may set, records [min, max]
    Legacy,     \* hosts.LegacyRange
    Default,    \* hosts.DefaultRange
    MinSize,    \* hosts.RangeMinSize
    StartLegacy,\* the ledger is one of a release up to 0.2.0, else absent
    ReuseNames, \* a name that was someone's may be given to someone else
    RangeAlone, \* a range is changed while no other command is before its script
    MaxPeople,  \* bound: people ever added
    MaxChanges, \* bound: removals, disables and enables
    MaxRenames, \* bound: user renames
    MaxAssigns, \* bound: numbers set by hand
    MaxRanges   \* bound: range changes

IsRange(r) == r.min \in Nat /\ r.max \in Nat /\ r.min >= 1

ASSUME RangeAssumption ==
    /\ Ranges \subseteq [min : Nat, max : Nat]
    /\ Legacy \in [min : Nat, max : Nat]
    /\ Default \in [min : Nat, max : Nat]
    /\ \A r \in Ranges \cup {Legacy, Default} : IsRange(r) /\ r.min <= r.max
    /\ StartLegacy \in BOOLEAN /\ ReuseNames \in BOOLEAN /\ RangeAlone \in BOOLEAN
    /\ MinSize \in Nat /\ Names # {}
    /\ MaxPeople \in Nat /\ MaxChanges \in Nat /\ MaxRenames \in Nat /\ MaxAssigns \in Nat /\ MaxRanges \in Nat

VARIABLES
    status,  \* the store: name -> "none", "active" or "disabled"
    who,     \* the person a name stands for, 0 for none (not in the code)
    conf,    \* linux.uid_min and linux.uid_max of tacctl.yaml
    ledger,  \* [nums: name -> number or 0, rec: range, prev: earlier ranges]
    lock,    \* the holder of .linux-uids.lock across steps, or NoCmd
    cmd,     \* each command's place and what it has read
    ren,     \* the rename between its store write and its ledger half
    rset,    \* the range change under way
    line,    \* the person each line of the ledger was given to (not in the code)
    given,   \* every <<number, person>> given (not in the code)
    used     \* how much of each bound is spent

vars == <<status, who, conf, ledger, lock, cmd, ren, rset, line, given, used>>

NoCmd == "no command"
ASSUME CmdAssumption == NoCmd \notin Cmds

NoRange == [min |-> 0, max |-> 0]
NoRen == <<>>
NoSet == [step |-> "none", to |-> NoRange]
NoNums == [n \in Names |-> 0]
NoRows == [active |-> {}, inactive |-> {}, who |-> NoNums]
NoScript == [rng |-> NoRange, prev |-> <<>>, nums |-> NoNums, users |-> {}, inactive |-> {},
             who |-> NoNums, line |-> NoNums]
Idle == [kind |-> "none", at |-> "idle", rng |-> NoRange, rows |-> NoRows, todo |-> {},
         script |-> NoScript]

\* Range.Has and Range.Overlaps.
Has(r, n) == r.min <= n /\ n <= r.max
Overlaps(r, o) == r.min <= o.max /\ o.min <= r.max

\* hosts.RangeProblem: what tacctl.yaml may hold while uid_min is written and
\* uid_max is not (the reserved numbers of systemd are left out of Ranges).
RangeProblem(r) == r.min > r.max \/ r.max - r.min + 1 < MinSize

Absent(l) == l.rec = NoRange /\ l.nums = NoNums

\* UIDs.Holder: the name with the number.
Holders(l, u) == {n \in Names : l.nums[n] = u}

(***************************************************************************)
(* The ledger's own operations.                                            *)
(***************************************************************************)
\* The numbers given out so far in the range.
InRange(l, r) == {u \in {l.nums[n] : n \in Names} : Has(r, u)}

\* UIDs.next: one past the highest of the range, its first when there is none.
NextUID(l, r) == IF InRange(l, r) = {} THEN r.min ELSE Max(InRange(l, r)) + 1

\* UIDs.For for a name with no line: the line is added, and a new file
\* records its range first.
WithLine(l, r, n) ==
    [l EXCEPT !.nums = [@ EXCEPT ![n] = NextUID(l, r)],
              !.rec = IF Absent(l) THEN r ELSE @]

\* UIDs.Assign: every line of the name dropped, the new one added.
Assigned(l, r, n, u) ==
    [l EXCEPT !.nums = [@ EXCEPT ![n] = u],
              !.rec = IF Absent(l) THEN r ELSE @]

\* UIDs.MoveUser: the line of old becomes new's, unless new has one.
Moved(l, old, new) ==
    IF l.nums[old] = 0 \/ l.nums[new] # 0
    THEN l
    ELSE [l EXCEPT !.nums = [@ EXCEPT ![new] = l.nums[old], ![old] = 0]]

\* unrecorded: the range a file with no record was numbered for.
Unrecorded(l, to) ==
    CASE InRange(l, Legacy) # {} -> Legacy
      [] InRange(l, Legacy) = {} /\ to # Default /\ InRange(l, Default) # {} -> Default
      [] OTHER -> to

NumberedFor(l, to) == IF l.rec = NoRange THEN Unrecorded(l, to) ELSE l.rec

\* RenumberTo's refusals: RangeOverlap, RangeTooSmall, UIDCollision.
RangeOverlap(l, to) ==
    LET from == NumberedFor(l, to)
    IN  /\ to.min # from.min
        /\ \/ Overlaps(to, from)
           \/ \E i \in 1 .. Len(l.prev) : Overlaps(to, l.prev[i])

RangeTooSmall(l, to) ==
    LET from == NumberedFor(l, to)
    IN  \E n \in Names : Has(from, l.nums[n]) /\ ~Has(to, l.nums[n] + to.min - from.min)

UIDCollision(l, to) ==
    LET from == NumberedFor(l, to)
    IN  /\ to.min # from.min
        /\ \E n, m \in Names :
              /\ Has(from, l.nums[n])
              /\ ~Has(from, l.nums[m])
              /\ l.nums[m] = l.nums[n] + to.min - from.min

\* A bug: the numbers that stay are not looked at.
RefusedNoCollision(l, to) == ~Absent(l) /\ (RangeOverlap(l, to) \/ RangeTooSmall(l, to))

Refused(l, to) ==
    ~Absent(l) /\ (RangeOverlap(l, to) \/ RangeTooSmall(l, to) \/ UIDCollision(l, to))

\* RenumberTo: the entries of the range move by the offset of the starts, and
\* the range they leave joins the earlier ones.
Renumbered(l, to) ==
    LET from == NumberedFor(l, to)
    IN  IF Absent(l) THEN l
        ELSE [nums |-> [n \in Names |-> IF Has(from, l.nums[n])
                                        THEN l.nums[n] + to.min - from.min
                                        ELSE l.nums[n]],
              rec |-> to,
              prev |-> IF to.min # from.min THEN Append(l.prev, from) ELSE l.prev]

(***************************************************************************)
(* Init: one user, and either no ledger yet or the ledger of a release up  *)
(* to 0.2.0, which has that user's line in LegacyRange and no record.      *)
(***************************************************************************)
First == CHOOSE n \in Names : TRUE

Init ==
    /\ status = [n \in Names |-> IF n = First THEN "active" ELSE "none"]
    /\ who = [n \in Names |-> IF n = First THEN 1 ELSE 0]
    /\ conf = Default
    /\ ledger = [nums |-> IF StartLegacy THEN [NoNums EXCEPT ![First] = Legacy.min] ELSE NoNums,
                 rec |-> NoRange, prev |-> <<>>]
    /\ lock = NoCmd
    /\ cmd = [c \in Cmds |-> Idle]
    /\ ren = NoRen
    /\ rset = NoSet
    /\ line = [n \in Names |-> IF StartLegacy /\ n = First THEN 1 ELSE 0]
    /\ given = IF StartLegacy THEN {<<Legacy.min, 1>>} ELSE {}
    /\ used = [names |-> {First}, people |-> 1, changes |-> 0, renames |-> 0, assigns |-> 0, ranges |-> 0]

(***************************************************************************)
(* The store's writers.  Each holds the apply lock for its whole change, a *)
(* rename until its ledger half is done.                                   *)
(***************************************************************************)
\* docs/hosts/account-lifecycle.md 40-44 asks the operator not to give the old
\* name to a new user before every host has synced.
NameFree(n) == ReuseNames \/ n \notin used.names

\* 'user add'.
UserAdd(n) ==
    /\ ren = NoRen
    /\ status[n] = "none"
    /\ status' = [status EXCEPT ![n] = "active"]
    /\ IF ledger.nums[n] # 0 /\ who[n] # 0
       THEN UNCHANGED <<who, used>>
       ELSE /\ used.people < MaxPeople /\ NameFree(n)
            /\ who' = [who EXCEPT ![n] = used.people + 1]
            /\ used' = [used EXCEPT !.people = @ + 1, !.names = @ \cup {n}]
    /\ UNCHANGED <<conf, ledger, lock, cmd, ren, rset, line, given>>

\* A bug: the line goes with the user.
UserRemoveFrees(n) ==
    /\ ren = NoRen
    /\ status[n] # "none" /\ used.changes < MaxChanges
    /\ used' = [used EXCEPT !.changes = @ + 1]
    /\ status' = [status EXCEPT ![n] = "none"]
    /\ ledger' = [ledger EXCEPT !.nums = [@ EXCEPT ![n] = 0]]
    /\ UNCHANGED <<who, conf, lock, cmd, ren, rset, line, given>>

\* 'user remove': the ledger keeps the line.
UserRemove(n) ==
    /\ ren = NoRen
    /\ status[n] # "none" /\ used.changes < MaxChanges
    /\ used' = [used EXCEPT !.changes = @ + 1]
    /\ status' = [status EXCEPT ![n] = "none"]
    /\ UNCHANGED <<who, conf, ledger, lock, cmd, ren, rset, line, given>>

\* 'user disable' and 'user enable'.
UserToggle(n) ==
    /\ ren = NoRen
    /\ status[n] # "none" /\ used.changes < MaxChanges
    /\ used' = [used EXCEPT !.changes = @ + 1]
    /\ status' = [status EXCEPT ![n] = IF @ = "active" THEN "disabled" ELSE "active"]
    /\ UNCHANGED <<who, conf, ledger, lock, cmd, ren, rset, line, given>>

\* 'user rename', the store half: the apply lock stays held.
RenameStore(old, new) ==
    /\ ren = NoRen
    /\ used.renames < MaxRenames
    /\ status[old] # "none" /\ status[new] = "none" /\ NameFree(new)
    /\ status' = [status EXCEPT ![new] = status[old], ![old] = "none"]
    /\ who' = [who EXCEPT ![new] = who[old], ![old] = 0]
    /\ ren' = <<old, new>>
    /\ used' = [used EXCEPT !.renames = @ + 1, !.names = @ \cup {new}]
    /\ UNCHANGED <<conf, ledger, lock, cmd, rset, line, given>>

\* 'user rename', the ledger half, one window of the ledger's lock.
MoveUID ==
    /\ ren # NoRen
    /\ lock = NoCmd
    /\ ledger' = Moved(ledger, ren[1], ren[2])
    /\ line' = IF ledger' = ledger THEN line
               ELSE [line EXCEPT ![ren[2]] = line[ren[1]], ![ren[1]] = 0]
    /\ ren' = NoRen
    /\ UNCHANGED <<status, who, conf, lock, cmd, rset, given, used>>

(***************************************************************************)
(* 'config linux uid-range': checked under the lock, written to tacctl.yaml*)
(* as two settings outside it, then the file renumbered under it.          *)
(***************************************************************************)
RangeCheck(r) ==
    /\ rset = NoSet /\ lock = NoCmd
    /\ used.ranges < MaxRanges
    /\ RangeAlone => \A c \in Cmds : cmd[c].at \in {"idle", "built"}
    /\ ~RangeProblem(r) /\ ~Refused(ledger, r)
    /\ rset' = [step |-> "min", to |-> r]
    /\ used' = [used EXCEPT !.ranges = @ + 1]
    /\ UNCHANGED <<status, who, conf, ledger, lock, cmd, ren, line, given>>

RangeMin ==
    /\ rset.step = "min" /\ ren = NoRen
    /\ conf' = [conf EXCEPT !.min = rset.to.min]
    /\ rset' = [rset EXCEPT !.step = "max"]
    /\ UNCHANGED <<status, who, ledger, lock, cmd, ren, line, given, used>>

RangeMax ==
    /\ rset.step = "max" /\ ren = NoRen
    /\ conf' = [conf EXCEPT !.max = rset.to.max]
    /\ rset' = [rset EXCEPT !.step = "renumber"]
    /\ UNCHANGED <<status, who, ledger, lock, cmd, ren, line, given, used>>

\* The second window: a refusal now (the ledger changed since the check) ends
\* the command with tacctl.yaml already written.
RangeDone ==
    /\ rset.step = "renumber" /\ lock = NoCmd
    /\ ledger' = IF Refused(ledger, rset.to) THEN ledger ELSE Renumbered(ledger, rset.to)
    /\ rset' = NoSet
    /\ UNCHANGED <<status, who, conf, lock, cmd, ren, line, given, used>>

(***************************************************************************)
(* The commands that use the numbers.                                      *)
(***************************************************************************)
At(c, place) == cmd[c].at = place

\* tacctl.yaml is read once, when the command starts; a range that cannot be
\* used ends it.
Begin(c, kind) ==
    /\ At(c, "idle")
    /\ RangeAlone => rset = NoSet
    /\ kind = "assign" => used.assigns < MaxAssigns
    /\ ~RangeProblem(conf)
    /\ cmd' = [cmd EXCEPT ![c] = [Idle EXCEPT !.kind = kind, !.at = "renumber", !.rng = conf]]
    /\ UNCHANGED <<status, who, conf, ledger, lock, ren, rset, line, given, used>>

\* renumberUIDs: a refusal ends a sync and only warns 'config linux uid'.
Renumber(c) ==
    /\ At(c, "renumber") /\ lock = NoCmd
    /\ LET no == Refused(ledger, cmd[c].rng)
       IN  /\ ledger' = IF no THEN ledger ELSE Renumbered(ledger, cmd[c].rng)
           /\ cmd' = [cmd EXCEPT ![c] =
                        IF cmd[c].kind = "assign" THEN [@ EXCEPT !.at = "assign"]
                        ELSE IF no THEN Idle
                        ELSE [@ EXCEPT !.at = "rows"]]
    /\ UNCHANGED <<status, who, conf, lock, ren, rset, line, given, used>>

\* 'config linux uid <n> <u>': assignUID, one window of the lock.
Assign(c, n, u) ==
    /\ At(c, "assign") /\ lock = NoCmd
    /\ used.assigns < MaxAssigns
    /\ status[n] # "none" /\ Has(cmd[c].rng, u)
    /\ Holders(ledger, u) \subseteq {n}
    /\ ledger' = Assigned(ledger, cmd[c].rng, n, u)
    /\ used' = [used EXCEPT !.assigns = @ + 1]
    /\ cmd' = [cmd EXCEPT ![c] = Idle]
    /\ line' = [line EXCEPT ![n] = who[n]]
    /\ given' = given \cup {<<u, who[n]>>}
    /\ UNCHANGED <<status, who, conf, lock, ren, rset>>

\* scriptRequest: the rows of the store, read without any lock (and then kept
\* while the operator answers the questions about the homes).  The host commands
\* read them after the renumbering, as here; 'linux script' reads them just
\* before it, and the renumbering looks at no row and writes none.
ReadRows(c) ==
    /\ At(c, "rows")
    /\ cmd' = [cmd EXCEPT ![c] = [@ EXCEPT !.at = "lock",
                  !.rows = [active |-> {n \in Names : status[n] = "active"},
                            inactive |-> {n \in Names : status[n] = "disabled"},
                            who |-> who]]]
    /\ UNCHANGED <<status, who, conf, ledger, lock, ren, rset, line, given, used>>

\* scriptUsers takes the lock for its whole window.
BuildBegin(c) ==
    /\ At(c, "lock") /\ lock = NoCmd
    /\ lock' = c
    /\ cmd' = [cmd EXCEPT ![c] = [@ EXCEPT !.at = "for", !.todo = cmd[c].rows.active]]
    /\ UNCHANGED <<status, who, conf, ledger, ren, rset, line, given, used>>

\* ScopeUsers' loop, one row: UIDs.For.
For(c, n) ==
    /\ At(c, "for") /\ n \in cmd[c].todo
    /\ ledger.nums[n] # 0 \/ NextUID(ledger, cmd[c].rng) <= cmd[c].rng.max
    /\ IF ledger.nums[n] # 0
       THEN UNCHANGED <<ledger, line, given>>
       ELSE /\ ledger' = WithLine(ledger, cmd[c].rng, n)
            /\ line' = [line EXCEPT ![n] = cmd[c].rows.who[n]]
            /\ given' = given \cup {<<NextUID(ledger, cmd[c].rng), cmd[c].rows.who[n]>>}
    /\ cmd' = [cmd EXCEPT ![c] = [@ EXCEPT !.todo = cmd[c].todo \ {n}]]
    /\ UNCHANGED <<status, who, conf, lock, ren, rset, used>>

\* ErrUIDRangeFull ends the command; the numbers given before it stay.
RangeFull(c, n) ==
    /\ At(c, "for") /\ n \in cmd[c].todo
    /\ ledger.nums[n] = 0 /\ NextUID(ledger, cmd[c].rng) > cmd[c].rng.max
    /\ lock' = NoCmd
    /\ cmd' = [cmd EXCEPT ![c] = Idle]
    /\ UNCHANGED <<status, who, conf, ledger, ren, rset, line, given, used>>

\* The script: the users with a number of the range; the others of the scope
\* (kept or disabled) are expired on the hosts, with their number when it is
\* one of the range.
ScriptOf(c) ==
    LET l == ledger
        r == cmd[c].rng
        rows == cmd[c].rows
        listed == {n \in rows.active : Has(r, l.nums[n])}
        expired == rows.inactive \cup (rows.active \ listed)
    IN  [rng |-> r, prev |-> l.prev, users |-> listed, inactive |-> expired,
         nums |-> [n \in Names |-> IF n \in listed \cup expired /\ Has(r, l.nums[n])
                                   THEN l.nums[n] ELSE 0],
         who |-> rows.who, line |-> line]

BuildEnd(c) ==
    /\ At(c, "for") /\ cmd[c].todo = {}
    /\ lock' = NoCmd
    /\ cmd' = [cmd EXCEPT ![c] = [@ EXCEPT !.at = "built", !.script = ScriptOf(c)]]
    /\ UNCHANGED <<status, who, conf, ledger, ren, rset, line, given, used>>

\* The script is on its way; a command that ends, or is killed at any place,
\* leaves the ledger as it wrote it and its lock goes with it.
Done(c) ==
    /\ ~At(c, "idle")
    /\ lock' = IF lock = c THEN NoCmd ELSE lock
    /\ cmd' = [cmd EXCEPT ![c] = Idle]
    /\ UNCHANGED <<status, who, conf, ledger, ren, rset, line, given, used>>

StoreWrites ==
    \/ \E n \in Names : UserAdd(n) \/ UserRemove(n) \/ UserToggle(n)
    \/ \E old, new \in Names : RenameStore(old, new)
    \/ MoveUID

RangeChange ==
    \/ \E r \in Ranges : RangeCheck(r)
    \/ RangeMin
    \/ RangeMax
    \/ RangeDone

Commands(c) ==
    \/ \E kind \in {"sync", "assign"} : Begin(c, kind)
    \/ Renumber(c)
    \/ \E n \in Names, r \in Ranges : \E u \in r.min .. r.max : Assign(c, n, u)
    \/ ReadRows(c)
    \/ BuildBegin(c)
    \/ \E n \in Names : For(c, n) \/ RangeFull(c, n)
    \/ BuildEnd(c)

Next ==
    \/ StoreWrites
    \/ RangeChange
    \/ \E c \in Cmds : Commands(c) \/ Done(c)

Spec == Init /\ [][Next]_vars

(***************************************************************************)
(* Properties.                                                             *)
(***************************************************************************)
\* The ledger is a ledger: numbers are numbers, the lock is held by a command
\* that is in its window, and a range change is at one of its steps.
TypeOK ==
    /\ status \in [Names -> {"none", "active", "disabled"}]
    /\ who \in [Names -> 0 .. MaxPeople + 1]
    /\ conf \in [min : Nat, max : Nat]
    /\ ledger.nums \in [Names -> Nat]
    /\ ledger.rec \in [min : Nat, max : Nat]
    /\ ledger.prev \in Seq([min : Nat, max : Nat])
    /\ lock \in Cmds \cup {NoCmd}
    /\ \A c \in Cmds : /\ cmd[c].rng \in [min : Nat, max : Nat]
                       /\ cmd[c].todo \subseteq Names
                       /\ At(c, "for") <=> lock = c
    /\ rset.step \in {"none", "min", "max", "renumber"}
    /\ rset.to \in [min : Nat, max : Nat]

\* uids.go 262-269: two users never have one number, whatever the commands that
\* allocate, renumber, rename and assign at the same time, each with the range
\* it read when it started.
NumbersUnique ==
    /\ TypeOK
    /\ \A n, m \in Names : n # m /\ ledger.nums[n] # 0 => ledger.nums[n] # ledger.nums[m]

\* uids.go 14-18 and docs/hosts/ids-and-groups.md 6: a number given to one person
\* is never given to another, not even when the first is removed or renamed while
\* scripts are built, as long as nobody sets a number by hand or moves the range.
NeverReused ==
    used.assigns + used.ranges = 0 =>
        \A g, h \in given : g[1] = h[1] => g[2] = h[2]
=============================================================================
