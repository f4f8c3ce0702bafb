-------------------------- MODULE UIDLedger_proofs --------------------------
(***************************************************************************)
(* Two users never have one number: proved for every set of names and of   *)
(* commands, every range and every bound.  The ledger's four writers keep  *)
(* its numbers apart by themselves, each given a range that starts above   *)
(* 0 (0 stands for "no line"); what the commands bring into the lock may   *)
(* be as old as it likes.                                                  *)
(***************************************************************************)
EXTENDS UIDLedger, WellFoundedInduction, TLAPS

Rng == [min : Nat, max : Nat]
Ledgers == [nums : [Names -> Nat], rec : Rng, prev : Seq(Rng)]
Rows == [active : SUBSET Names, inactive : SUBSET Names, who : [Names -> Nat]]
Scripts == [rng : Rng, prev : Seq(Rng), nums : [Names -> Nat], users : SUBSET Names,
            inactive : SUBSET Names, who : [Names -> Nat], line : [Names -> Nat]]
Places == {"idle", "renumber", "assign", "rows", "lock", "for", "built"}
Commanding == [kind : {"none", "sync", "assign"}, at : Places, rng : Rng, rows : Rows,
               todo : SUBSET Names, script : Scripts]
Spending == [names : SUBSET Names, people : 0 .. MaxPeople + 1, changes : Nat,
             renames : Nat, assigns : Nat, ranges : Nat]

\* A range that starts above 0.
Usable(r) == r \in Rng /\ r.min >= 1

\* The ledger's numbers are told apart.
Apart(l) == \A n, m \in Names : n # m /\ l.nums[n] # 0 => l.nums[n] # l.nums[m]

\* The recorded range can be renumbered from.
Recorded(l) == l.rec = NoRange \/ Usable(l.rec)

-----------------------------------------------------------------------------
(***************************************************************************)
(* The operators.                                                          *)
(***************************************************************************)
\* A set of numbers of a range has a highest one, and Max is it (UIDs.next).
LEMMA MaxIsHighest ==
    ASSUME NEW a \in Nat, NEW b \in Nat, NEW S, S \subseteq a .. b, S # {}
    PROVE  Max(S) \in S /\ \A y \in S : Max(S) >= y
<1> DEFINE R == OpToRel(<, Nat)
           T == {b - x : x \in S}
<1>1. T \subseteq Nat /\ T # {} OBVIOUS
<1>2. \E t \in T : \A u \in T : ~ (<<u, t>> \in R)
  <2> HIDE DEF T, R
  <2> QED BY <1>1, NatLessThanWellFounded, WFMin DEF R
<1>3. PICK t \in T : \A u \in T : ~ (<<u, t>> \in R) BY <1>2
<1>4. \A u \in T : ~ (u < t) BY <1>1, <1>3 DEF OpToRel
<1>5. PICK x \in S : t = b - x OBVIOUS
<1>6. \A y \in S : x >= y
  <2> TAKE y \in S
  <2>1. b - y \in T OBVIOUS
  <2>2. ~ (b - y < b - x) BY <1>4, <1>5, <2>1
  <2>3. x \in Int /\ y \in Int OBVIOUS
  <2> HIDE DEF T, R
  <2> QED BY <2>2, <2>3
<1> QED BY <1>6 DEF Max

\* UIDs.next is above every number of the range.
LEMMA NextIsNew ==
    ASSUME NEW l \in Ledgers, NEW r, Usable(r)
    PROVE  /\ NextUID(l, r) \in Nat /\ NextUID(l, r) >= r.min
           /\ \A n \in Names : Has(r, l.nums[n]) => l.nums[n] < NextUID(l, r)
<1> DEFINE S == InRange(l, r)
<1>1. S \subseteq r.min .. r.max BY DEF InRange, Has, Ledgers, Usable, Rng
<1>2. \A n \in Names : Has(r, l.nums[n]) => l.nums[n] \in S BY DEF InRange
<1>3. r.min \in Nat /\ r.max \in Nat BY DEF Usable, Rng
<1>4. CASE S = {} BY <1>2, <1>3, <1>4 DEF NextUID
<1>5. CASE S # {}
  <2> HIDE DEF S
  <2>1. Max(S) \in S /\ \A y \in S : Max(S) >= y BY <1>1, <1>3, <1>5, MaxIsHighest
  <2>2. NextUID(l, r) = Max(S) + 1 BY <1>5 DEF NextUID, S
  <2>3. \A n \in Names : l.nums[n] \in Nat BY DEF Ledgers
  <2> DEFINE M == Max(S)
  <2>4. M \in r.min .. r.max BY <1>1, <2>1
  <2> HIDE DEF M
  <2>5. M \in Nat /\ M >= r.min /\ NextUID(l, r) = M + 1 BY <1>3, <2>2, <2>4 DEF M
  <2>6. \A n \in Names : Has(r, l.nums[n]) => l.nums[n] <= M
    BY <1>2, <2>1, <2>3, <2>5 DEF M
  <2> QED BY <1>3, <2>3, <2>5, <2>6
<1> QED BY <1>4, <1>5

\* UIDs.For: a new line has a number of its own.
LEMMA WithLineApart ==
    ASSUME NEW l \in Ledgers, NEW r, Usable(r), NEW n \in Names, Apart(l), Recorded(l),
           l.nums[n] = 0, NextUID(l, r) <= r.max
    PROVE  WithLine(l, r, n) \in Ledgers /\ Apart(WithLine(l, r, n)) /\ Recorded(WithLine(l, r, n))
<1> DEFINE u == NextUID(l, r)
           k == WithLine(l, r, n)
<1>1. /\ u \in Nat /\ u >= r.min
      /\ \A m \in Names : Has(r, l.nums[m]) => l.nums[m] < u
  BY NextIsNew
<1>2. r \in Rng /\ r.min \in Nat /\ r.max \in Nat /\ r.min >= 1 BY DEF Usable, Rng
<1>3. l.nums \in [Names -> Nat] /\ l.rec \in Rng BY DEF Ledgers
<1>4. /\ k \in Ledgers /\ k.nums = [l.nums EXCEPT ![n] = u]
      /\ k.rec = r \/ k.rec = l.rec
  <2> DEFINE rec == IF Absent(l) THEN r ELSE l.rec
  <2>1. rec \in Rng /\ (rec = r \/ rec = l.rec) BY <1>2, <1>3
  <2>2. k = [l EXCEPT !.nums = [l.nums EXCEPT ![n] = u], !.rec = rec] BY DEF WithLine
  <2>3. [l.nums EXCEPT ![n] = u] \in [Names -> Nat] BY <1>1, <1>3
  <2> HIDE DEF u, k, rec
  <2> QED BY <2>1, <2>2, <2>3 DEF Ledgers
<1>5. \A m \in Names : l.nums[m] # u BY <1>1, <1>2, <1>3 DEF Has
<1>6. u # 0 BY <1>1, <1>2
<1> HIDE DEF u, k
<1>7. Apart(k) BY <1>3, <1>4, <1>5, <1>6 DEF Apart
<1> QED BY <1>4, <1>7 DEF Recorded, k

\* UIDs.Assign: nobody else has the number.
LEMMA AssignedApart ==
    ASSUME NEW l \in Ledgers, NEW r, Usable(r), NEW n \in Names, NEW u, Has(r, u), u \in Nat,
           Apart(l), Recorded(l), Holders(l, u) \subseteq {n}
    PROVE  Assigned(l, r, n, u) \in Ledgers /\ Apart(Assigned(l, r, n, u)) /\ Recorded(Assigned(l, r, n, u))
<1> DEFINE k == Assigned(l, r, n, u)
<1>1. r \in Rng /\ r.min \in Nat /\ r.min >= 1 BY DEF Usable, Rng
<1>2. l.nums \in [Names -> Nat] /\ l.rec \in Rng BY DEF Ledgers
<1>3. /\ k \in Ledgers /\ k.nums = [l.nums EXCEPT ![n] = u]
      /\ k.rec = r \/ k.rec = l.rec
  BY <1>1, <1>2 DEF Ledgers, Assigned
<1>4. \A m \in Names : m # n => l.nums[m] # u BY DEF Holders
<1>5. u # 0 BY <1>1 DEF Has
<1> HIDE DEF k
<1>6. Apart(k) BY <1>2, <1>3, <1>4, <1>5 DEF Apart
<1> QED BY <1>3, <1>6 DEF Recorded, k

\* UIDs.MoveUser: one line changes its name.
LEMMA MovedApart ==
    ASSUME NEW l \in Ledgers, NEW old \in Names, NEW new \in Names, Apart(l), Recorded(l)
    PROVE  Moved(l, old, new) \in Ledgers /\ Apart(Moved(l, old, new)) /\ Recorded(Moved(l, old, new))
<1>1. CASE l.nums[old] = 0 \/ l.nums[new] # 0 BY <1>1 DEF Moved
<1>2. CASE ~(l.nums[old] = 0 \/ l.nums[new] # 0)
  <2> DEFINE k == [l EXCEPT !.nums = [@ EXCEPT ![new] = l.nums[old], ![old] = 0]]
  <2>1. l.nums \in [Names -> Nat] /\ old # new BY <1>2 DEF Ledgers
  <2>2. k \in Ledgers /\ k.rec = l.rec BY <2>1 DEF Ledgers
  <2>3. \A m \in Names : k.nums[m] = IF m = old THEN 0 ELSE IF m = new THEN l.nums[old] ELSE l.nums[m]
    BY <2>1 DEF Ledgers
  <2>4. Moved(l, old, new) = k BY <1>2 DEF Moved
  <2> HIDE DEF k
  <2>5. Apart(k) BY <2>1, <2>3 DEF Apart
  <2> QED BY <2>2, <2>4, <2>5 DEF Recorded
<1> QED BY <1>1, <1>2

\* RenumberTo: the numbers of the range move by one offset and stay apart, and none
\* of them lands on a number that stays (UIDCollision).
LEMMA RenumberedApart ==
    ASSUME NEW l \in Ledgers, NEW to, Usable(to), Apart(l), Recorded(l), ~Refused(l, to)
    PROVE  Renumbered(l, to) \in Ledgers /\ Apart(Renumbered(l, to)) /\ Recorded(Renumbered(l, to))
<1>1. CASE Absent(l) BY <1>1 DEF Renumbered
<1>2. CASE ~Absent(l)
  <2> DEFINE from == NumberedFor(l, to)
             k == Renumbered(l, to)
             d == to.min - from.min
  <2>1. Usable(from)
    BY RangeAssumption DEF NumberedFor, Unrecorded, Recorded, Usable, IsRange, Rng
  <2> HIDE DEF from
  <2>2. /\ from.min \in Nat /\ from.max \in Nat /\ from.min >= 1
        /\ to.min \in Nat /\ to.max \in Nat /\ to.min >= 1 /\ from \in Rng /\ to \in Rng
    BY <2>1 DEF Usable, Rng
  <2>3. l.nums \in [Names -> Nat] /\ l.prev \in Seq(Rng) BY DEF Ledgers
  <2>4. \A n \in Names : Has(from, l.nums[n]) => Has(to, l.nums[n] + d)
    BY <1>2, <2>2, <2>3 DEF Refused, RangeTooSmall, from, Has
  <2>5. \A n, m \in Names : Has(from, l.nums[n]) /\ ~Has(from, l.nums[m]) => l.nums[m] # l.nums[n] + d
    <3> SUFFICES ASSUME NEW n \in Names, NEW m \in Names, Has(from, l.nums[n]),
                        ~Has(from, l.nums[m]), l.nums[m] = l.nums[n] + d
                 PROVE  FALSE
      OBVIOUS
    <3>1. CASE to.min = from.min BY <2>2, <2>3, <3>1
    <3>2. CASE to.min # from.min BY <1>2, <2>2, <2>3, <3>2 DEF Refused, UIDCollision, from
    <3> QED BY <3>1, <3>2
  <2>6. k = [nums |-> [n \in Names |-> IF Has(from, l.nums[n]) THEN l.nums[n] + to.min - from.min
                                       ELSE l.nums[n]],
             rec |-> to, prev |-> IF to.min # from.min THEN Append(l.prev, from) ELSE l.prev]
    BY <1>2 DEF Renumbered, from
  <2>7. \A n \in Names : k.nums[n] = IF Has(from, l.nums[n]) THEN l.nums[n] + d ELSE l.nums[n]
    BY <2>2, <2>3, <2>6
  <2>8. \A n \in Names : Has(from, l.nums[n]) => l.nums[n] + d \in Nat /\ l.nums[n] + d # 0
    BY <2>2, <2>3 DEF Has
  <2>9. k \in Ledgers /\ k.rec = to
    <3>1. (IF to.min # from.min THEN Append(l.prev, from) ELSE l.prev) \in Seq(Rng) BY <2>2, <2>3
    <3>2. [n \in Names |-> IF Has(from, l.nums[n]) THEN l.nums[n] + to.min - from.min
                           ELSE l.nums[n]] \in [Names -> Nat]
      BY <2>2, <2>3 DEF Has
    <3> QED BY <2>2, <2>6, <3>1, <3>2 DEF Ledgers
  <2> HIDE DEF k
  <2>10. Apart(k)
    <3> SUFFICES ASSUME NEW n \in Names, NEW m \in Names, n # m, k.nums[n] # 0, k.nums[n] = k.nums[m]
                 PROVE  FALSE
      BY DEF Apart
    <3>1. l.nums[n] \in Nat /\ l.nums[m] \in Nat BY <2>3
    <3>2. CASE Has(from, l.nums[n]) /\ Has(from, l.nums[m])
      BY <2>2, <2>7, <3>1, <3>2 DEF Apart, Has
    <3>3. CASE Has(from, l.nums[n]) /\ ~Has(from, l.nums[m]) BY <2>5, <2>7, <3>3
    <3>4. CASE ~Has(from, l.nums[n]) /\ Has(from, l.nums[m]) BY <2>5, <2>7, <3>4
    <3>5. CASE ~Has(from, l.nums[n]) /\ ~Has(from, l.nums[m]) BY <2>7, <3>5 DEF Apart
    <3> QED BY <3>2, <3>3, <3>4, <3>5
  <2> QED BY <2>9, <2>10 DEF Recorded, k
<1> QED BY <1>1, <1>2

-----------------------------------------------------------------------------
(***************************************************************************)
(* The inductive invariant.  Beyond the types: every range a command, the  *)
(* settings or a range change can bring to the ledger starts above 0, and  *)
(* the ledger's lock is held exactly by who is in its window.              *)
(***************************************************************************)
StoreInv ==
    /\ status \in [Names -> {"none", "active", "disabled"}]
    /\ who \in [Names -> 0 .. MaxPeople + 1]
    /\ used \in Spending
    /\ ren \in {NoRen} \cup (Names \X Names)

RangeInv ==
    /\ Usable(conf)
    /\ rset \in [step : {"none", "min", "max", "renumber"}, to : Rng]
    /\ rset.step # "none" => Usable(rset.to)

LedgerInv ==
    /\ ledger \in Ledgers /\ Apart(ledger) /\ Recorded(ledger)
    /\ line \in [Names -> Nat]

CmdInv ==
    /\ lock \in Cmds \cup {NoCmd}
    /\ cmd \in [Cmds -> Commanding]
    /\ \A c \in Cmds : cmd[c].at = "for" <=> lock = c
    /\ \A c \in Cmds : cmd[c].at # "idle" => Usable(cmd[c].rng)

IInv == StoreInv /\ RangeInv /\ LedgerInv /\ CmdInv

\* An idle command, with nothing read.
LEMMA IdleType == Idle \in Commanding /\ Idle.at = "idle"
<1>1. NoRange \in Rng BY DEF NoRange, Rng
<1>2. NoNums \in [Names -> Nat] BY DEF NoNums
<1>3. NoRows \in Rows BY <1>2 DEF NoRows, Rows
<1>4. <<>> \in Seq(Rng) OBVIOUS
<1>5. NoScript \in Scripts BY <1>1, <1>2, <1>4 DEF NoScript, Scripts
<1> QED BY <1>1, <1>3, <1>5 DEF Idle, Commanding, Places

\* One command goes on, and nobody takes or gives up the lock.
LEMMA CmdGoesOn ==
    ASSUME CmdInv, NEW c \in Cmds, NEW k \in Commanding, cmd' = [cmd EXCEPT ![c] = k],
           k.at # "idle" => Usable(k.rng),
           k.at = "for" <=> cmd[c].at = "for", UNCHANGED lock
    PROVE  CmdInv'
BY CmdAssumption DEF CmdInv

\* One command ends, is killed or leaves its window, and the lock is free if it was its.
LEMMA CmdLeaves ==
    ASSUME CmdInv, NEW c \in Cmds, NEW k \in Commanding, cmd' = [cmd EXCEPT ![c] = k],
           k.at # "idle" => Usable(k.rng), k.at # "for",
           lock' = IF lock = c THEN NoCmd ELSE lock
    PROVE  CmdInv'
BY CmdAssumption DEF CmdInv

LEMMA InitIInv == Init => IInv
<1> SUFFICES ASSUME Init PROVE IInv OBVIOUS
<1> USE DEF Init
<1>1. StoreInv
  <2>1. First \in Names BY RangeAssumption DEF First
  <2>2. who \in [Names -> 0 .. MaxPeople + 1] BY RangeAssumption
  <2>3. used \in Spending BY <2>1, RangeAssumption DEF Spending
  <2> QED BY <2>2, <2>3 DEF StoreInv
<1>2. RangeInv
  BY RangeAssumption DEF RangeInv, Usable, Rng, IsRange, NoSet, NoRange
<1>3. LedgerInv
  <2>1. Legacy.min \in Nat BY RangeAssumption
  <2>2. ledger.nums \in [Names -> Nat] /\ line \in [Names -> Nat] BY <2>1 DEF NoNums
  <2>3. NoRange \in Rng /\ <<>> \in Seq(Rng) BY DEF NoRange, Rng
  <2>4. ledger \in Ledgers /\ Recorded(ledger) BY <2>2, <2>3 DEF Ledgers, Recorded
  <2>5. \A n \in Names : n # First => ledger.nums[n] = 0 BY DEF NoNums
  <2>6. Apart(ledger) BY <2>5 DEF Apart
  <2> QED BY <2>2, <2>4, <2>6 DEF LedgerInv
<1>4. CmdInv BY IdleType, CmdAssumption DEF CmdInv
<1> QED BY <1>1, <1>2, <1>3, <1>4 DEF IInv

\* The store's writers; a rename's second half moves the line.
LEMMA StoreWritesKeep == ASSUME IInv, StoreWrites PROVE IInv'
<1> USE DEF IInv
<1>1. ASSUME NEW n \in Names, UserAdd(n) PROVE IInv'
  <2>1. status' \in [Names -> {"none", "active", "disabled"}] /\ ren' \in {NoRen} \cup (Names \X Names)
    BY <1>1 DEF UserAdd, StoreInv
  <2>2. ASSUME UNCHANGED <<who, used>> PROVE StoreInv' BY <2>1, <2>2 DEF StoreInv
  <2>3. ASSUME used.people < MaxPeople,
               who' = [who EXCEPT ![n] = used.people + 1],
               used' = [used EXCEPT !.people = @ + 1, !.names = @ \cup {n}]
        PROVE  StoreInv'
    <3>1. used.people + 1 \in 0 .. MaxPeople + 1 BY <2>3, RangeAssumption DEF StoreInv, Spending
    <3>2. who' \in [Names -> 0 .. MaxPeople + 1] BY <2>3, <3>1 DEF StoreInv
    <3>3. used.names \cup {n} \in SUBSET Names BY DEF StoreInv, Spending
    <3>4. used' \in Spending BY <2>3, <3>1, <3>3 DEF StoreInv, Spending
    <3> QED BY <2>1, <3>2, <3>4 DEF StoreInv
  <2>4. StoreInv' BY <1>1, <2>2, <2>3 DEF UserAdd
  <2>5. (RangeInv /\ LedgerInv /\ CmdInv)'
    BY <1>1 DEF UserAdd, RangeInv, LedgerInv, CmdInv
  <2> QED BY <2>4, <2>5
<1>2. ASSUME NEW n \in Names, UserRemove(n) PROVE IInv'
  <2>1. StoreInv' BY <1>2 DEF UserRemove, StoreInv, Spending
  <2>2. (RangeInv /\ LedgerInv /\ CmdInv)'
    BY <1>2 DEF UserRemove, RangeInv, LedgerInv, CmdInv
  <2> QED BY <2>1, <2>2
<1>3. ASSUME NEW n \in Names, UserToggle(n) PROVE IInv'
  <2>1. StoreInv' BY <1>3 DEF UserToggle, StoreInv, Spending
  <2>2. (RangeInv /\ LedgerInv /\ CmdInv)'
    BY <1>3 DEF UserToggle, RangeInv, LedgerInv, CmdInv
  <2> QED BY <2>1, <2>2
<1>4. ASSUME NEW old \in Names, NEW new \in Names, RenameStore(old, new) PROVE IInv'
  <2>1. StoreInv'
    <3>1. status' \in [Names -> {"none", "active", "disabled"}] BY <1>4 DEF RenameStore, StoreInv
    <3>2. 0 \in 0 .. MaxPeople + 1 BY RangeAssumption
    <3>3. who' \in [Names -> 0 .. MaxPeople + 1] BY <1>4, <3>2 DEF RenameStore, StoreInv
    <3>4. used.names \cup {new} \in SUBSET Names /\ used.renames + 1 \in Nat BY DEF StoreInv, Spending
    <3>5. used' \in Spending BY <1>4, <3>4 DEF RenameStore, StoreInv, Spending
    <3>6. ren' \in Names \X Names BY <1>4 DEF RenameStore
    <3> QED BY <3>1, <3>3, <3>5, <3>6 DEF StoreInv
  <2>2. (RangeInv /\ LedgerInv /\ CmdInv)'
    BY <1>4 DEF RenameStore, RangeInv, LedgerInv, CmdInv
  <2> QED BY <2>1, <2>2
<1>5. ASSUME MoveUID PROVE IInv'
  <2>1. StoreInv' BY <1>5 DEF MoveUID, StoreInv
  <2>2. (RangeInv /\ CmdInv)' BY <1>5 DEF MoveUID, RangeInv, CmdInv
  <2>3. ren \in Names \X Names BY <1>5 DEF MoveUID, StoreInv
  <2>4. ren[1] \in Names /\ ren[2] \in Names BY <2>3
  <2>5. ledger' \in Ledgers /\ Apart(ledger') /\ Recorded(ledger')
    BY <1>5, <2>4, MovedApart DEF MoveUID, LedgerInv
  <2>6. line' \in [Names -> Nat] BY <1>5, <2>4 DEF MoveUID, LedgerInv
  <2>7. LedgerInv' BY <2>5, <2>6 DEF LedgerInv, Apart, Recorded
  <2> QED BY <2>1, <2>2, <2>7
<1> QED BY <1>1, <1>2, <1>3, <1>4, <1>5 DEF StoreWrites

\* A range change: what it writes to tacctl.yaml and to the ledger starts above 0.
LEMMA RangeChangeKeeps == ASSUME IInv, RangeChange PROVE IInv'
<1> USE DEF IInv
<1>1. ASSUME NEW r \in Ranges, RangeCheck(r) PROVE IInv'
  <2>1. Usable(r) BY RangeAssumption DEF Usable, Rng, IsRange
  <2>2. RangeInv' BY <1>1, <2>1 DEF RangeCheck, RangeInv, Usable
  <2>3. StoreInv' BY <1>1 DEF RangeCheck, StoreInv, Spending
  <2>4. (LedgerInv /\ CmdInv)' BY <1>1 DEF RangeCheck, LedgerInv, CmdInv
  <2> QED BY <2>2, <2>3, <2>4
<1>2. ASSUME RangeMin PROVE IInv'
  <2>1. RangeInv' BY <1>2 DEF RangeMin, RangeInv, Usable, Rng
  <2>2. (StoreInv /\ LedgerInv /\ CmdInv)' BY <1>2 DEF RangeMin, StoreInv, LedgerInv, CmdInv
  <2> QED BY <2>1, <2>2
<1>3. ASSUME RangeMax PROVE IInv'
  <2>1. RangeInv' BY <1>3 DEF RangeMax, RangeInv, Usable, Rng
  <2>2. (StoreInv /\ LedgerInv /\ CmdInv)' BY <1>3 DEF RangeMax, StoreInv, LedgerInv, CmdInv
  <2> QED BY <2>1, <2>2
<1>4. ASSUME RangeDone PROVE IInv'
  <2>1. Usable(rset.to) BY <1>4 DEF RangeDone, RangeInv
  <2>2. ledger' \in Ledgers /\ Apart(ledger') /\ Recorded(ledger')
    <3>1. CASE Refused(ledger, rset.to) BY <1>4, <3>1 DEF RangeDone, LedgerInv
    <3>2. CASE ~Refused(ledger, rset.to)
      BY <1>4, <2>1, <3>2, RenumberedApart DEF RangeDone, LedgerInv
    <3> QED BY <3>1, <3>2
  <2>3. LedgerInv' BY <1>4, <2>2 DEF RangeDone, LedgerInv, Apart, Recorded
  <2>4. RangeInv' BY <1>4 DEF RangeDone, RangeInv, NoSet, NoRange, Rng
  <2>5. (StoreInv /\ CmdInv)' BY <1>4 DEF RangeDone, StoreInv, CmdInv
  <2> QED BY <2>3, <2>4, <2>5
<1> QED BY <1>1, <1>2, <1>3, <1>4 DEF RangeChange

\* The steps of a command before and after its window: the ledger is renumbered for
\* the range it read, or left alone.
LEMMA OutsideKeeps ==
    ASSUME IInv, NEW c \in Cmds,
           (\E kind \in {"sync", "assign"} : Begin(c, kind)) \/ Renumber(c) \/ ReadRows(c) \/ Done(c)
    PROVE  IInv'
<1> USE DEF IInv
<1>0. cmd[c] \in Commanding BY DEF CmdInv
<1>1. ASSUME NEW kind \in {"sync", "assign"}, Begin(c, kind) PROVE IInv'
  <2> DEFINE k == [Idle EXCEPT !.kind = kind, !.at = "renumber", !.rng = conf]
  <2>1. k \in Commanding /\ k.at = "renumber" /\ k.rng = conf
    BY IdleType DEF RangeInv, Usable, Commanding, Places
  <2>2. cmd' = [cmd EXCEPT ![c] = k] /\ UNCHANGED lock /\ cmd[c].at = "idle" BY <1>1 DEF Begin, At
  <2> HIDE DEF k
  <2>3. CmdInv' BY <2>1, <2>2, CmdGoesOn DEF RangeInv
  <2>4. (StoreInv /\ RangeInv /\ LedgerInv)' BY <1>1 DEF Begin, StoreInv, RangeInv, LedgerInv
  <2> QED BY <2>3, <2>4
<1>2. ASSUME Renumber(c) PROVE IInv'
  <2> DEFINE no == Refused(ledger, cmd[c].rng)
             k == IF cmd[c].kind = "assign" THEN [cmd[c] EXCEPT !.at = "assign"]
                  ELSE IF no THEN Idle ELSE [cmd[c] EXCEPT !.at = "rows"]
  <2>1. cmd[c].at = "renumber" /\ Usable(cmd[c].rng) BY <1>2 DEF Renumber, At, CmdInv
  <2>2. ledger' = IF no THEN ledger ELSE Renumbered(ledger, cmd[c].rng) BY <1>2 DEF Renumber
  <2>3. cmd' = [cmd EXCEPT ![c] = k] /\ UNCHANGED lock BY <1>2 DEF Renumber
  <2>4. ledger' \in Ledgers /\ Apart(ledger') /\ Recorded(ledger')
    <3>1. CASE no BY <2>2, <3>1 DEF LedgerInv
    <3>2. CASE ~no BY <2>1, <2>2, <3>2, RenumberedApart DEF LedgerInv
    <3> QED BY <3>1, <3>2
  <2>5. LedgerInv' BY <1>2, <2>4 DEF Renumber, LedgerInv, Apart, Recorded
  <2> HIDE DEF no
  <2>6. k \in Commanding /\ k.at # "for" /\ (k.at # "idle" => k.rng = cmd[c].rng)
    BY <1>0, IdleType DEF Commanding, Places
  <2> HIDE DEF k
  <2>7. CmdInv' BY <2>1, <2>3, <2>6, CmdGoesOn
  <2>8. (StoreInv /\ RangeInv)' BY <1>2 DEF Renumber, StoreInv, RangeInv
  <2> QED BY <2>5, <2>7, <2>8
<1>3. ASSUME ReadRows(c) PROVE IInv'
  <2> DEFINE rows == [active |-> {n \in Names : status[n] = "active"},
                      inactive |-> {n \in Names : status[n] = "disabled"}, who |-> who]
             k == [cmd[c] EXCEPT !.at = "lock", !.rows = rows]
  <2>1. who \in [Names -> Nat] BY RangeAssumption DEF StoreInv
  <2>2. rows \in Rows BY <2>1 DEF Rows
  <2>3. cmd[c].at = "rows" /\ Usable(cmd[c].rng) BY <1>3 DEF ReadRows, At, CmdInv
  <2>4. cmd' = [cmd EXCEPT ![c] = k] /\ UNCHANGED lock BY <1>3 DEF ReadRows
  <2> HIDE DEF rows
  <2>5. k \in Commanding /\ k.at = "lock" /\ k.rng = cmd[c].rng
    BY <1>0, <2>2 DEF Commanding, Places
  <2> HIDE DEF k
  <2>6. CmdInv' BY <2>3, <2>4, <2>5, CmdGoesOn
  <2>7. (StoreInv /\ RangeInv /\ LedgerInv)' BY <1>3 DEF ReadRows, StoreInv, RangeInv, LedgerInv
  <2> QED BY <2>6, <2>7
<1>4. ASSUME Done(c) PROVE IInv'
  <2>1. CmdInv' BY <1>4, IdleType, CmdLeaves DEF Done
  <2>2. (StoreInv /\ RangeInv /\ LedgerInv)' BY <1>4 DEF Done, StoreInv, RangeInv, LedgerInv
  <2> QED BY <2>1, <2>2
<1> QED BY <1>1, <1>2, <1>3, <1>4

\* 'config linux uid': one window, in which nobody else's number is taken.
LEMMA AssignKeeps ==
    ASSUME IInv, NEW c \in Cmds, NEW n \in Names, NEW r \in Ranges, NEW u \in r.min .. r.max,
           Assign(c, n, u)
    PROVE  IInv'
<1> USE DEF IInv
<1>1. cmd[c].at = "assign" /\ Usable(cmd[c].rng) BY DEF Assign, At, CmdInv
<1>2. u \in Nat BY RangeAssumption
<1>3. ledger' \in Ledgers /\ Apart(ledger') /\ Recorded(ledger')
  BY <1>1, <1>2, AssignedApart DEF Assign, LedgerInv
<1>4. line' \in [Names -> Nat] BY RangeAssumption DEF Assign, LedgerInv, StoreInv
<1>5. LedgerInv' BY <1>3, <1>4 DEF LedgerInv, Apart, Recorded
<1>6. CmdInv' BY <1>1, IdleType, CmdGoesOn DEF Assign
<1>7. StoreInv' BY DEF Assign, StoreInv, Spending
<1>8. RangeInv' BY DEF Assign, RangeInv
<1> QED BY <1>5, <1>6, <1>7, <1>8

\* scriptUsers' window of the lock, row by row.
LEMMA WindowKeeps ==
    ASSUME IInv, NEW c \in Cmds,
           BuildBegin(c) \/ (\E n \in Names : For(c, n) \/ RangeFull(c, n)) \/ BuildEnd(c)
    PROVE  IInv'
<1> USE DEF IInv
<1>0. cmd[c] \in Commanding BY DEF CmdInv
<1>1. ASSUME BuildBegin(c) PROVE IInv'
  <2> DEFINE k == [cmd[c] EXCEPT !.at = "for", !.todo = cmd[c].rows.active]
  <2>1. k \in Commanding /\ k.at = "for" /\ k.rng = cmd[c].rng
    BY <1>0 DEF Commanding, Rows, Places
  <2>2. /\ cmd[c].at = "lock" /\ Usable(cmd[c].rng) /\ lock = NoCmd
        /\ cmd' = [cmd EXCEPT ![c] = k] /\ lock' = c
    BY <1>1 DEF BuildBegin, At, CmdInv
  <2> HIDE DEF k
  <2>3. CmdInv' BY <2>1, <2>2, CmdAssumption DEF CmdInv
  <2>4. (StoreInv /\ RangeInv /\ LedgerInv)' BY <1>1 DEF BuildBegin, StoreInv, RangeInv, LedgerInv
  <2> QED BY <2>3, <2>4
<1>2. ASSUME NEW n \in Names, For(c, n) PROVE IInv'
  <2> DEFINE k == [cmd[c] EXCEPT !.todo = cmd[c].todo \ {n}]
  <2>1. k \in Commanding /\ k.at = cmd[c].at /\ k.rng = cmd[c].rng BY <1>0 DEF Commanding
  <2>2. /\ cmd[c].at = "for" /\ Usable(cmd[c].rng)
        /\ cmd' = [cmd EXCEPT ![c] = k] /\ UNCHANGED lock
    BY <1>2 DEF For, At, CmdInv
  <2> HIDE DEF k
  <2>3. CmdInv' BY <2>1, <2>2, CmdGoesOn
  <2>4. LedgerInv'
    <3>1. CASE ledger.nums[n] # 0 BY <1>2, <3>1 DEF For, LedgerInv
    <3>2. CASE ledger.nums[n] = 0
      <4>1. ledger' = WithLine(ledger, cmd[c].rng, n) /\ NextUID(ledger, cmd[c].rng) <= cmd[c].rng.max
        BY <1>2, <3>2 DEF For
      <4>2. ledger' \in Ledgers /\ Apart(ledger') /\ Recorded(ledger')
        BY <2>2, <3>2, <4>1, WithLineApart DEF LedgerInv
      <4>3. cmd[c].rows.who[n] \in Nat BY <1>0 DEF Commanding, Rows
      <4>4. line' \in [Names -> Nat] BY <1>2, <3>2, <4>3 DEF For, LedgerInv
      <4> QED BY <4>2, <4>4 DEF LedgerInv, Apart, Recorded
    <3> QED BY <3>1, <3>2
  <2>5. (StoreInv /\ RangeInv)' BY <1>2 DEF For, StoreInv, RangeInv
  <2> QED BY <2>3, <2>4, <2>5
<1>3. ASSUME NEW n \in Names, RangeFull(c, n) PROVE IInv'
  <2>1. cmd[c].at = "for" /\ lock = c BY <1>3 DEF RangeFull, At, CmdInv
  <2>2. CmdInv' BY <1>3, <2>1, IdleType, CmdLeaves DEF RangeFull
  <2>3. (StoreInv /\ RangeInv /\ LedgerInv)' BY <1>3 DEF RangeFull, StoreInv, RangeInv, LedgerInv
  <2> QED BY <2>2, <2>3
<1>4. ASSUME BuildEnd(c) PROVE IInv'
  <2> DEFINE k == [cmd[c] EXCEPT !.at = "built", !.script = ScriptOf(c)]
  <2>1. ScriptOf(c) \in Scripts
    <3> DEFINE l == ledger
               r == cmd[c].rng
               rows == cmd[c].rows
               listed == {n \in rows.active : Has(r, l.nums[n])}
               expired == rows.inactive \cup (rows.active \ listed)
               nums == [n \in Names |-> IF n \in listed \cup expired /\ Has(r, l.nums[n])
                                        THEN l.nums[n] ELSE 0]
    <3>1. r \in Rng /\ rows \in Rows BY <1>0 DEF Commanding
    <3>2. listed \in SUBSET Names /\ expired \in SUBSET Names /\ rows.who \in [Names -> Nat]
      BY <3>1 DEF Rows
    <3>3. l.prev \in Seq(Rng) /\ line \in [Names -> Nat] BY DEF LedgerInv, Ledgers
    <3>4. nums \in [Names -> Nat] BY DEF LedgerInv, Ledgers
    <3>5. ScriptOf(c) = [rng |-> r, prev |-> l.prev, users |-> listed, inactive |-> expired,
                         nums |-> nums, who |-> rows.who, line |-> line]
      BY DEF ScriptOf
    <3>6. rows.who \in [Names -> Nat] BY <3>2
    <3> HIDE DEF l, r, rows, listed, expired, nums
    <3> QED BY <3>1, <3>2, <3>3, <3>4, <3>5, <3>6 DEF Scripts
  <2>2. k \in Commanding /\ k.at = "built" /\ k.rng = cmd[c].rng BY <1>0, <2>1 DEF Commanding, Places
  <2>3. /\ lock = c /\ Usable(cmd[c].rng)
        /\ cmd' = [cmd EXCEPT ![c] = k] /\ lock' = NoCmd
    BY <1>4 DEF BuildEnd, At, CmdInv
  <2> HIDE DEF k
  <2>4. CmdInv' BY <2>2, <2>3, CmdLeaves
  <2>5. (StoreInv /\ RangeInv /\ LedgerInv)' BY <1>4 DEF BuildEnd, StoreInv, RangeInv, LedgerInv
  <2> QED BY <2>4, <2>5
<1> QED BY <1>1, <1>2, <1>3, <1>4

LEMMA NextIInv == IInv /\ [Next]_vars => IInv'
<1> SUFFICES ASSUME IInv, [Next]_vars PROVE IInv' OBVIOUS
<1>1. CASE StoreWrites BY <1>1, StoreWritesKeep
<1>2. CASE RangeChange BY <1>2, RangeChangeKeeps
<1>3. ASSUME NEW c \in Cmds, Commands(c) \/ Done(c) PROVE IInv'
  <2>1. CASE \E n \in Names, r \in Ranges : \E u \in r.min .. r.max : Assign(c, n, u)
    BY <2>1, AssignKeeps
  <2>2. CASE BuildBegin(c) \/ (\E n \in Names : For(c, n) \/ RangeFull(c, n)) \/ BuildEnd(c)
    BY <2>2, WindowKeeps
  <2>3. CASE (\E kind \in {"sync", "assign"} : Begin(c, kind)) \/ Renumber(c) \/ ReadRows(c) \/ Done(c)
    BY <2>3, OutsideKeeps
  <2> QED BY <1>3, <2>1, <2>2, <2>3 DEF Commands
<1>4. CASE UNCHANGED vars
  BY <1>4 DEF vars, IInv, StoreInv, RangeInv, LedgerInv, CmdInv
<1> QED BY <1>1, <1>2, <1>3, <1>4 DEF Next

LEMMA IInvUnique == IInv => NumbersUnique
<1> SUFFICES ASSUME IInv PROVE NumbersUnique OBVIOUS
<1>1. ledger.nums \in [Names -> Nat] /\ ledger.rec \in Rng /\ ledger.prev \in Seq(Rng)
  BY DEF IInv, LedgerInv, Ledgers
<1>2. \A c \in Cmds : cmd[c].rng \in Rng /\ cmd[c].todo \subseteq Names
  BY DEF IInv, CmdInv, Commanding
<1>3. TypeOK
  BY <1>1, <1>2 DEF IInv, StoreInv, RangeInv, CmdInv, TypeOK, Usable, Rng, At
<1> QED BY <1>3 DEF NumbersUnique, IInv, LedgerInv, Apart

\* uids.go 262-269, for any users, commands, ranges and bounds: two users never have
\* one number, whichever commands allocate, renumber, rename and assign at the same
\* time and however old the range and the rows they bring into the lock.
THEOREM LedgerUnique == Spec => []NumbersUnique
<1>1. Init => IInv BY InitIInv
<1>2. IInv /\ [Next]_vars => IInv' BY NextIInv
<1>3. IInv => NumbersUnique BY IInvUnique
<1> QED BY <1>1, <1>2, <1>3, PTL DEF Spec

-----------------------------------------------------------------------------
(***************************************************************************)
(* No number goes to a second person.  As long as nobody sets a number by  *)
(* hand or moves the range, every command works in the default range, and  *)
(* the ledger has a line at least as high as every number given out there: *)
(* a line only ever changes its name.                                      *)
(***************************************************************************)
Untouched == used.assigns + used.ranges = 0

\* Some line of the ledger is at least as high as u.
Remembered(l, u) == \E n \in Names : Has(Default, l.nums[n]) /\ u <= l.nums[n]

DefaultInv ==
    /\ conf = Default /\ rset = NoSet
    /\ ledger.rec \in {NoRange, Default}
    /\ \A c \in Cmds : cmd[c].at # "idle" => cmd[c].rng = Default

GivenInv ==
    /\ \A g \in given : g[1] \in Nat
    /\ \A g \in given : Has(Default, g[1]) => Remembered(ledger, g[1])
    /\ \A g, h \in given : g[1] = h[1] => g[2] = h[2]

ReuseInv == Untouched => DefaultInv /\ GivenInv

\* The default range is usable.
LEMMA DefaultUsable == Usable(Default) /\ Default # NoRange
BY RangeAssumption DEF Usable, Rng, IsRange, NoRange

\* What UIDs.For would give next was given to nobody.
LEMMA NextWasNotGiven ==
    ASSUME GivenInv, ledger \in Ledgers, NextUID(ledger, Default) <= Default.max
    PROVE  \A g \in given : g[1] # NextUID(ledger, Default)
<1> SUFFICES ASSUME NEW g \in given, g[1] = NextUID(ledger, Default) PROVE FALSE OBVIOUS
<1>1. /\ NextUID(ledger, Default) \in Nat /\ NextUID(ledger, Default) >= Default.min
      /\ \A n \in Names : Has(Default, ledger.nums[n]) => ledger.nums[n] < NextUID(ledger, Default)
  BY DefaultUsable, NextIsNew
<1>2. \A n \in Names : ledger.nums[n] \in Nat BY DEF Ledgers
<1>3. Has(Default, g[1]) BY <1>1 DEF Has
<1>4. Remembered(ledger, g[1]) BY <1>3 DEF GivenInv
<1> QED BY <1>1, <1>2, <1>4 DEF Remembered

\* RenumberTo the default range leaves the lines that are there: the range the
\* others come from does not overlap it, or starts where it does.
LEMMA RenumberRemembers ==
    ASSUME NEW l \in Ledgers, Recorded(l), ~Refused(l, Default), NEW u \in Nat, Remembered(l, u)
    PROVE  Remembered(Renumbered(l, Default), u)
<1>1. CASE Absent(l) BY <1>1 DEF Renumbered
<1>2. CASE ~Absent(l)
  <2> DEFINE from == NumberedFor(l, Default)
  <2>1. Usable(from)
    BY RangeAssumption DEF NumberedFor, Unrecorded, Recorded, Usable, IsRange, Rng
  <2>2. ~(Default.min # from.min /\ Overlaps(Default, from)) BY <1>2 DEF Refused, RangeOverlap
  <2>3. \A n \in Names : Renumbered(l, Default).nums[n] =
           IF Has(from, l.nums[n]) THEN l.nums[n] + Default.min - from.min ELSE l.nums[n]
    BY <1>2 DEF Renumbered
  <2> HIDE DEF from
  <2>4. PICK n \in Names : Has(Default, l.nums[n]) /\ u <= l.nums[n] BY DEF Remembered
  <2>5. l.nums[n] \in Nat BY DEF Ledgers
  <2>6. Renumbered(l, Default).nums[n] = l.nums[n]
    <3>1. CASE ~Has(from, l.nums[n]) BY <2>3, <3>1
    <3>2. CASE Has(from, l.nums[n])
      <4>1. Default.min = from.min
        BY <2>1, <2>2, <2>4, <2>5, <3>2, DefaultUsable DEF Overlaps, Has, Usable, Rng
      <4> QED BY <2>1, <2>3, <2>5, <3>2, <4>1 DEF Usable, Rng
    <3> QED BY <3>1, <3>2
  <2> QED BY <2>4, <2>6 DEF Remembered
<1> QED BY <1>1, <1>2

\* MoveUser: the line is there under its new name.
LEMMA MoveRemembers ==
    ASSUME NEW l \in Ledgers, NEW old \in Names, NEW new \in Names, NEW u \in Nat, Remembered(l, u)
    PROVE  Remembered(Moved(l, old, new), u)
<1>1. PICK n \in Names : Has(Default, l.nums[n]) /\ u <= l.nums[n] BY DEF Remembered
<1>2. CASE l.nums[old] = 0 \/ l.nums[new] # 0 BY <1>2 DEF Moved
<1>3. CASE ~(l.nums[old] = 0 \/ l.nums[new] # 0)
  <2>1. l.nums \in [Names -> Nat] /\ old # new BY <1>3 DEF Ledgers
  <2>2. \A m \in Names : Moved(l, old, new).nums[m] =
           IF m = old THEN 0 ELSE IF m = new THEN l.nums[old] ELSE l.nums[m]
    BY <1>3, <2>1 DEF Ledgers, Moved
  <2>3. n # new BY <1>1, <1>3, DefaultUsable DEF Has, Usable, Rng
  <2>4. CASE n = old BY <1>1, <2>1, <2>2, <2>4 DEF Remembered
  <2>5. CASE n # old BY <1>1, <2>2, <2>3, <2>5 DEF Remembered
  <2> QED BY <2>4, <2>5
<1> QED BY <1>2, <1>3

\* UIDs.For: the new line is the highest.
LEMMA ForRemembers ==
    ASSUME NEW l \in Ledgers, NEW n \in Names, l.nums[n] = 0, NextUID(l, Default) <= Default.max
    PROVE  /\ \A u \in Nat : Remembered(l, u) => Remembered(WithLine(l, Default, n), u)
           /\ Remembered(WithLine(l, Default, n), NextUID(l, Default))
<1> DEFINE k == WithLine(l, Default, n)
           v == NextUID(l, Default)
<1>1. v \in Nat /\ v >= Default.min BY DefaultUsable, NextIsNew
<1>2. l.nums \in [Names -> Nat] BY DEF Ledgers
<1>3. k.nums = [l.nums EXCEPT ![n] = v] BY <1>2 DEF WithLine, Ledgers
<1>4. Has(Default, v) BY <1>1 DEF Has
<1>5. ~Has(Default, 0) BY DefaultUsable DEF Has, Usable, Rng
<1> HIDE DEF k, v
<1>6. Remembered(k, v) BY <1>1, <1>2, <1>3, <1>4 DEF Remembered
<1>7. ASSUME NEW u \in Nat, Remembered(l, u) PROVE Remembered(k, u)
  <2>1. PICK m \in Names : Has(Default, l.nums[m]) /\ u <= l.nums[m] BY <1>7 DEF Remembered
  <2>2. m # n BY <1>5, <2>1
  <2> QED BY <1>2, <1>3, <2>1, <2>2 DEF Remembered
<1> QED BY <1>6, <1>7 DEF k, v

\* Nothing is given and no line goes: what was given stays remembered.
LEMMA GivenStays ==
    ASSUME GivenInv, UNCHANGED given,
           \A u \in Nat : Remembered(ledger, u) => Remembered(ledger', u)
    PROVE  GivenInv'
<1>1. \A g \in given' : g[1] \in Nat BY DEF GivenInv
<1>2. \A g \in given' : Has(Default, g[1]) => Remembered(ledger', g[1]) BY DEF GivenInv
<1>3. \A g, h \in given' : g[1] = h[1] => g[2] = h[2] BY DEF GivenInv
<1> QED BY <1>1, <1>2, <1>3 DEF GivenInv, Remembered

LEMMA InitReuse == Init => ReuseInv
<1> SUFFICES ASSUME Init PROVE DefaultInv /\ GivenInv BY DEF ReuseInv
<1> USE DEF Init
<1>1. DefaultInv BY DEF DefaultInv, Idle
<1>2. GivenInv
  <2>1. CASE ~StartLegacy BY <2>1, RangeAssumption DEF GivenInv
  <2>2. CASE StartLegacy
    <3>1. given = {<<Legacy.min, 1>>} /\ Legacy.min \in Nat BY <2>2, RangeAssumption
    <3>2. First \in Names BY RangeAssumption DEF First
    <3>3. ledger.nums[First] = Legacy.min BY <2>2, <3>2 DEF NoNums
    <3>4. Has(Default, Legacy.min) => Remembered(ledger, Legacy.min) BY <3>1, <3>2, <3>3 DEF Remembered
    <3> QED BY <3>1, <3>4 DEF GivenInv
  <2> QED BY <2>1, <2>2, RangeAssumption
<1> QED BY <1>1, <1>2

LEMMA NextReuse == IInv /\ ReuseInv /\ [Next]_vars => ReuseInv'
<1> SUFFICES ASSUME IInv, ReuseInv, [Next]_vars, Untouched' PROVE (DefaultInv /\ GivenInv)'
  BY DEF ReuseInv
<1>0. /\ used \in Spending /\ ledger \in Ledgers /\ Recorded(ledger)
      /\ cmd \in [Cmds -> Commanding]
  BY DEF IInv, StoreInv, LedgerInv, CmdInv
<1>00. used.assigns \in Nat /\ used.ranges \in Nat BY <1>0 DEF Spending
<1>1. ASSUME NEW n \in Names, UserAdd(n) \/ UserRemove(n) \/ UserToggle(n) PROVE (DefaultInv /\ GivenInv)'
  <2>1. UNCHANGED <<conf, ledger, cmd, rset, given>> BY <1>1 DEF UserAdd, UserRemove, UserToggle
  <2>2. used'.assigns = used.assigns /\ used'.ranges = used.ranges
    BY <1>0, <1>1 DEF UserAdd, UserRemove, UserToggle, Spending
  <2>3. DefaultInv /\ GivenInv BY <2>2 DEF ReuseInv, Untouched
  <2> QED BY <2>1, <2>3 DEF DefaultInv, GivenInv, Remembered
<1>2. ASSUME NEW old \in Names, NEW new \in Names, RenameStore(old, new) PROVE (DefaultInv /\ GivenInv)'
  <2>1. UNCHANGED <<conf, ledger, cmd, rset, given>> BY <1>2 DEF RenameStore
  <2>2. used'.assigns = used.assigns /\ used'.ranges = used.ranges
    BY <1>0, <1>2 DEF RenameStore, Spending
  <2>3. DefaultInv /\ GivenInv BY <2>2 DEF ReuseInv, Untouched
  <2> QED BY <2>1, <2>3 DEF DefaultInv, GivenInv, Remembered
<1>3. ASSUME MoveUID PROVE (DefaultInv /\ GivenInv)'
  <2>1. UNCHANGED <<conf, cmd, rset, given, used>> BY <1>3 DEF MoveUID
  <2>2. DefaultInv /\ GivenInv BY <2>1 DEF ReuseInv, Untouched
  <2>3. ren \in Names \X Names BY <1>3 DEF MoveUID, IInv, StoreInv
  <2>4. ren[1] \in Names /\ ren[2] \in Names BY <2>3
  <2>5. ledger' = Moved(ledger, ren[1], ren[2]) BY <1>3 DEF MoveUID
  <2>6. GivenInv' BY <1>0, <2>1, <2>2, <2>4, <2>5, MoveRemembers, GivenStays
  <2>7. ledger'.rec = ledger.rec BY <1>0, <2>5 DEF Moved, Ledgers
  <2> QED BY <2>1, <2>2, <2>6, <2>7 DEF DefaultInv
<1>4. CASE RangeChange
  <2>1. ASSUME NEW r \in Ranges, RangeCheck(r) PROVE FALSE
    <3>1. used'.assigns = used.assigns /\ used'.ranges = used.ranges + 1
      BY <1>0, <2>1 DEF RangeCheck, Spending
    <3> QED BY <1>00, <3>1 DEF Untouched
  <2>2. ASSUME RangeMin \/ RangeMax \/ RangeDone PROVE FALSE
    <3>1. UNCHANGED used /\ rset.step # "none" BY <2>2 DEF RangeMin, RangeMax, RangeDone
    <3> QED BY <3>1 DEF ReuseInv, Untouched, DefaultInv, NoSet
  <2> QED BY <1>4, <2>1, <2>2 DEF RangeChange
<1>5. ASSUME NEW c \in Cmds, NEW kind, Begin(c, kind) PROVE (DefaultInv /\ GivenInv)'
  <2>1. UNCHANGED <<conf, ledger, rset, given, used>> BY <1>5 DEF Begin
  <2>2. DefaultInv /\ GivenInv BY <2>1 DEF ReuseInv, Untouched
  <2>3. cmd' = [cmd EXCEPT ![c] = [Idle EXCEPT !.kind = kind, !.at = "renumber", !.rng = conf]]
    BY <1>5 DEF Begin
  <2>4. cmd'[c].rng = Default /\ \A d \in Cmds : d # c => cmd'[d] = cmd[d]
    BY <1>0, <2>2, <2>3 DEF DefaultInv, Idle
  <2>5. \A d \in Cmds : cmd'[d].at # "idle" => cmd'[d].rng = Default BY <2>2, <2>4 DEF DefaultInv
  <2> QED BY <2>1, <2>2, <2>5 DEF DefaultInv, GivenInv, Remembered
<1>6. ASSUME NEW c \in Cmds, Renumber(c) PROVE (DefaultInv /\ GivenInv)'
  <2>1. UNCHANGED <<conf, rset, given, used>> BY <1>6 DEF Renumber
  <2>2. DefaultInv /\ GivenInv BY <2>1 DEF ReuseInv, Untouched
  <2>3. cmd[c].at = "renumber" /\ cmd[c].rng = Default BY <1>6, <2>2 DEF Renumber, At, DefaultInv
  <2>4. ledger' = IF Refused(ledger, Default) THEN ledger ELSE Renumbered(ledger, Default)
    BY <1>6, <2>3 DEF Renumber
  <2>5. \A u \in Nat : Remembered(ledger, u) => Remembered(ledger', u)
    BY <1>0, <2>4, RenumberRemembers
  <2>6. ledger'.rec \in {NoRange, Default} BY <2>2, <2>4 DEF Renumbered, DefaultInv
  <2>7. \A d \in Cmds : cmd'[d].at # "idle" => cmd'[d].rng = Default
    <3>1. \/ cmd' = [cmd EXCEPT ![c] = [cmd[c] EXCEPT !.at = "assign"]]
          \/ cmd' = [cmd EXCEPT ![c] = Idle]
          \/ cmd' = [cmd EXCEPT ![c] = [cmd[c] EXCEPT !.at = "rows"]]
      BY <1>6 DEF Renumber
    <3> QED BY <1>0, <2>2, <2>3, <3>1, IdleType DEF DefaultInv, Commanding
  <2> QED BY <2>1, <2>2, <2>5, <2>6, <2>7, GivenStays DEF DefaultInv
<1>7. ASSUME NEW c \in Cmds, NEW n \in Names, NEW u, Assign(c, n, u) PROVE FALSE
  <2>1. used'.assigns = used.assigns + 1 /\ used'.ranges = used.ranges
    BY <1>0, <1>7 DEF Assign, Spending
  <2> QED BY <1>00, <2>1 DEF Untouched
<1>8. ASSUME NEW c \in Cmds, NEW n \in Names, For(c, n) PROVE (DefaultInv /\ GivenInv)'
  <2>1. UNCHANGED <<conf, rset, used>> BY <1>8 DEF For
  <2>2. DefaultInv /\ GivenInv BY <2>1 DEF ReuseInv, Untouched
  <2>3. cmd[c].at = "for" /\ cmd[c].rng = Default BY <1>8, <2>2 DEF For, At, DefaultInv
  <2>4. \A d \in Cmds : cmd'[d].at # "idle" => cmd'[d].rng = Default
    <3>1. cmd' = [cmd EXCEPT ![c] = [cmd[c] EXCEPT !.todo = cmd[c].todo \ {n}]] BY <1>8 DEF For
    <3> QED BY <1>0, <2>2, <2>3, <3>1 DEF DefaultInv, Commanding
  <2>5. CASE ledger.nums[n] # 0
    <3>1. UNCHANGED <<ledger, given>> BY <1>8, <2>5 DEF For
    <3> QED BY <2>1, <2>2, <2>4, <3>1 DEF DefaultInv, GivenInv, Remembered
  <2>6. CASE ledger.nums[n] = 0
    <3> DEFINE v == NextUID(ledger, Default)
               p == cmd[c].rows.who[n]
    <3>1. /\ v <= Default.max /\ ledger' = WithLine(ledger, Default, n)
          /\ given' = given \cup {<<v, p>>}
      BY <1>8, <2>3, <2>6 DEF For
    <3>2. v \in Nat BY <1>0, DefaultUsable, NextIsNew
    <3>3. \A g \in given : g[1] # v BY <1>0, <2>2, <3>1, NextWasNotGiven
    <3>4. /\ \A u \in Nat : Remembered(ledger, u) => Remembered(ledger', u)
          /\ Remembered(ledger', v)
      BY <1>0, <2>6, <3>1, ForRemembers
    <3>5. ledger'.rec \in {NoRange, Default} BY <1>0, <2>2, <3>1 DEF WithLine, DefaultInv, Ledgers
    <3> HIDE DEF v, p
    <3>6. \A g \in given' : g[1] \in Nat BY <2>2, <3>1, <3>2 DEF GivenInv
    <3>7. \A g \in given' : Has(Default, g[1]) => Remembered(ledger', g[1])
      BY <2>2, <3>1, <3>4 DEF GivenInv
    <3>8. \A g, h \in given' : g[1] = h[1] => g[2] = h[2] BY <2>2, <3>1, <3>3 DEF GivenInv
    <3>9. GivenInv' BY <3>6, <3>7, <3>8 DEF GivenInv, Remembered
    <3> QED BY <2>1, <2>2, <2>4, <3>5, <3>9 DEF DefaultInv
  <2> QED BY <2>5, <2>6
<1>9. ASSUME NEW c \in Cmds,
             ReadRows(c) \/ BuildBegin(c) \/ (\E n \in Names : RangeFull(c, n)) \/ BuildEnd(c) \/ Done(c)
      PROVE  (DefaultInv /\ GivenInv)'
  <2>1. UNCHANGED <<conf, ledger, rset, given, used>>
    BY <1>9 DEF ReadRows, BuildBegin, RangeFull, BuildEnd, Done
  <2>2. DefaultInv /\ GivenInv BY <2>1 DEF ReuseInv, Untouched
  <2>3. \A d \in Cmds : d # c => cmd'[d] = cmd[d]
    BY <1>0, <1>9 DEF ReadRows, BuildBegin, RangeFull, BuildEnd, Done
  <2>4. cmd'[c].at # "idle" => cmd[c].at # "idle" /\ cmd'[c].rng = cmd[c].rng
    <3>1. CASE ReadRows(c) BY <1>0, <3>1 DEF ReadRows, At, Commanding
    <3>2. CASE BuildBegin(c) BY <1>0, <3>2 DEF BuildBegin, At, Commanding
    <3>3. CASE (\E n \in Names : RangeFull(c, n)) \/ Done(c)
      BY <1>0, <3>3, IdleType DEF RangeFull, Done
    <3>4. CASE BuildEnd(c) BY <1>0, <3>4 DEF BuildEnd, At, Commanding
    <3> QED BY <1>9, <3>1, <3>2, <3>3, <3>4
  <2>5. \A d \in Cmds : cmd'[d].at # "idle" => cmd'[d].rng = Default BY <2>2, <2>3, <2>4 DEF DefaultInv
  <2> QED BY <2>1, <2>2, <2>5 DEF DefaultInv, GivenInv, Remembered
<1>10. CASE UNCHANGED vars
  BY <1>10 DEF vars, ReuseInv, Untouched, DefaultInv, GivenInv, Remembered
<1> QED BY <1>1, <1>2, <1>3, <1>4, <1>5, <1>6, <1>7, <1>8, <1>9, <1>10 DEF Next, StoreWrites, Commands

\* docs/hosts/ids-and-groups.md 6, for any users, commands, ranges and bounds: a number
\* given to one person is never given to another, however many are removed, renamed
\* and added again while scripts are built, as long as nobody sets a number by hand
\* or moves the range.
THEOREM LedgerNeverReuses == Spec => []NeverReused
<1>1. Init => IInv /\ ReuseInv BY InitIInv, InitReuse
<1>2. IInv /\ ReuseInv /\ [Next]_vars => (IInv /\ ReuseInv)' BY NextIInv, NextReuse
<1>3. IInv /\ ReuseInv => NeverReused BY DEF ReuseInv, Untouched, GivenInv, NeverReused
<1> QED BY <1>1, <1>2, <1>3, PTL DEF Spec
=============================================================================
