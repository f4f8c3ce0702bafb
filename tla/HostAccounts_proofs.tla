------------------------ MODULE HostAccounts_proofs ------------------------
(***************************************************************************)
(* The accounts of a host are told apart and the local ones are left as    *)
(* they are: proved for every set of names, scripts of any age, ranges and *)
(* numbers, whatever has processes.  Each part of the script keeps both by *)
(* itself; the loop over the listed users by induction on its rounds.      *)
(*                                                                         *)
(* The second half is about the people behind the accounts: the number is  *)
(* the link to them, no run deletes the account of a user, and none hands  *)
(* one to somebody else.  It follows a number from the line of the ledger  *)
(* it was given with through every range the ledger is moved to and every  *)
(* script that is written on the way: the distance to the start of the     *)
(* range never changes.                                                    *)
(***************************************************************************)
EXTENDS HostAccounts, UIDLedger_proofs, FiniteSetTheorems

-----------------------------------------------------------------------------
(***************************************************************************)
(* Induction up to N, over the set of the numbers that a claim holds for.  *)
(***************************************************************************)
\* A set of naturals has a least element.
LEMMA Least == ASSUME NEW T, T \subseteq Nat, T # {} PROVE \E n \in T : \A m \in T : n <= m
<1> DEFINE R == {ss \in Nat \X Nat : ss[1] < ss[2]}
<1>1. IsWellFoundedOn(R, Nat) BY NatLessThanWellFounded, Zenon DEF OpToRel
<1>2. \A x, y \in Nat : ~(<<y, x>> \in R) => x <= y OBVIOUS
<1> HIDE DEF R
<1>3. PICK x \in T : \A y \in T : ~(<<y, x>> \in R) BY <1>1, WFMin
<1>4. \A y \in T : x <= y BY <1>2, <1>3
<1> QED BY <1>4

\* A set with 0, and with each number up to N whose predecessor it has, has them all.
LEMMA Induction ==
    ASSUME NEW N \in Nat, NEW T, 0 \in T, \A i \in 1 .. N : i - 1 \in T => i \in T
    PROVE  \A i \in 0 .. N : i \in T
<1> DEFINE B == {i \in 0 .. N : i \notin T}
<1> SUFFICES ASSUME B # {} PROVE FALSE OBVIOUS
<1>1. B \subseteq Nat OBVIOUS
<1>2. PICK n \in B : \A m \in B : n <= m BY <1>1, Least
<1>3. n \in 1 .. N /\ n - 1 \in 0 .. N /\ n \notin T BY <1>2
<1>4. n - 1 \notin B BY <1>2, <1>3
<1> QED BY <1>3, <1>4

-----------------------------------------------------------------------------
(***************************************************************************)
(* The rounds of the loop over the listed users.                           *)
(***************************************************************************)
\* What one round does.
One(h, s, listed, i) == IF NameOrder[i] \in listed THEN ListOne(s, h, NameOrder[i]) ELSE h

\* The recursive function exists, so that each of its values is what its body says.
LEMMA RoundsAre ==
    ASSUME NEW h, NEW s, NEW listed
    PROVE  LET f == Rounds(h, s, listed) IN
           /\ f[0] = h
           /\ \A i \in 1 .. Len(NameOrder) : f[i] = One(f[i - 1], s, listed, i)
<1> DEFINE N == Len(NameOrder)
           P(k) == \E f : f = [i \in 0 .. k |-> IF i = 0 THEN h ELSE One(f[i - 1], s, listed, i)]
           T == {k \in 0 .. N : P(k)}
<1>0. N \in Nat BY NameOrderAssumption
<1>1. 0 \in T
  <2> DEFINE f == [i \in 0 .. 0 |-> h]
  <2>1. f = [i \in 0 .. 0 |-> IF i = 0 THEN h ELSE One(f[i - 1], s, listed, i)] OBVIOUS
  <2> HIDE DEF f
  <2>2. P(0) BY <2>1
  <2> QED BY <1>0, <2>2
<1>2. ASSUME NEW k \in 1 .. N, k - 1 \in T PROVE k \in T
  <2>1. PICK f : f = [i \in 0 .. k - 1 |-> IF i = 0 THEN h ELSE One(f[i - 1], s, listed, i)] BY <1>2
  <2> DEFINE g == [i \in 0 .. k |-> IF i = k THEN One(f[k - 1], s, listed, k) ELSE f[i]]
             g2 == [i \in 0 .. k |-> IF i = 0 THEN h ELSE One(g[i - 1], s, listed, i)]
  <2>2. ASSUME NEW i \in 0 .. k PROVE g[i] = IF i = 0 THEN h ELSE One(g[i - 1], s, listed, i)
    <3>1. CASE i = k
      <4>1. g[i - 1] = f[k - 1] BY <1>0, <3>1
      <4> QED BY <1>0, <3>1, <4>1
    <3>2. CASE i # k
      <4>1. i \in 0 .. k - 1 /\ g[i] = f[i] BY <1>0, <3>2
      <4>2. i # 0 => g[i - 1] = f[i - 1] BY <1>0, <3>2
      <4> HIDE DEF g
      <4> QED BY <2>1, <4>1, <4>2
    <3> QED BY <3>1, <3>2
  <2>3. g = g2
    <3>1. DOMAIN g = 0 .. k OBVIOUS
    <3> QED BY <2>2
  <2>4. P(k)
    <3> HIDE DEF g
    <3> QED BY <2>3
  <2> HIDE DEF P
  <2> QED BY <2>4
<1>3. P(N)
  <2>1. \A k \in 1 .. N : k - 1 \in T => k \in T
    <3> HIDE DEF T
    <3> QED BY <1>2
  <2> HIDE DEF T, N
  <2>2. \A k \in 0 .. N : k \in T BY <1>0, <1>1, <2>1, Induction
  <2>3. N \in 0 .. N BY <1>0
  <2>4. N \in T BY <2>2, <2>3
  <2> HIDE DEF P
  <2> QED BY <2>4 DEF T
<1> DEFINE f == Rounds(h, s, listed)
<1>4. f = [i \in 0 .. N |-> IF i = 0 THEN h ELSE One(f[i - 1], s, listed, i)]
  <2> DEFINE Q(q) == q = [i \in 0 .. N |-> IF i = 0 THEN h
                                           ELSE IF NameOrder[i] \in listed
                                           THEN ListOne(s, q[i - 1], NameOrder[i])
                                           ELSE q[i - 1]]
  <2>1. \E q : Q(q) BY <1>3 DEF One
  <2>2. f = CHOOSE q : Q(q) BY DEF Rounds
  <2> HIDE DEF Q, f
  <2>3. Q(f) BY <2>1, <2>2
  <2> QED BY <2>3 DEF Q, One
<1> HIDE DEF f, N
<1>5. f[0] = h BY <1>0, <1>4
<1>6. ASSUME NEW i \in 1 .. N PROVE f[i] = One(f[i - 1], s, listed, i)
  <2>1. i \in 0 .. N /\ i # 0 BY <1>0
  <2> QED BY <1>4, <2>1
<1>7. f[0] = h /\ \A i \in 1 .. N : f[i] = One(f[i - 1], s, listed, i) BY <1>5, <1>6
<1> QED BY <1>7 DEF f, N

-----------------------------------------------------------------------------
(***************************************************************************)
(* A host's accounts: no two share a name or a number, tacctl's own are    *)
(* the ones with a person behind them, and only those are ever expired.    *)
(***************************************************************************)
Accounts == [name : Names, uid : Int, ours : BOOLEAN, expired : BOOLEAN, owner : Nat, off : BOOLEAN]

Sound(h) ==
    /\ h \in SUBSET Accounts
    /\ \A x \in h : (x.ours <=> x.owner # 0) /\ (x.expired => x.ours)

Distinct(h) == \A x, y \in h : x.name = y.name \/ x.uid = y.uid => x = y

Locals(h) == {x \in h : ~x.ours}

\* What each part of the script promises of the accounts it leaves.
Kept(h, g) == Sound(g) /\ Distinct(g) /\ Locals(h) \subseteq g

\* A new account, under a free name and at a free number.
LEMMA AccountAdded ==
    ASSUME NEW h, Sound(h), Distinct(h), NEW a \in Accounts,
           a.ours <=> a.owner # 0, ~a.expired,
           Named(h, a.name) = {}, Free(h, a.uid)
    PROVE  Kept(h, h \cup {a})
<1>1. Sound(h \cup {a}) BY DEF Sound
<1>2. \A x \in h : x.name # a.name /\ x.uid # a.uid BY DEF Named, Free, WithUID
<1>3. Distinct(h \cup {a}) BY <1>2 DEF Distinct
<1> QED BY <1>1, <1>3 DEF Kept, Locals

\* What a new account is.
LEMMA AccountType ==
    ASSUME NEW n \in Names, NEW u \in Int, NEW p \in Nat
    PROVE  LET a == Account(n, u, p) IN
           /\ a \in Accounts /\ a.name = n /\ a.uid = u
           /\ (a.ours <=> a.owner # 0) /\ ~a.expired /\ a.owner = p
BY DEF Account, Accounts

\* The holder of the first candidate that is taken is one account.
LEMMA HolderIsOne ==
    ASSUME NEW h, Distinct(h), NEW s, NEW n, NEW x \in HolderOf(h, s, n), NEW y \in HolderOf(h, s, n)
    PROVE  x = y
<1> DEFINE c == Candidates(s, n)
           L == Len(c)
<1>0. L \in Nat BY DEF Candidates
<1>1. PICK i \in 1 .. L : x.uid = c[i] /\ \A j \in 1 .. i - 1 : Free(h, c[j]) BY DEF HolderOf
<1>2. PICK k \in 1 .. L : y.uid = c[k] /\ \A j \in 1 .. k - 1 : Free(h, c[j]) BY DEF HolderOf
<1>3. x \in h /\ y \in h BY DEF HolderOf
<1>4. ~Free(h, c[i]) /\ ~Free(h, c[k]) BY <1>1, <1>2, <1>3 DEF Free, WithUID
<1> HIDE DEF c, L
<1>5. i = k
  <2>1. ~(i < k)
    <3> SUFFICES ASSUME i < k PROVE FALSE OBVIOUS
    <3>1. i \in 1 .. k - 1 BY <1>0
    <3> QED BY <1>2, <1>4, <3>1
  <2>2. ~(k < i)
    <3> SUFFICES ASSUME k < i PROVE FALSE OBVIOUS
    <3>1. k \in 1 .. i - 1 BY <1>0
    <3> QED BY <1>1, <1>4, <3>1
  <2> QED BY <1>0, <2>1, <2>2
<1> QED BY <1>1, <1>2, <1>3, <1>5 DEF Distinct

\* rename_accounts: a new name is free, and no two accounts get one.
LEMMA RenamingKeeps ==
    ASSUME NEW h, Sound(h), Distinct(h), NEW s \in Scripts, NEW busy
    PROVE  Kept(h, Renaming(h, s, busy))
<1> DEFINE To(x) == RenamedTo(h, s, busy, x)
           N(x) == IF To(x) = {} THEN x.name ELSE CHOOSE n \in To(x) : TRUE
           R(x) == [x EXCEPT !.name = N(x)]
           g == Renaming(h, s, busy)
<1>1. g = {R(x) : x \in h} BY DEF Renaming
<1>2. ASSUME NEW x \in h, To(x) # {}
      PROVE  /\ N(x) \in Names /\ Named(h, N(x)) = {} /\ x \in HolderOf(h, s, N(x)) /\ x.ours
  <2>1. N(x) \in To(x) BY <1>2
  <2> QED BY <2>1 DEF RenamedTo, Stale, Known, Scripts
<1>3. ASSUME NEW x \in h PROVE N(x) \in Names BY <1>2 DEF Sound, Accounts
<1>4. ASSUME NEW x \in h
      PROVE  /\ R(x) \in Accounts /\ R(x).name = N(x) /\ R(x).uid = x.uid /\ R(x).ours = x.ours
             /\ R(x).owner = x.owner /\ R(x).expired = x.expired
  <2>1. x \in Accounts BY DEF Sound
  <2> HIDE DEF N
  <2> QED BY <1>3, <2>1 DEF Accounts
<1>5. ASSUME NEW x \in h, NEW y \in h, N(x) = N(y) PROVE x = y
  <2>1. CASE To(x) # {} /\ To(y) # {} BY <1>2, <1>5, <2>1, HolderIsOne
  <2>2. CASE To(x) # {} /\ To(y) = {}
    <3>1. y.name = N(x) /\ Named(h, N(x)) = {} BY <1>2, <1>5, <2>2
    <3> HIDE DEF N
    <3> QED BY <3>1 DEF Named
  <2>3. CASE To(x) = {} /\ To(y) # {}
    <3>1. x.name = N(y) /\ Named(h, N(y)) = {} BY <1>2, <1>5, <2>3
    <3> HIDE DEF N
    <3> QED BY <3>1 DEF Named
  <2>4. CASE To(x) = {} /\ To(y) = {} BY <1>5, <2>4 DEF Distinct
  <2> QED BY <2>1, <2>2, <2>3, <2>4
<1>6. ASSUME NEW x \in h, ~x.ours PROVE R(x) = x
  <2>1. x \in Accounts /\ N(x) = x.name BY <1>2, <1>6 DEF Sound
  <2> HIDE DEF N
  <2> QED BY <2>1 DEF Accounts
<1> HIDE DEF R, N, g
<1>7. Sound(g)
  <2>1. g \in SUBSET Accounts BY <1>1, <1>4
  <2>2. ASSUME NEW z \in g PROVE (z.ours <=> z.owner # 0) /\ (z.expired => z.ours)
    <3>1. PICK x \in h : z = R(x) BY <1>1
    <3> QED BY <1>4, <3>1 DEF Sound
  <2> QED BY <2>1, <2>2 DEF Sound
<1>8. Distinct(g)
  <2> SUFFICES ASSUME NEW z \in g, NEW w \in g, z.name = w.name \/ z.uid = w.uid PROVE z = w
    BY DEF Distinct
  <2>1. PICK x \in h : z = R(x) BY <1>1
  <2>2. PICK y \in h : w = R(y) BY <1>1
  <2>3. N(x) = N(y) \/ x.uid = y.uid BY <1>4, <2>1, <2>2
  <2>4. x = y BY <1>5, <2>3 DEF Distinct
  <2> QED BY <2>1, <2>2, <2>4
<1>9. Locals(h) \subseteq g BY <1>1, <1>6 DEF Locals
<1> QED BY <1>7, <1>8, <1>9 DEF Kept, g

\* previous_first gives a number.
LEMMA PreviousType ==
    ASSUME NEW s \in Scripts, NEW u
    PROVE  PreviousFirst(s, u) \in Nat
<1> DEFINE at == {i \in 1 .. Len(s.prev) : Has(s.prev[i], u)}
<1>1. s.prev \in Seq(Rng) BY DEF Scripts
<1>2. CASE at = {} BY <1>2 DEF PreviousFirst
<1>3. CASE at # {}
  <2>1. at \subseteq Nat BY <1>1
  <2>2. PICK i \in at : \A j \in at : i <= j BY <1>3, <2>1, Least
  <2>3. Min(at) \in at BY <2>2 DEF Min
  <2>4. s.prev[Min(at)] \in Rng
    <3> DEFINE k == Min(at)
    <3>1. k \in 1 .. Len(s.prev) BY <2>3
    <3> HIDE DEF k
    <3>2. s.prev[k] \in Rng BY <1>1, <3>1
    <3> QED BY <3>2 DEF k
  <2>5. PreviousFirst(s, u) = s.prev[Min(at)].min BY <1>3 DEF PreviousFirst
  <2> QED BY <2>4, <2>5 DEF Rng
<1> QED BY <1>2, <1>3

\* Of two names, one is first.
LEMMA BeforeTotal ==
    ASSUME NEW n \in Names, NEW m \in Names, n # m
    PROVE  Before(n, m) \/ Before(m, n)
<1>1. PICK i \in 1 .. Len(NameOrder) : NameOrder[i] = n BY NameOrderAssumption
<1>2. PICK j \in 1 .. Len(NameOrder) : NameOrder[j] = m BY NameOrderAssumption
<1>3. i < j \/ j < i BY <1>1, <1>2, NameOrderAssumption, SMTT(30)
<1> QED BY <1>1, <1>2, <1>3 DEF Before

\* renumber_previous: a new number is free, and of two accounts that would go to one,
\* at most the first by name goes.
LEMMA RenumberingKeeps ==
    ASSUME NEW h, Sound(h), Distinct(h), NEW s \in Scripts, NEW busy
    PROVE  Kept(h, Renumbering(h, s, busy))
<1> DEFINE moved == Renumberable(h, s, busy)
           U(x) == IF x \in moved THEN NewUID(s, x) ELSE x.uid
           R(x) == [x EXCEPT !.uid = U(x)]
           g == Renumbering(h, s, busy)
<1>1. g = {R(x) : x \in h} BY DEF Renumbering
<1>2. ASSUME NEW x \in h, x \in moved
      PROVE  x.ours /\ Free(h, NewUID(s, x)) /\ x \in Earlier(h, s)
  BY <1>2 DEF Renumberable, Earlier
<1>3. ASSUME NEW x \in h PROVE U(x) \in Int
  <2>1. x.uid \in Int BY DEF Sound, Accounts
  <2>2. s.rng.min \in Nat BY DEF Scripts, Rng
  <2>3. NewUID(s, x) \in Int BY <2>1, <2>2, PreviousType DEF NewUID
  <2> QED BY <2>1, <2>3
<1>4. ASSUME NEW x \in h
      PROVE  /\ R(x) \in Accounts /\ R(x).name = x.name /\ R(x).uid = U(x) /\ R(x).ours = x.ours
             /\ R(x).owner = x.owner /\ R(x).expired = x.expired
  <2>1. x \in Accounts BY DEF Sound
  <2> HIDE DEF U
  <2> QED BY <1>3, <2>1 DEF Accounts
<1>5. ASSUME NEW x \in h, NEW y \in h, U(x) = U(y) PROVE x = y
  <2>1. CASE x \in moved /\ y \in moved
    <3>1. NewUID(s, x) = NewUID(s, y) BY <1>5, <2>1
    <3>2. ~Before(x.name, y.name) /\ ~Before(y.name, x.name)
      BY <1>2, <2>1, <3>1 DEF Renumberable
    <3>3. x.name \in Names /\ y.name \in Names BY DEF Sound, Accounts
    <3>4. x.name = y.name BY <3>2, <3>3, BeforeTotal
    <3> QED BY <3>4 DEF Distinct
  <2>2. CASE x \in moved /\ y \notin moved
    <3>1. Free(h, y.uid) BY <1>2, <1>5, <2>2
    <3> QED BY <3>1 DEF Free, WithUID
  <2>3. CASE x \notin moved /\ y \in moved
    <3>1. Free(h, x.uid) BY <1>2, <1>5, <2>3
    <3> QED BY <3>1 DEF Free, WithUID
  <2>4. CASE x \notin moved /\ y \notin moved BY <1>5, <2>4 DEF Distinct
  <2> QED BY <2>1, <2>2, <2>3, <2>4
<1>6. ASSUME NEW x \in h, ~x.ours PROVE R(x) = x
  <2>1. x \in Accounts /\ U(x) = x.uid BY <1>2, <1>6 DEF Sound
  <2> HIDE DEF U
  <2> QED BY <2>1 DEF Accounts
<1> HIDE DEF R, U, g
<1>7. Sound(g)
  <2>1. g \in SUBSET Accounts BY <1>1, <1>4
  <2>2. ASSUME NEW z \in g PROVE (z.ours <=> z.owner # 0) /\ (z.expired => z.ours)
    <3>1. PICK x \in h : z = R(x) BY <1>1
    <3> QED BY <1>4, <3>1 DEF Sound
  <2> QED BY <2>1, <2>2 DEF Sound
<1>8. Distinct(g)
  <2> SUFFICES ASSUME NEW z \in g, NEW w \in g, z.name = w.name \/ z.uid = w.uid PROVE z = w
    BY DEF Distinct
  <2>1. PICK x \in h : z = R(x) BY <1>1
  <2>2. PICK y \in h : w = R(y) BY <1>1
  <2>3. x.name = y.name \/ U(x) = U(y) BY <1>4, <2>1, <2>2
  <2>4. x = y BY <1>5, <2>3 DEF Distinct
  <2> QED BY <2>1, <2>2, <2>4
<1>9. Locals(h) \subseteq g BY <1>1, <1>6 DEF Locals
<1> QED BY <1>7, <1>8, <1>9 DEF Kept, g

\* An account is opened; one that is not tacctl's was never expired.
Opened(h, n) == {[x EXCEPT !.expired = @ /\ x.name # n] : x \in h}

LEMMA OpenedKeeps ==
    ASSUME NEW h, Sound(h), Distinct(h), NEW n
    PROVE  Kept(h, Opened(h, n))
<1> DEFINE E(x) == x.expired /\ x.name # n
           R(x) == [x EXCEPT !.expired = E(x)]
           g == Opened(h, n)
<1>0. \A x \in h : E(x) \in BOOLEAN /\ (E(x) => x.ours) /\ (~x.ours => E(x) = x.expired)
  BY DEF Sound, Accounts
<1> HIDE DEF E
<1>1. ASSUME NEW x \in h
      PROVE  /\ R(x) \in Accounts /\ R(x).name = x.name /\ R(x).uid = x.uid /\ R(x).ours = x.ours
             /\ R(x).owner = x.owner /\ R(x).expired = E(x) /\ (~x.ours => R(x) = x)
  <2>1. x \in Accounts BY DEF Sound
  <2> QED BY <1>0, <2>1 DEF Accounts
<1>2. g = {R(x) : x \in h} BY DEF Opened, E
<1> HIDE DEF R, g
<1>3. Sound(g)
  <2>1. g \in SUBSET Accounts BY <1>1, <1>2
  <2>2. ASSUME NEW z \in g PROVE (z.ours <=> z.owner # 0) /\ (z.expired => z.ours)
    <3>1. PICK x \in h : z = R(x) BY <1>2
    <3> QED BY <1>0, <1>1, <3>1 DEF Sound
  <2> QED BY <2>1, <2>2 DEF Sound
<1>4. Distinct(g)
  <2> SUFFICES ASSUME NEW z \in g, NEW w \in g, z.name = w.name \/ z.uid = w.uid PROVE z = w
    BY DEF Distinct
  <2>1. PICK x \in h : z = R(x) BY <1>2
  <2>2. PICK y \in h : w = R(y) BY <1>2
  <2>3. x.name = y.name \/ x.uid = y.uid BY <1>1, <2>1, <2>2
  <2>4. x = y BY <2>3 DEF Distinct
  <2> QED BY <2>1, <2>2, <2>4
<1>5. Locals(h) \subseteq g BY <1>1, <1>2 DEF Locals
<1> QED BY <1>3, <1>4, <1>5 DEF Kept, g

\* One round of the loop over the listed users.
LEMMA ListOneKeeps ==
    ASSUME NEW h, Sound(h), Distinct(h), NEW s \in Scripts, NEW n \in Names
    PROVE  Kept(h, ListOne(s, h, n))
<1>0. s.nums[n] \in Nat /\ s.who[n] \in Nat BY DEF Scripts
<1>1. CASE Managed(h, s, n)
  <2>1. ListOne(s, h, n) = Opened(h, n) BY <1>1 DEF ListOne, Opened
  <2> QED BY <2>1, OpenedKeeps
<1>2. CASE ~Managed(h, s, n) /\ Named(h, n) # {} BY <1>2 DEF ListOne, Kept, Locals
<1>3. CASE ~Managed(h, s, n) /\ Named(h, n) = {} /\ Free(h, s.nums[n])
  <2>1. ListOne(s, h, n) = h \cup {Account(n, s.nums[n], s.who[n])} BY <1>3 DEF ListOne
  <2> QED BY <1>0, <1>3, <2>1, AccountType, AccountAdded
<1>4. CASE ~Managed(h, s, n) /\ Named(h, n) = {} /\ ~Free(h, s.nums[n])
  <2> DEFINE A(u) == [Account(n, u, s.who[n]) EXCEPT !.off = TRUE]
             free == {u \in s.rng.min .. s.rng.max : Free(h, u)}
  <2>1. ListOne(s, h, n) = h \cup {A(u) : u \in FreeIDs(h, s)} BY <1>4 DEF ListOne
  <2>2. CASE free = {} BY <2>1, <2>2 DEF FreeIDs, Kept, Locals
  <2>3. CASE free # {}
    <3>1. s.rng.min \in Nat /\ s.rng.max \in Nat BY DEF Scripts, Rng
    <3>2. Max(free) \in free BY <2>3, <3>1, MaxIsHighest
    <3>3. Max(free) \in Int /\ Free(h, Max(free)) BY <3>1, <3>2
    <3>4. FreeIDs(h, s) = {Max(free)} BY <2>3 DEF FreeIDs
    <3> HIDE DEF free
    <3>5. A(Max(free)) \in Accounts /\ A(Max(free)).name = n /\ A(Max(free)).uid = Max(free)
          /\ (A(Max(free)).ours <=> A(Max(free)).owner # 0) /\ ~A(Max(free)).expired
      BY <1>0, <3>3 DEF Account, Accounts
    <3>6. ListOne(s, h, n) = h \cup {A(Max(free))} BY <2>1, <3>4
    <3> HIDE DEF A
    <3> QED BY <1>4, <3>3, <3>5, <3>6, AccountAdded
  <2> QED BY <2>2, <2>3
<1> QED BY <1>1, <1>2, <1>3, <1>4

\* The loop, by induction on its rounds.
LEMMA RoundsKeep ==
    ASSUME NEW h, Sound(h), Distinct(h), NEW s \in Scripts, NEW listed
    PROVE  Kept(h, Rounds(h, s, listed)[Len(NameOrder)])
<1> DEFINE f == Rounds(h, s, listed)
           N == Len(NameOrder)
           T == {i \in 0 .. N : Kept(h, f[i])}
<1>0. N \in Nat /\ \A i \in 1 .. N : NameOrder[i] \in Names BY NameOrderAssumption
<1>1. f[0] = h /\ \A i \in 1 .. N : f[i] = One(f[i - 1], s, listed, i) BY RoundsAre
<1> HIDE DEF f, N
<1>2. 0 \in T BY <1>0, <1>1 DEF Kept, Locals
<1>3. ASSUME NEW i \in 1 .. N, i - 1 \in T PROVE i \in T
  <2>1. Kept(h, f[i - 1]) BY <1>3
  <2>2. Kept(f[i - 1], f[i])
    <3>1. CASE NameOrder[i] \in listed
      <4>1. f[i] = ListOne(s, f[i - 1], NameOrder[i]) BY <1>1, <3>1 DEF One
      <4> QED BY <1>0, <2>1, <4>1, ListOneKeeps DEF Kept
    <3>2. CASE NameOrder[i] \notin listed
      <4>1. f[i] = f[i - 1] BY <1>1, <3>2 DEF One
      <4> QED BY <2>1, <4>1 DEF Kept, Locals
    <3> QED BY <3>1, <3>2
  <2>3. Kept(h, f[i]) BY <2>1, <2>2 DEF Kept, Locals
  <2> QED BY <1>0, <2>3
<1>4. \A i \in 1 .. N : i - 1 \in T => i \in T
  <2> HIDE DEF T
  <2> QED BY <1>3
<1>5. N \in T
  <2> HIDE DEF T
  <2>1. \A i \in 0 .. N : i \in T BY <1>0, <1>2, <1>4, Induction
  <2>2. N \in 0 .. N BY <1>0
  <2> QED BY <2>1, <2>2
<1> QED BY <1>5 DEF f, N

\* The loop over the accounts that are not listed.
LEMMA RemovalKeeps ==
    ASSUME NEW h, Sound(h), Distinct(h), NEW s, NEW busy, NEW deferred
    PROVE  Kept(h, Removal(h, s, busy, deferred))
<1> DEFINE unlisted == {x \in h : /\ x.ours /\ x.name \notin s.users \cup deferred
                                  /\ Has(s.rng, x.uid)
                                  /\ AssignedHolder(s, x.uid) \subseteq {x.name}}
           deleted == {x \in unlisted : x.name \notin s.inactive /\ x.uid \notin busy}
           R(x) == [x EXCEPT !.expired = TRUE]
           g == Removal(h, s, busy, deferred)
<1>1. g = (h \ unlisted) \cup {R(x) : x \in unlisted \ deleted} BY DEF Removal
<1>2. unlisted \subseteq h /\ \A x \in unlisted : x.ours OBVIOUS
<1> HIDE DEF unlisted, deleted, g
<1>3. ASSUME NEW x \in unlisted
      PROVE  /\ R(x) \in Accounts /\ R(x).name = x.name /\ R(x).uid = x.uid /\ R(x).ours
             /\ R(x).owner = x.owner
  <2>1. x \in Accounts /\ x.ours BY <1>2 DEF Sound
  <2> QED BY <2>1 DEF Accounts
<1> HIDE DEF R
<1>4. \A z \in g : \E x \in h : (z = x /\ x \notin unlisted) \/ (z = R(x) /\ x \in unlisted)
  BY <1>1, <1>2
<1>5. Sound(g)
  <2>1. g \in SUBSET Accounts BY <1>3, <1>4 DEF Sound
  <2>2. ASSUME NEW z \in g PROVE (z.ours <=> z.owner # 0) /\ (z.expired => z.ours)
    <3>1. PICK x \in h : (z = x /\ x \notin unlisted) \/ (z = R(x) /\ x \in unlisted) BY <1>4
    <3> QED BY <1>2, <1>3, <3>1 DEF Sound
  <2> QED BY <2>1, <2>2 DEF Sound
<1>6. Distinct(g)
  <2> SUFFICES ASSUME NEW z \in g, NEW w \in g, z.name = w.name \/ z.uid = w.uid PROVE z = w
    BY DEF Distinct
  <2>1. PICK x \in h : (z = x /\ x \notin unlisted) \/ (z = R(x) /\ x \in unlisted) BY <1>4
  <2>2. PICK y \in h : (w = y /\ y \notin unlisted) \/ (w = R(y) /\ y \in unlisted) BY <1>4
  <2>3. x.name = y.name \/ x.uid = y.uid BY <1>3, <2>1, <2>2
  <2>4. x = y BY <2>3 DEF Distinct
  <2> QED BY <2>1, <2>2, <2>4
<1>7. Locals(h) \subseteq g BY <1>1, <1>2 DEF Locals
<1> QED BY <1>5, <1>6, <1>7 DEF Kept, g

\* The whole script, whatever it was written from and however old it is.
LEMMA RunKeeps ==
    ASSUME NEW h, Sound(h), Distinct(h), NEW s \in Scripts, NEW busy, NEW allow
    PROVE  Kept(h, RunScript(h, s, busy, allow))
<1> DEFINE h1 == Renaming(h, s, busy)
           d1 == RenameDeferred(h, s, busy)
           d2 == d1 \cup {x.name : x \in Earlier(h1, s) \ Renumberable(h1, s, busy)}
           h2 == Renumbering(h1, s, busy)
           h3 == Rounds(h2, s, s.users \ d2)[Len(NameOrder)]
           h4 == Removal(h3, s, busy, d2)
<1>1. Kept(h, h1) BY RenamingKeeps
<1>2. RunScript(h, s, busy, allow) = IF Conflicts(h1, s, d1) # {} /\ ~allow THEN h1 ELSE h4
  BY DEF RunScript
<1> HIDE DEF h1
<1>3. Kept(h1, h2) BY <1>1, RenumberingKeeps DEF Kept
<1> HIDE DEF h2, d2
<1>4. Kept(h2, h3) BY <1>3, RoundsKeep DEF Kept
<1> HIDE DEF h3
<1>5. Kept(h3, h4) BY <1>4, RemovalKeeps DEF Kept
<1> HIDE DEF h4
<1>6. Kept(h, h4) BY <1>1, <1>3, <1>4, <1>5 DEF Kept, Locals
<1> QED BY <1>1, <1>2, <1>6

-----------------------------------------------------------------------------
(***************************************************************************)
(* The inductive invariant: the ledger's own, and a host whose accounts    *)
(* are told apart.                                                         *)
(***************************************************************************)
HInv == IInv /\ Sound(host) /\ Distinct(host)

\* The host starts with the ledger's users, each at its own number.
LEMMA HInitHInv == HInit => HInv
<1> SUFFICES ASSUME HInit PROVE HInv OBVIOUS
<1>1. IInv BY InitIInv DEF HInit
<1>2. /\ who \in [Names -> Nat] /\ ledger.nums \in [Names -> Nat] /\ Apart(ledger)
  BY <1>1, RangeAssumption DEF IInv, StoreInv, LedgerInv, Ledgers
<1> DEFINE S == {m \in Names : ledger.nums[m] # 0}
           A(n) == Account(n, ledger.nums[n], who[n])
<1>3. host = {A(n) : n \in S} BY DEF HInit
<1>4. ASSUME NEW n \in S
      PROVE  /\ A(n) \in Accounts /\ A(n).name = n /\ A(n).uid = ledger.nums[n]
             /\ (A(n).ours <=> A(n).owner # 0) /\ ~A(n).expired
  BY <1>2, AccountType
<1>5. \A n, m \in S : ledger.nums[n] = ledger.nums[m] => n = m BY <1>2 DEF Apart
<1> HIDE DEF A, S
<1>6. Sound(host)
  <2>1. host \in SUBSET Accounts BY <1>3, <1>4
  <2>2. ASSUME NEW z \in host PROVE (z.ours <=> z.owner # 0) /\ (z.expired => z.ours)
    BY <1>3, <1>4
  <2> QED BY <2>1, <2>2 DEF Sound
<1>7. Distinct(host)
  <2> SUFFICES ASSUME NEW z \in host, NEW w \in host, z.name = w.name \/ z.uid = w.uid PROVE z = w
    BY DEF Distinct
  <2>1. PICK n \in S : z = A(n) BY <1>3
  <2>2. PICK m \in S : w = A(m) BY <1>3
  <2>3. n = m BY <1>4, <1>5, <2>1, <2>2
  <2> QED BY <2>1, <2>2, <2>3
<1> QED BY <1>1, <1>6, <1>7 DEF HInv

\* A step of the whole is a step of the ledger, or leaves it alone.
LEMMA HNextIsNext == [HNext]_hvars => [Next]_vars
BY DEF HNext, Run, LocalAdd, hvars, Next

\* Every step keeps the invariant and every local account.
LEMMA HNextKeeps == HInv /\ [HNext]_hvars => HInv' /\ Locals(host) \subseteq host'
<1> SUFFICES ASSUME HInv, [HNext]_hvars PROVE HInv' /\ Locals(host) \subseteq host' OBVIOUS
<1>1. IInv' BY HNextIsNext, NextIInv DEF HInv
<1>2. CASE UNCHANGED host
  BY <1>1, <1>2 DEF HInv, Sound, Distinct, Locals
<1>3. ASSUME NEW c \in Cmds, Run(c) PROVE Kept(host, host')
  <2>1. cmd[c].script \in Scripts BY DEF HInv, IInv, CmdInv, Commanding
  <2>2. PICK allow, busy : host' = RunScript(host, cmd[c].script, busy, allow) BY <1>3 DEF Run
  <2> QED BY <2>1, <2>2, RunKeeps DEF HInv
<1>4. ASSUME NEW n \in Names, LocalAdd(n) PROVE Kept(host, host')
  <2>1. Account(n, LocalUID, 0) \in Accounts BY LocalAssumption, AccountType
  <2> QED BY <1>4, LocalAssumption, AccountType, AccountAdded DEF LocalAdd, HInv
<1>5. ASSUME Kept(host, host') PROVE HInv' /\ Locals(host) \subseteq host'
  BY <1>1, <1>5 DEF HInv, Kept, Sound, Distinct
<1> QED BY <1>2, <1>3, <1>4, <1>5 DEF HNext, hvars

\* The host's accounts, for any users, scripts, ranges and local accounts: however old
\* the scripts that are run and whatever has processes, no two accounts get one name or
\* one number, and a number without a person behind it is never one of tacctl's.
THEOREM AccountsToldApart == HSpec => []HTypeOK
<1>1. HInit => HInv BY HInitHInv
<1>2. HInv /\ [HNext]_hvars => HInv' BY HNextKeeps
<1>3. HInv => HTypeOK BY DEF HInv, Sound, Distinct, Accounts, HTypeOK
<1> QED BY <1>1, <1>2, <1>3, PTL DEF HSpec

\* client-install.sh 465-470, likewise: no step of any script changes or takes away an
\* account that tacctl did not create, whatever is renamed, renumbered and removed around
\* it and in whichever order scripts of different ages are run.
THEOREM LocalAccountsStay == HSpec => LocalUntouched
<1>1. HInit => HInv BY HInitHInv
<1>2. HInv /\ [HNext]_hvars => HInv' BY HNextKeeps
<1>3. HInv /\ [HNext]_hvars => [\A x \in host : ~x.ours => x \in host']_hvars
  BY HNextKeeps DEF Locals
<1> QED BY <1>1, <1>2, <1>3, PTL DEF HSpec, LocalUntouched

-----------------------------------------------------------------------------
(***************************************************************************)
(* The numbers of the ledger: each lies in the range the ledger is recorded*)
(* for, as far from its start as in every range before it.                 *)
(***************************************************************************)
\* The ranges a ledger may have been numbered for.
All == Ranges \cup {Legacy, Default}

\* Two of them do not overlap: no range is one that grew or shrank in place.
RangesApart == \A r, q \in All : r = q \/ ~Overlaps(r, q)

\* How far into its range a number lies.
Offset(u) == u - (CHOOSE r \in All : Has(r, u)).min

\* The ranges the ledger's numbers have been in.
Seen(l) ==
    IF l.rec = NoRange THEN (IF l.nums = NoNums THEN {} ELSE {Legacy})
    ELSE {l.rec} \cup {l.prev[i] : i \in 1 .. Len(l.prev)}

\* A number lies in one of the ranges S.
Within(S, u) == \E r \in S : Has(r, u)

\* Everything is in the recorded range; without a record, at the start of the first.
Lawful(l) ==
    /\ l \in Ledgers
    /\ l.rec = NoRange => l.prev = <<>> /\ \A n \in Names : l.nums[n] \in {0, Legacy.min}
    /\ l.rec # NoRange => /\ l.rec \in All
                          /\ \A n \in Names : l.nums[n] # 0 => Has(l.rec, l.nums[n])
    /\ \A i \in 1 .. Len(l.prev) : l.prev[i] \in All

\* A range starts above 0 and is not empty.
LEMMA AllType ==
    \A r \in All : r \in Rng /\ r.min \in Nat /\ r.max \in Nat /\ r.min >= 1 /\ r.min <= r.max /\ r # NoRange
BY RangeAssumption DEF All, IsRange, Rng, NoRange

\* The range of a number is the one that has it.
LEMMA OffsetIs ==
    ASSUME RangesApart, NEW r \in All, NEW u \in Int, Has(r, u)
    PROVE  Offset(u) = u - r.min
<1> DEFINE q == CHOOSE k \in All : Has(k, u)
<1>1. q \in All /\ Has(q, u) OBVIOUS
<1> HIDE DEF q
<1>2. Overlaps(r, q) BY <1>1, AllType DEF Overlaps, Has
<1>3. r = q BY <1>1, <1>2 DEF RangesApart
<1> QED BY <1>3 DEF Offset, q

\* A start has one range.
LEMMA SameStart ==
    ASSUME RangesApart, NEW r \in All, NEW q \in All, r.min = q.min
    PROVE  r = q
<1>1. Overlaps(r, q) BY AllType DEF Overlaps
<1> QED BY <1>1 DEF RangesApart

\* The ledger has been in no other range.
LEMMA SeenAre == ASSUME NEW l, Lawful(l) PROVE Seen(l) \subseteq All
BY DEF Lawful, Seen, All

\* The parts of a lawful ledger.
LEMMA NumsAre ==
    ASSUME NEW l, Lawful(l)
    PROVE  l.nums \in [Names -> Nat] /\ l.rec \in Rng /\ l.prev \in Seq(Rng)
BY DEF Lawful, Ledgers

\* A number of the ledger lies in a range it has been in.
LEMMA NumsWithin ==
    ASSUME NEW l, Lawful(l), NEW n \in Names, l.nums[n] # 0
    PROVE  Within(Seen(l), l.nums[n])
<1>1. CASE l.rec = NoRange
  <2>1. l.nums # NoNums BY DEF NoNums
  <2>2. Seen(l) = {Legacy} BY <1>1, <2>1 DEF Seen
  <2>3. l.nums[n] = Legacy.min BY <1>1 DEF Lawful
  <2>4. Has(Legacy, Legacy.min) BY AllType DEF All, Has
  <2> QED BY <2>2, <2>3, <2>4 DEF Within
<1>2. CASE l.rec # NoRange
  <2>1. Has(l.rec, l.nums[n]) BY <1>2 DEF Lawful
  <2>2. l.rec \in Seen(l) BY <1>2 DEF Seen
  <2> QED BY <2>1, <2>2 DEF Within
<1> QED BY <1>1, <1>2

\* The range a ledger with lines was numbered for is that of all of them.
LEMMA FromIs ==
    ASSUME NEW l, Lawful(l), ~Absent(l), NEW to
    PROVE  LET from == NumberedFor(l, to) IN
           /\ from \in All /\ from \in Seen(l)
           /\ \A n \in Names : l.nums[n] # 0 => Has(from, l.nums[n])
           /\ l.rec # NoRange => from = l.rec
           /\ l.rec = NoRange => from = Legacy
<1>1. CASE l.rec # NoRange
  BY <1>1 DEF NumberedFor, Lawful, Seen
<1>2. CASE l.rec = NoRange
  <2>0. l.nums \in [Names -> Nat] BY NumsAre
  <2>1. l.nums # NoNums BY <1>2 DEF Absent
  <2>2. PICK n \in Names : l.nums[n] # 0 BY <2>0, <2>1 DEF NoNums
  <2>3. l.nums[n] = Legacy.min BY <1>2, <2>2 DEF Lawful
  <2>4. Has(Legacy, Legacy.min) BY AllType DEF All, Has
  <2>5. InRange(l, Legacy) # {} BY <2>3, <2>4 DEF InRange
  <2>6. NumberedFor(l, to) = Legacy BY <1>2, <2>5 DEF NumberedFor, Unrecorded
  <2>7. \A m \in Names : l.nums[m] # 0 => l.nums[m] = Legacy.min BY <1>2 DEF Lawful
  <2> QED BY <1>2, <2>1, <2>4, <2>6, <2>7 DEF Seen, All
<1> QED BY <1>1, <1>2

\* RenumberTo: every number moves with its offset, and no range is forgotten.
LEMMA RenumberedLawful ==
    ASSUME RangesApart, NEW l, Lawful(l), NEW to \in All, ~Refused(l, to)
    PROVE  LET k == Renumbered(l, to) IN
           /\ Lawful(k) /\ Seen(l) \subseteq Seen(k)
           /\ \A n \in Names : /\ k.nums[n] = 0 <=> l.nums[n] = 0
                               /\ l.nums[n] # 0 => Offset(k.nums[n]) = Offset(l.nums[n])
           /\ k.rec = to \/ (Absent(l) /\ k = l)
<1>1. CASE Absent(l) BY <1>1 DEF Renumbered
<1>2. CASE ~Absent(l)
  <2> DEFINE from == NumberedFor(l, to)
             k == Renumbered(l, to)
  <2>1. /\ from \in All /\ from \in Seen(l)
        /\ \A n \in Names : l.nums[n] # 0 => Has(from, l.nums[n])
        /\ l.rec # NoRange => from = l.rec
        /\ l.rec = NoRange => from = Legacy
    BY <1>2, FromIs
  <2>2. ~RangeTooSmall(l, to) BY <1>2 DEF Refused
  <2>3. \A n \in Names : Has(from, l.nums[n]) => Has(to, l.nums[n] + to.min - from.min)
    BY <2>2 DEF RangeTooSmall
  <2>4. k = [nums |-> [n \in Names |-> IF Has(from, l.nums[n])
                                        THEN l.nums[n] + to.min - from.min ELSE l.nums[n]],
             rec |-> to, prev |-> IF to.min # from.min THEN Append(l.prev, from) ELSE l.prev]
    BY <1>2 DEF Renumbered
  <2> HIDE DEF from, k
  <2>5. /\ l.nums \in [Names -> Nat] /\ l.prev \in Seq(Rng) /\ \A i \in 1 .. Len(l.prev) : l.prev[i] \in All
    BY NumsAre DEF Lawful
  <2>6. /\ from \in Rng /\ from.min \in Nat /\ from.max \in Nat /\ from.min >= 1
        /\ to \in Rng /\ to.min \in Nat /\ to.max \in Nat /\ to.min >= 1 /\ to # NoRange
    BY <2>1, AllType
  <2>7. \A n \in Names : l.nums[n] = 0 => ~Has(from, l.nums[n]) BY <2>6 DEF Has
  <2>8. ASSUME NEW n \in Names
        PROVE  /\ k.nums[n] \in Nat
               /\ l.nums[n] = 0 => k.nums[n] = 0
               /\ l.nums[n] # 0 => /\ k.nums[n] = l.nums[n] + to.min - from.min
                                   /\ k.nums[n] # 0 /\ Has(to, k.nums[n])
    <3>1. CASE l.nums[n] = 0 BY <2>4, <2>7, <3>1
    <3>2. CASE l.nums[n] # 0
      <4>1. k.nums[n] = l.nums[n] + to.min - from.min /\ Has(to, k.nums[n]) BY <2>1, <2>3, <2>4, <3>2
      <4>2. k.nums[n] \in Int /\ k.nums[n] >= to.min BY <2>5, <2>6, <4>1 DEF Has
      <4> QED BY <2>6, <3>2, <4>1, <4>2
    <3> QED BY <3>1, <3>2
  <2>9. \A n \in Names : l.nums[n] # 0 => Offset(k.nums[n]) = Offset(l.nums[n])
    <3> SUFFICES ASSUME NEW n \in Names, l.nums[n] # 0 PROVE Offset(k.nums[n]) = Offset(l.nums[n]) OBVIOUS
    <3>1. Offset(l.nums[n]) = l.nums[n] - from.min BY <2>1, <2>5, OffsetIs
    <3>2. Offset(k.nums[n]) = k.nums[n] - to.min BY <2>8, OffsetIs
    <3>3. k.nums[n] = l.nums[n] + to.min - from.min /\ l.nums[n] \in Nat BY <2>5, <2>8
    <3> QED BY <2>6, <3>1, <3>2, <3>3
  <2>10. k.rec = to /\ k.prev = IF to.min # from.min THEN Append(l.prev, from) ELSE l.prev BY <2>4
  <2>11. /\ k.prev \in Seq(Rng) /\ \A i \in 1 .. Len(k.prev) : k.prev[i] \in All
    <3>1. CASE to.min = from.min BY <2>5, <2>10, <3>1
    <3>2. CASE to.min # from.min
      <4>1. k.prev = Append(l.prev, from) BY <2>10, <3>2
      <4> QED BY <2>1, <2>5, <2>6, <4>1
    <3> QED BY <3>1, <3>2
  <2>12. Lawful(k)
    <3>1. DOMAIN k.nums = Names /\ k.nums = [n \in Names |-> k.nums[n]] BY <2>4
    <3>2. k.nums \in [Names -> Nat] BY <2>8, <3>1
    <3>3. k = [nums |-> k.nums, rec |-> k.rec, prev |-> k.prev] BY <2>4
    <3>4. k \in Ledgers BY <2>6, <2>10, <2>11, <3>2, <3>3 DEF Ledgers
    <3>5. \A n \in Names : k.nums[n] # 0 => Has(k.rec, k.nums[n]) BY <2>8, <2>10
    <3> QED BY <2>6, <2>10, <2>11, <3>4, <3>5 DEF Lawful
  <2>13. Seen(l) \subseteq Seen(k)
    <3>1. Seen(k) = {to} \cup {k.prev[i] : i \in 1 .. Len(k.prev)} BY <2>6, <2>10 DEF Seen
    <3>2. from \in Seen(k) /\ \A i \in 1 .. Len(l.prev) : l.prev[i] \in Seen(k)
      <4>1. CASE to.min = from.min
        <5>1. to = from BY <2>1, <4>1, SameStart
        <5> QED BY <2>10, <3>1, <4>1, <5>1
      <4>2. CASE to.min # from.min
        <5>1. k.prev = Append(l.prev, from) BY <2>10, <4>2
        <5>2. /\ Len(k.prev) = Len(l.prev) + 1 /\ k.prev[Len(l.prev) + 1] = from
              /\ \A i \in 1 .. Len(l.prev) : k.prev[i] = l.prev[i] /\ i \in 1 .. Len(k.prev)
              /\ Len(l.prev) + 1 \in 1 .. Len(k.prev)
          BY <2>5, <5>1
        <5> QED BY <3>1, <5>2
      <4> QED BY <4>1, <4>2
    <3>3. \A r \in Seen(l) : r = from \/ \E i \in 1 .. Len(l.prev) : r = l.prev[i] BY <2>1 DEF Seen
    <3> QED BY <3>2, <3>3
  <2> QED BY <2>8, <2>9, <2>10, <2>12, <2>13 DEF k
<1> QED BY <1>1, <1>2

\* A ledger that is in the range, or has no record yet, is not refused it.
LEMMA OwnRangeNotRefused ==
    ASSUME RangesApart, NEW l, Lawful(l), NEW to \in All, l.rec = NoRange \/ l.rec = to
    PROVE  ~Refused(l, to)
<1> SUFFICES ASSUME ~Absent(l)
             PROVE  ~RangeOverlap(l, to) /\ ~RangeTooSmall(l, to) /\ ~UIDCollision(l, to)
  BY DEF Refused
<1> DEFINE from == NumberedFor(l, to)
<1>1. /\ from \in All
      /\ \A n \in Names : l.nums[n] # 0 => Has(from, l.nums[n])
      /\ l.rec # NoRange => from = l.rec
      /\ l.rec = NoRange => from = Legacy
  BY FromIs
<1>2. l.nums \in [Names -> Nat] BY NumsAre
<1>3. /\ from.min \in Nat /\ from.max \in Nat /\ from.min >= 1
      /\ to.min \in Nat /\ to.max \in Nat /\ to.min >= 1 /\ to.min <= to.max
  BY <1>1, AllType
<1>4. from.min = to.min => from = to BY <1>1, SameStart
<1>5. from = to \/ (l.prev = <<>> /\ \A n \in Names : l.nums[n] \in {0, from.min})
  BY <1>1 DEF Lawful
<1>6. ~RangeOverlap(l, to)
  <2>1. CASE from = to BY <2>1 DEF RangeOverlap
  <2>2. CASE from # to
    <3>1. ~Overlaps(to, from) BY <1>1, <2>2 DEF RangesApart
    <3>2. Len(l.prev) = 0 BY <1>5, <2>2
    <3> QED BY <3>1, <3>2 DEF RangeOverlap
  <2> QED BY <2>1, <2>2
<1>7. \A n \in Names : Has(from, l.nums[n]) => Has(to, l.nums[n] + to.min - from.min)
  <2> SUFFICES ASSUME NEW n \in Names, Has(from, l.nums[n])
               PROVE  Has(to, l.nums[n] + to.min - from.min) OBVIOUS
  <2>0. l.nums[n] \in Nat BY <1>2
  <2>1. CASE from = to
    <3>1. l.nums[n] + to.min - from.min = l.nums[n] BY <1>3, <2>0, <2>1
    <3> QED BY <2>1, <3>1
  <2>2. CASE from # to
    <3>1. l.nums[n] # 0 BY <1>3 DEF Has
    <3>2. l.nums[n] = from.min BY <1>5, <2>2, <3>1
    <3>3. l.nums[n] + to.min - from.min = to.min BY <1>3, <3>2
    <3> QED BY <1>3, <3>3 DEF Has
  <2> QED BY <2>1, <2>2
<1>8. ~RangeTooSmall(l, to) BY <1>7 DEF RangeTooSmall
<1>9. ~UIDCollision(l, to)
  <2> SUFFICES ASSUME NEW n \in Names, NEW m \in Names, Has(from, l.nums[n]), ~Has(from, l.nums[m]),
                      l.nums[m] = l.nums[n] + to.min - from.min
               PROVE  FALSE
    BY DEF UIDCollision
  <2>1. l.nums[m] = 0 BY <1>1
  <2>2. l.nums[n] \in Nat /\ l.nums[n] >= from.min BY <1>2 DEF Has
  <2> HIDE DEF from
  <2> QED BY <1>3, <2>1, <2>2
<1> QED BY <1>6, <1>8, <1>9

\* MoveUser: a line changes its name only.
LEMMA MovedLawful ==
    ASSUME RangesApart, NEW l, Lawful(l), NEW old \in Names, NEW new \in Names, old # new,
           l.nums[old] # 0, l.nums[new] = 0
    PROVE  LET k == Moved(l, old, new) IN
           /\ Lawful(k) /\ Seen(k) = Seen(l) /\ k.rec = l.rec /\ k.prev = l.prev
           /\ k.nums[new] = l.nums[old] /\ k.nums[old] = 0
           /\ \A n \in Names : n # old /\ n # new => k.nums[n] = l.nums[n]
           /\ \A to \in All : ~Refused(l, to) => ~Refused(k, to)
<1> DEFINE k == Moved(l, old, new)
<1>1. l.nums \in [Names -> Nat] /\ l.rec \in Rng /\ l.prev \in Seq(Rng) /\ l \in Ledgers BY NumsAre DEF Lawful
<1>2. k = [l EXCEPT !.nums = [@ EXCEPT ![new] = l.nums[old], ![old] = 0]] BY DEF Moved
<1> HIDE DEF k
<1>3. k \in Ledgers /\ k.rec = l.rec /\ k.prev = l.prev /\ k.nums = [l.nums EXCEPT ![new] = l.nums[old], ![old] = 0]
  <2> DEFINE f == [l.nums EXCEPT ![new] = l.nums[old], ![old] = 0]
  <2>1. f \in [Names -> Nat] BY <1>1
  <2>2. k = [l EXCEPT !.nums = f] BY <1>2
  <2> HIDE DEF f
  <2>3. k \in Ledgers /\ k.rec = l.rec /\ k.prev = l.prev /\ k.nums = f BY <1>1, <2>1, <2>2 DEF Ledgers
  <2> QED BY <2>3 DEF f
<1>4. /\ k.nums[new] = l.nums[old] /\ k.nums[old] = 0
      /\ \A n \in Names : n # old /\ n # new => k.nums[n] = l.nums[n]
  BY <1>1, <1>3
<1>5. \A n \in Names : k.nums[n] = 0 \/ \E m \in Names : k.nums[n] = l.nums[m] BY <1>4
<1>6. Lawful(k) BY <1>3, <1>5 DEF Lawful
<1>7. l.nums # NoNums /\ k.nums # NoNums BY <1>4 DEF NoNums
<1>8. Seen(k) = Seen(l) BY <1>3, <1>7 DEF Seen
<1>9. ASSUME NEW to \in All, ~Refused(l, to) PROVE ~Refused(k, to)
  <2>1. CASE l.rec = NoRange BY <1>3, <1>6, <2>1, OwnRangeNotRefused
  <2>2. CASE l.rec # NoRange
    <3>1. ~Absent(l) BY <2>2 DEF Absent
    <3>2. NumberedFor(l, to) = l.rec /\ NumberedFor(k, to) = l.rec BY <1>3, <2>2 DEF NumberedFor
    <3>3. ~RangeOverlap(k, to) BY <1>3, <1>9, <3>1, <3>2 DEF Refused, RangeOverlap
    <3>4. ~RangeTooSmall(k, to)
      <4>1. \A n \in Names : Has(l.rec, l.nums[n]) => Has(to, l.nums[n] + to.min - l.rec.min)
        BY <1>9, <3>1, <3>2 DEF Refused, RangeTooSmall
      <4>2. ~Has(l.rec, 0)
        <5>1. l.rec \in All BY <2>2 DEF Lawful
        <5> QED BY <5>1, AllType DEF Has
      <4>3. \A n \in Names : Has(l.rec, k.nums[n]) => Has(to, k.nums[n] + to.min - l.rec.min)
        BY <1>5, <4>1, <4>2
      <4> QED BY <3>2, <4>3 DEF RangeTooSmall
    <3>5. ~UIDCollision(k, to)
      <4>0. l.rec \in All BY <2>2 DEF Lawful
      <4> SUFFICES ASSUME NEW n \in Names, NEW m \in Names, Has(l.rec, k.nums[n]), ~Has(l.rec, k.nums[m]),
                          k.nums[m] = k.nums[n] + to.min - l.rec.min
                   PROVE  FALSE
        BY <3>2 DEF UIDCollision
      <4>1. k.nums[m] = 0 BY <1>3, <1>6, <2>2 DEF Lawful
      <4>2. k.nums[n] \in Nat /\ k.nums[n] >= l.rec.min BY <1>6, NumsAre DEF Has
      <4>3. l.rec.min \in Nat /\ to.min \in Nat /\ to.min >= 1 BY <4>0, AllType
      <4> QED BY <4>1, <4>2, <4>3
    <3> QED BY <3>3, <3>4, <3>5 DEF Refused
  <2> QED BY <2>1, <2>2
<1> QED BY <1>3, <1>4, <1>6, <1>8, <1>9 DEF k

\* UIDs.For and Assign: the new line is in the range, which the ledger then records.
LEMMA AssignedLawful ==
    ASSUME RangesApart, NEW l, Lawful(l), NEW r \in All, NEW n \in Names, NEW u \in Nat, Has(r, u),
           l.rec = r \/ Absent(l)
    PROVE  LET k == Assigned(l, r, n, u) IN
           /\ Lawful(k) /\ Seen(l) \subseteq Seen(k) /\ k.rec = r /\ r \in Seen(k)
           /\ k.nums[n] = u /\ u # 0
           /\ \A m \in Names : m # n => k.nums[m] = l.nums[m]
<1> DEFINE k == Assigned(l, r, n, u)
<1>1. l.nums \in [Names -> Nat] /\ l.rec \in Rng /\ l.prev \in Seq(Rng) /\ l \in Ledgers BY NumsAre DEF Lawful
<1>2. r \in Rng /\ r.min \in Nat /\ r.min >= 1 /\ r # NoRange BY AllType
<1>3. l.rec = r => ~Absent(l) BY <1>2 DEF Absent
<1>4. (IF Absent(l) THEN r ELSE l.rec) = r BY <1>3
<1>5. /\ k \in Ledgers /\ k.rec = r /\ k.prev = l.prev /\ k.nums = [l.nums EXCEPT ![n] = u]
  BY <1>1, <1>2, <1>4 DEF Assigned, Ledgers
<1> HIDE DEF k
<1>6. k.nums[n] = u /\ u # 0 /\ \A m \in Names : m # n => k.nums[m] = l.nums[m]
  BY <1>1, <1>2, <1>5 DEF Has
<1>7. \A m \in Names : m # n /\ l.nums[m] # 0 => Has(r, l.nums[m])
  <2>1. CASE l.rec = r BY <1>2, <2>1 DEF Lawful
  <2>2. CASE Absent(l) BY <2>2 DEF Absent, NoNums
  <2> QED BY <2>1, <2>2
<1>8. Lawful(k) BY <1>2, <1>5, <1>6, <1>7 DEF Lawful
<1>9. Seen(k) = {r} \cup {l.prev[i] : i \in 1 .. Len(l.prev)} BY <1>2, <1>5 DEF Seen
<1>10. Seen(l) \subseteq Seen(k)
  <2>1. CASE l.rec = r BY <1>2, <1>9, <2>1 DEF Seen
  <2>2. CASE Absent(l) BY <2>2 DEF Absent, Seen
  <2> QED BY <2>1, <2>2
<1> QED BY <1>5, <1>6, <1>8, <1>9, <1>10 DEF k

\* UIDs.For assigns the next number.
LEMMA WithLineIs == ASSUME NEW l, NEW r, NEW n PROVE WithLine(l, r, n) = Assigned(l, r, n, NextUID(l, r))
BY DEF WithLine, Assigned

-----------------------------------------------------------------------------
(***************************************************************************)
(* One range at a time.                                                    *)
(***************************************************************************)
\* The places of a command that is not at work.
Waits == {"idle", "built"}

\* One range at a time: a command that is at work has the range of tacctl.yaml, and
\* so does the ledger; a change of the range finds nobody at work, and what its check
\* allowed is still allowed when it is done.
OrderInv ==
    /\ Lawful(ledger)
    /\ rset.step = "none" => rset = NoSet /\ conf \in All /\ (ledger.rec # NoRange => ledger.rec = conf)
    /\ rset.step # "none" => /\ rset.to \in Ranges /\ ~Refused(ledger, rset.to)
                             /\ \A c \in Cmds : cmd[c].at \in Waits
    /\ rset.step = "max" => conf.min = rset.to.min
    /\ rset.step = "renumber" => conf = rset.to
    /\ \A c \in Cmds : cmd[c].at \notin Waits => cmd[c].rng = conf
    /\ \A c \in Cmds : cmd[c].at \notin Waits \cup {"renumber"} /\ ledger.rec = NoRange => ledger.nums = NoNums

\* A command's step, and what it may do to the ledger.
LEMMA OrderGoesOn ==
    ASSUME CmdInv, OrderInv, NEW c \in Cmds, NEW k, cmd' = [cmd EXCEPT ![c] = k], UNCHANGED <<rset, conf>>,
           Lawful(ledger'), ledger'.rec # NoRange => ledger'.rec \in {ledger.rec, conf},
           ledger.nums = NoNums /\ ledger'.rec = NoRange => ledger'.nums = NoNums,
           ledger.rec # NoRange => ledger'.rec # NoRange,
           rset.step # "none" => ledger' = ledger /\ k.at \in Waits,
           k.at \notin Waits => k.rng = conf,
           k.at \notin Waits \cup {"renumber"} /\ ledger'.rec = NoRange => ledger'.nums = NoNums
    PROVE  OrderInv'
<1>1. \A d \in Cmds : cmd'[d] = IF d = c THEN k ELSE cmd[d] BY DEF CmdInv
<1>2. rset' = rset /\ conf' = conf OBVIOUS
<1>3. Lawful(ledger') OBVIOUS
<1>4. rset'.step = "none" => rset' = NoSet /\ conf' \in All /\ (ledger'.rec # NoRange => ledger'.rec = conf')
  BY <1>2 DEF OrderInv
<1>5. rset'.step # "none" => /\ rset'.to \in Ranges /\ ~Refused(ledger', rset'.to)
                             /\ \A d \in Cmds : cmd'[d].at \in Waits
  BY <1>1, <1>2 DEF OrderInv
<1>6. (rset'.step = "max" => conf'.min = rset'.to.min) /\ (rset'.step = "renumber" => conf' = rset'.to)
  BY <1>2 DEF OrderInv
<1>7. \A d \in Cmds : cmd'[d].at \notin Waits => cmd'[d].rng = conf' BY <1>1, <1>2 DEF OrderInv
<1>8. \A d \in Cmds : cmd'[d].at \notin Waits \cup {"renumber"} /\ ledger'.rec = NoRange => ledger'.nums = NoNums
  BY <1>1 DEF OrderInv
<1> QED BY <1>3, <1>4, <1>5, <1>6, <1>7, <1>8 DEF OrderInv

\* The same when the ledger is left alone.
LEMMA OrderStays ==
    ASSUME CmdInv, OrderInv, NEW c \in Cmds, NEW k, cmd' = [cmd EXCEPT ![c] = k], UNCHANGED <<rset, conf, ledger>>,
           cmd[c].at \in Waits => k.at \in Waits,
           cmd[c].at \in Waits \cup {"renumber"} => k.at \in Waits \cup {"renumber"},
           k.at \notin Waits => k.rng = cmd[c].rng
    PROVE  OrderInv'
<1>1. k.at \notin Waits => k.rng = conf BY DEF OrderInv
<1>2. rset.step # "none" => k.at \in Waits BY DEF OrderInv
<1>3. k.at \notin Waits \cup {"renumber"} /\ ledger'.rec = NoRange => ledger'.nums = NoNums BY DEF OrderInv
<1>4. Lawful(ledger') BY DEF OrderInv
<1> QED BY <1>1, <1>2, <1>3, <1>4, OrderGoesOn

\* The ledger, and who is at work, are as they were.
LEMMA OrderUnchanged ==
    ASSUME OrderInv, UNCHANGED <<rset, conf, ledger, cmd>>
    PROVE  OrderInv'
BY DEF OrderInv

\* A command at work has the range of tacctl.yaml; past its renumbering, so has the ledger.
LEMMA CmdFacts ==
    ASSUME IInv, OrderInv, NEW c \in Cmds
    PROVE  /\ cmd[c] \in Commanding
           /\ cmd[c].at \notin Waits => rset.step = "none" /\ cmd[c].rng = conf /\ conf \in All
           /\ cmd[c].at \notin Waits \cup {"renumber"} => ledger.rec = cmd[c].rng \/ Absent(ledger)
<1>1. cmd[c] \in Commanding BY DEF IInv, CmdInv
<1>2. cmd[c].at \notin Waits => rset.step = "none" /\ cmd[c].rng = conf /\ conf \in All BY DEF OrderInv
<1>3. cmd[c].at \notin Waits \cup {"renumber"} => ledger.rec = cmd[c].rng \/ Absent(ledger)
  BY <1>2 DEF OrderInv, Absent
<1> QED BY <1>1, <1>2, <1>3

\* At the start the ledger is in the legacy range or empty, and no one is at work.
LEMMA InitOrder == ASSUME Init PROVE OrderInv
<1> USE DEF Init
<1>1. IInv BY InitIInv
<1>2. ledger \in Ledgers /\ ledger.rec = NoRange /\ ledger.prev = <<>> BY <1>1 DEF IInv, LedgerInv
<1>3. \A n \in Names : ledger.nums[n] \in {0, Legacy.min} BY DEF NoNums
<1>4. Lawful(ledger) BY <1>2, <1>3 DEF Lawful
<1>5. rset.step = "none" /\ rset = NoSet BY DEF NoSet
<1>6. conf \in All BY DEF All
<1>7. \A c \in Cmds : cmd[c].at = "idle" BY IdleType
<1> QED BY <1>2, <1>4, <1>5, <1>6, <1>7 DEF OrderInv, Waits

\* The store's writers: of the ledger, only a rename moves a line.
LEMMA StoreOrder ==
    ASSUME RangesApart, IInv, OrderInv, ren # NoRen => ren[1] # ren[2], StoreWrites
    PROVE  OrderInv'
<1>1. ASSUME NEW n \in Names, UserAdd(n) PROVE OrderInv' BY <1>1, OrderUnchanged DEF UserAdd
<1>2. ASSUME NEW n \in Names, UserRemove(n) PROVE OrderInv' BY <1>2, OrderUnchanged DEF UserRemove
<1>3. ASSUME NEW n \in Names, UserToggle(n) PROVE OrderInv' BY <1>3, OrderUnchanged DEF UserToggle
<1>4. ASSUME NEW old \in Names, NEW new \in Names, RenameStore(old, new) PROVE OrderInv'
  BY <1>4, OrderUnchanged DEF RenameStore
<1>5. ASSUME MoveUID PROVE OrderInv'
  <2>1. ren[1] \in Names /\ ren[2] \in Names /\ ren[1] # ren[2]
    BY <1>5 DEF MoveUID, IInv, StoreInv
  <2>2. ledger' = Moved(ledger, ren[1], ren[2]) /\ UNCHANGED <<conf, cmd, rset>> BY <1>5 DEF MoveUID
  <2>3. CASE ledger.nums[ren[1]] = 0 \/ ledger.nums[ren[2]] # 0
    <3>1. ledger' = ledger BY <2>2, <2>3 DEF Moved
    <3> QED BY <2>2, <3>1, OrderUnchanged
  <2>4. CASE ledger.nums[ren[1]] # 0 /\ ledger.nums[ren[2]] = 0
    <3>0. Lawful(ledger) BY DEF OrderInv
    <3>1. /\ Lawful(ledger') /\ ledger'.rec = ledger.rec
          /\ \A to \in All : ~Refused(ledger, to) => ~Refused(ledger', to)
      BY <2>1, <2>2, <2>4, <3>0, MovedLawful
    <3>2. ledger.nums # NoNums BY <2>1, <2>4 DEF NoNums
    <3>3. rset.step # "none" => rset.to \in All BY DEF OrderInv, All
    <3> QED BY <2>2, <3>1, <3>2, <3>3 DEF OrderInv
  <2> QED BY <2>3, <2>4
<1> QED BY <1>1, <1>2, <1>3, <1>4, <1>5 DEF StoreWrites

\* A change of the range: what the check allowed is still allowed at the renumbering.
LEMMA RangeOrder == ASSUME RangesApart, RangeAlone, IInv, OrderInv, RangeChange PROVE OrderInv'
<1>1. ASSUME NEW r \in Ranges, RangeCheck(r) PROVE OrderInv'
  <2>1. rset' = [step |-> "min", to |-> r] /\ UNCHANGED <<conf, ledger, cmd>> /\ ~Refused(ledger, r)
    BY <1>1 DEF RangeCheck
  <2>2. \A c \in Cmds : cmd[c].at \in Waits BY <1>1 DEF RangeCheck, Waits
  <2>3. rset'.step = "min" /\ rset'.to = r BY <2>1
  <2> QED BY <2>1, <2>2, <2>3 DEF OrderInv
<1>2. ASSUME RangeMin PROVE OrderInv'
  <2>1. rset.step = "min" /\ conf' = [conf EXCEPT !.min = rset.to.min]
        /\ rset' = [rset EXCEPT !.step = "max"] /\ UNCHANGED <<ledger, cmd>>
    BY <1>2 DEF RangeMin
  <2>2. rset'.step = "max" /\ rset'.to = rset.to /\ conf'.min = rset.to.min
    BY <2>1 DEF IInv, RangeInv, Usable, Rng
  <2> QED BY <2>1, <2>2 DEF OrderInv, Waits
<1>3. ASSUME RangeMax PROVE OrderInv'
  <2>1. rset.step = "max" /\ conf' = [conf EXCEPT !.max = rset.to.max]
        /\ rset' = [rset EXCEPT !.step = "renumber"] /\ UNCHANGED <<ledger, cmd>>
    BY <1>3 DEF RangeMax
  <2>2. rset'.step = "renumber" /\ rset'.to = rset.to /\ conf \in Rng /\ rset.to \in Rng
    BY <2>1 DEF IInv, RangeInv, Usable
  <2>3. conf.min = rset.to.min BY <2>1 DEF OrderInv
  <2>4. conf' = rset.to BY <2>1, <2>2, <2>3 DEF Rng
  <2> QED BY <2>1, <2>2, <2>4 DEF OrderInv, Waits
<1>4. ASSUME RangeDone PROVE OrderInv'
  <2>1. rset.step = "renumber" /\ rset' = NoSet /\ UNCHANGED <<conf, cmd>>
    BY <1>4 DEF RangeDone
  <2>2. /\ rset.to \in All /\ ~Refused(ledger, rset.to) /\ conf = rset.to /\ Lawful(ledger)
        /\ \A c \in Cmds : cmd[c].at \in Waits
    BY <2>1 DEF OrderInv, All
  <2>3. ledger' = Renumbered(ledger, rset.to) BY <1>4, <2>2 DEF RangeDone
  <2>4. Lawful(ledger') /\ (ledger'.rec = conf \/ ledger'.rec = NoRange)
    BY <2>2, <2>3, RenumberedLawful DEF Absent
  <2>5. rset'.step = "none" BY <2>1 DEF NoSet
  <2> QED BY <2>1, <2>2, <2>4, <2>5 DEF OrderInv
<1> QED BY <1>1, <1>2, <1>3, <1>4 DEF RangeChange

\* The commands: each works with the range it read, which nobody changes meanwhile.
LEMMA CommandOrder ==
    ASSUME RangesApart, RangeAlone, IInv, OrderInv, NEW c \in Cmds, Commands(c) \/ Done(c)
    PROVE  OrderInv'
<1>0. CmdInv BY DEF IInv
<1> USE CmdFacts DEF Waits
<1>00. cmd[c] \in Commanding BY CmdFacts
<1>1. ASSUME NEW kind \in {"sync", "assign"}, Begin(c, kind) PROVE OrderInv'
  <2> DEFINE k == [Idle EXCEPT !.kind = kind, !.at = "renumber", !.rng = conf]
  <2>1. k.at = "renumber" /\ k.rng = conf
    BY IdleType DEF Commanding, Places
  <2>2. cmd' = [cmd EXCEPT ![c] = k] /\ UNCHANGED <<rset, conf, ledger>> /\ rset = NoSet BY <1>1 DEF Begin
  <2> HIDE DEF k
  <2>3. rset.step = "none" BY <2>2 DEF NoSet
  <2>4. Lawful(ledger') BY <2>2 DEF OrderInv
  <2> QED BY <1>0, <2>1, <2>2, <2>3, <2>4, OrderGoesOn
<1>2. ASSUME Renumber(c) PROVE OrderInv'
  <2>1. cmd[c].at = "renumber" BY <1>2 DEF Renumber, At
  <2>2. rset.step = "none" /\ cmd[c].rng = conf /\ conf \in All BY <2>1
  <2>3. Lawful(ledger) /\ (ledger.rec = NoRange \/ ledger.rec = conf) BY <2>2 DEF OrderInv
  <2>4. ~Refused(ledger, conf) BY <2>2, <2>3, OwnRangeNotRefused
  <2> DEFINE k == IF cmd[c].kind = "assign" THEN [cmd[c] EXCEPT !.at = "assign"]
                  ELSE [cmd[c] EXCEPT !.at = "rows"]
  <2>5. ledger' = Renumbered(ledger, conf) /\ cmd' = [cmd EXCEPT ![c] = k] /\ UNCHANGED <<rset, conf>>
    BY <1>2, <2>2, <2>4 DEF Renumber
  <2>6. k.rng = conf /\ k.at \in {"assign", "rows"} BY <1>00, <2>2 DEF Commanding
  <2> HIDE DEF k
  <2>7. Lawful(ledger') /\ (ledger'.rec = conf \/ (Absent(ledger) /\ ledger' = ledger))
    BY <2>2, <2>3, <2>4, <2>5, RenumberedLawful
  <2>8. conf # NoRange BY <2>2, AllType
  <2> QED BY <1>0, <2>2, <2>5, <2>6, <2>7, <2>8, OrderGoesOn DEF Absent
<1>3. ASSUME NEW n \in Names, NEW r \in Ranges, NEW u \in r.min .. r.max, Assign(c, n, u) PROVE OrderInv'
  <2>1. cmd[c].at = "assign" BY <1>3 DEF Assign, At
  <2>2. /\ rset.step = "none" /\ cmd[c].rng = conf /\ conf \in All
        /\ ledger.rec = conf \/ Absent(ledger)
    BY <2>1
  <2>3. u \in Nat /\ Has(conf, u) BY <1>3, <2>2, RangeAssumption DEF Assign
  <2>4. /\ ledger' = Assigned(ledger, conf, n, u) /\ cmd' = [cmd EXCEPT ![c] = Idle] /\ UNCHANGED <<rset, conf>>
    BY <1>3, <2>2 DEF Assign
  <2>5. Lawful(ledger) BY DEF OrderInv
  <2>6. Lawful(ledger') /\ ledger'.rec = conf BY <2>2, <2>3, <2>4, <2>5, AssignedLawful
  <2>7. conf # NoRange BY <2>2, AllType
  <2> QED BY <1>0, <2>2, <2>4, <2>6, <2>7, IdleType, OrderGoesOn
<1>4. ASSUME ReadRows(c) PROVE OrderInv'
  <2> DEFINE k == [cmd[c] EXCEPT !.at = "lock",
                  !.rows = [active |-> {n \in Names : status[n] = "active"},
                            inactive |-> {n \in Names : status[n] = "disabled"},
                            who |-> who]]
  <2>1. cmd[c].at = "rows" /\ cmd' = [cmd EXCEPT ![c] = k] /\ UNCHANGED <<rset, conf, ledger>>
    BY <1>4 DEF ReadRows, At
  <2>2. k.at = "lock" /\ k.rng = cmd[c].rng BY <1>00 DEF Commanding
  <2> HIDE DEF k
  <2> QED BY <1>0, <2>1, <2>2, OrderStays
<1>5. ASSUME BuildBegin(c) PROVE OrderInv'
  <2> DEFINE k == [cmd[c] EXCEPT !.at = "for", !.todo = cmd[c].rows.active]
  <2>1. cmd[c].at = "lock" /\ cmd' = [cmd EXCEPT ![c] = k] /\ UNCHANGED <<rset, conf, ledger>>
    BY <1>5 DEF BuildBegin, At
  <2>2. k.at = "for" /\ k.rng = cmd[c].rng BY <1>00 DEF Commanding
  <2> HIDE DEF k
  <2> QED BY <1>0, <2>1, <2>2, OrderStays
<1>6. ASSUME NEW n \in Names, For(c, n) PROVE OrderInv'
  <2> DEFINE k == [cmd[c] EXCEPT !.todo = cmd[c].todo \ {n}]
  <2>1. cmd[c].at = "for" /\ cmd' = [cmd EXCEPT ![c] = k] /\ UNCHANGED <<rset, conf>>
    BY <1>6 DEF For, At
  <2>2. k.at = "for" /\ k.rng = cmd[c].rng BY <1>00, <2>1 DEF Commanding
  <2> HIDE DEF k
  <2>3. CASE ledger.nums[n] # 0
    <3>1. UNCHANGED ledger BY <1>6, <2>3 DEF For
    <3> QED BY <1>0, <2>1, <2>2, <3>1, OrderStays
  <2>4. CASE ledger.nums[n] = 0
    <3>1. /\ rset.step = "none" /\ cmd[c].rng = conf /\ conf \in All
          /\ ledger.rec = conf \/ Absent(ledger)
      BY <2>1
    <3>2. ledger' = Assigned(ledger, conf, n, NextUID(ledger, conf)) /\ NextUID(ledger, conf) <= conf.max
      BY <1>6, <2>4, <3>1, WithLineIs DEF For
    <3>3. Lawful(ledger) BY DEF OrderInv
    <3>4. Usable(conf) BY DEF IInv, RangeInv
    <3>5. NextUID(ledger, conf) \in Nat /\ NextUID(ledger, conf) >= conf.min
      BY <3>3, <3>4, NextIsNew DEF Lawful
    <3>6. Has(conf, NextUID(ledger, conf)) BY <3>2, <3>5 DEF Has
    <3>7. Lawful(ledger') /\ ledger'.rec = conf BY <3>1, <3>2, <3>3, <3>5, <3>6, AssignedLawful
    <3>8. conf # NoRange BY <3>1, AllType
    <3> QED BY <1>0, <2>1, <2>2, <3>1, <3>7, <3>8, OrderGoesOn
  <2> QED BY <2>3, <2>4
<1>7. ASSUME NEW n \in Names, RangeFull(c, n) PROVE OrderInv'
  <2>1. cmd' = [cmd EXCEPT ![c] = Idle] /\ UNCHANGED <<rset, conf, ledger>> BY <1>7 DEF RangeFull
  <2> QED BY <1>0, <2>1, IdleType, OrderStays
<1>8. ASSUME BuildEnd(c) PROVE OrderInv'
  <2> DEFINE k == [cmd[c] EXCEPT !.at = "built", !.script = ScriptOf(c)]
  <2>1. cmd' = [cmd EXCEPT ![c] = k] /\ UNCHANGED <<rset, conf, ledger>> BY <1>8 DEF BuildEnd
  <2>2. k.at = "built" BY <1>00 DEF Commanding
  <2> HIDE DEF k
  <2> QED BY <1>0, <2>1, <2>2, OrderStays
<1>9. ASSUME Done(c) PROVE OrderInv'
  <2>1. cmd' = [cmd EXCEPT ![c] = Idle] /\ UNCHANGED <<rset, conf, ledger>> BY <1>9 DEF Done
  <2> QED BY <1>0, <2>1, IdleType, OrderStays
<1> QED BY <1>1, <1>2, <1>3, <1>4, <1>5, <1>6, <1>7, <1>8, <1>9 DEF Commands

-----------------------------------------------------------------------------
(***************************************************************************)
(* A name stands for one person.                                           *)
(***************************************************************************)
\* Everybody a name stands for: in the store, in the ledger and in what the commands read.
Standing(w, l, k, n) == ({w[n], l[n]} \cup {k[c].rows.who[n] : c \in Cmds}) \ {0}

\* They are one person, or nobody.
Agreed(S) == \A p, q \in S : p = q

\* A name stands for one person, also while a rename is between its two halves.
StandInv ==
    /\ \A n \in Names : /\ Agreed(Standing(who, line, cmd, n))
                        /\ Standing(who, line, cmd, n) # {} => n \in used.names
    /\ ren # NoRen => /\ ren[1] # ren[2] /\ ren[2] \in used.names
                      /\ Agreed(Standing(who, line, cmd, ren[1]) \cup Standing(who, line, cmd, ren[2]))

\* Whoever is a user is somebody, and so is whoever has a line.
RowsInv ==
    /\ \A n \in Names : status[n] # "none" => who[n] # 0
    /\ \A n \in Names : ledger.nums[n] # 0 <=> line[n] # 0
    /\ \A c \in Cmds : /\ \A n \in cmd[c].rows.active \cup cmd[c].rows.inactive : cmd[c].rows.who[n] # 0
                       /\ cmd[c].at = "for" => cmd[c].todo \subseteq cmd[c].rows.active

\* No name stands for anyone it did not stand for.
LEMMA StandStays ==
    ASSUME StandInv, IInv,
           \A n \in Names : /\ who'[n] \in Standing(who, line, cmd, n) \cup {0}
                            /\ line'[n] \in Standing(who, line, cmd, n) \cup {0}
                            /\ \A c \in Cmds : cmd'[c].rows.who[n] \in Standing(who, line, cmd, n) \cup {0},
           used.names \subseteq used'.names, ren' \in {ren, NoRen}
    PROVE  StandInv'
<1>1. \A n \in Names : Standing(who', line', cmd', n) \subseteq Standing(who, line, cmd, n) BY DEF Standing
<1>2. \A n \in Names : /\ Agreed(Standing(who', line', cmd', n))
                       /\ Standing(who', line', cmd', n) # {} => n \in used'.names
  BY <1>1 DEF StandInv, Agreed
<1>3. ASSUME ren' # NoRen
      PROVE  /\ ren'[1] # ren'[2] /\ ren'[2] \in used'.names
             /\ Agreed(Standing(who', line', cmd', ren'[1]) \cup Standing(who', line', cmd', ren'[2]))
  <2>1. ren' = ren BY <1>3
  <2>2. ren[1] \in Names /\ ren[2] \in Names BY <1>3, <2>1 DEF IInv, StoreInv
  <2> QED BY <1>1, <1>3, <2>1, <2>2 DEF StandInv, Agreed
<1> QED BY <1>2, <1>3 DEF StandInv

\* Where a name stands for somebody.
LEMMA StandsFor ==
    ASSUME NEW n \in Names
    PROVE  /\ who[n] \in Standing(who, line, cmd, n) \cup {0}
           /\ line[n] \in Standing(who, line, cmd, n) \cup {0}
           /\ \A c \in Cmds : cmd[c].rows.who[n] \in Standing(who, line, cmd, n) \cup {0}
BY DEF Standing

\* At the start one name stands for one person.
LEMMA InitPeople == ASSUME Init PROVE StandInv /\ RowsInv
<1> USE DEF Init
<1>1. First \in Names BY RangeAssumption DEF First
<1>2. \A c \in Cmds : cmd[c].rows = NoRows /\ cmd[c].todo = {} BY DEF Idle
<1>3. \A c \in Cmds, n \in Names : cmd[c].rows.who[n] = 0 BY <1>2 DEF NoRows, NoNums
<1>4. \A n \in Names : who[n] \in {0, 1} /\ line[n] \in {0, 1} /\ (n # First => who[n] = 0 /\ line[n] = 0)
  OBVIOUS
<1>5. \A n \in Names : Standing(who, line, cmd, n) \subseteq {1} /\ (n # First => Standing(who, line, cmd, n) = {})
  BY <1>3, <1>4 DEF Standing
<1>6. StandInv BY <1>1, <1>5 DEF StandInv, Agreed
<1>7. \A n \in Names : ledger.nums[n] # 0 <=> line[n] # 0
  <2>1. Legacy.min # 0 BY AllType DEF All
  <2> QED BY <1>1, <2>1 DEF NoNums
<1>8. RowsInv BY <1>2, <1>7 DEF RowsInv, NoRows
<1> QED BY <1>6, <1>8

\* The store's writers: a new person gets a name that never stood for anybody.
LEMMA StorePeople ==
    ASSUME ~ReuseNames, RangesApart, IInv, OrderInv, StandInv, RowsInv, StoreWrites
    PROVE  StandInv' /\ RowsInv'
<1>0. /\ who \in [Names -> Nat] /\ line \in [Names -> Nat] /\ status \in [Names -> {"none", "active", "disabled"}]
      /\ used \in Spending /\ ledger.nums \in [Names -> Nat] /\ ledger \in Ledgers
  BY RangeAssumption DEF IInv, StoreInv, LedgerInv, Ledgers
<1>1. ASSUME NEW n \in Names, UserAdd(n) PROVE StandInv' /\ RowsInv'
  <2>0. /\ ren = NoRen /\ status' = [status EXCEPT ![n] = "active"]
        /\ UNCHANGED <<ledger, cmd, ren, line>>
    BY <1>1 DEF UserAdd
  <2>1. CASE ledger.nums[n] # 0 /\ who[n] # 0
    <3>1. UNCHANGED <<who, used>> BY <1>1, <2>1 DEF UserAdd
    <3>2. StandInv' BY <2>0, <3>1, StandsFor, StandStays
    <3>3. RowsInv' BY <1>0, <2>0, <2>1, <3>1 DEF RowsInv
    <3> QED BY <3>2, <3>3
  <2>2. CASE ~(ledger.nums[n] # 0 /\ who[n] # 0)
    <3>1. /\ n \notin used.names /\ who' = [who EXCEPT ![n] = used.people + 1]
          /\ used' = [used EXCEPT !.people = @ + 1, !.names = @ \cup {n}]
      BY <1>1, <2>2 DEF UserAdd, NameFree
    <3>2. used'.names = used.names \cup {n} /\ used.people \in Nat BY <1>0, <3>1, RangeAssumption DEF Spending
    <3>3. Standing(who, line, cmd, n) = {} BY <3>1 DEF StandInv
    <3>4. Standing(who', line', cmd', n) \subseteq {used.people + 1} BY <1>0, <2>0, <3>1, <3>3 DEF Standing
    <3>5. \A m \in Names : m # n => Standing(who', line', cmd', m) = Standing(who, line, cmd, m)
      BY <1>0, <2>0, <3>1 DEF Standing
    <3>6. \A m \in Names : /\ Agreed(Standing(who', line', cmd', m))
                           /\ Standing(who', line', cmd', m) # {} => m \in used'.names
      BY <3>2, <3>4, <3>5 DEF StandInv, Agreed
    <3>7. StandInv' BY <2>0, <3>6 DEF StandInv
    <3>8. RowsInv' BY <1>0, <2>0, <3>1, <3>2 DEF RowsInv
    <3> QED BY <3>7, <3>8
  <2> QED BY <2>1, <2>2
<1>2. ASSUME NEW n \in Names, UserRemove(n) PROVE StandInv' /\ RowsInv'
  <2>1. /\ status' = [status EXCEPT ![n] = "none"] /\ used' = [used EXCEPT !.changes = @ + 1]
        /\ UNCHANGED <<who, ledger, cmd, ren, line>>
    BY <1>2 DEF UserRemove
  <2>2. used'.names = used.names BY <1>0, <2>1 DEF Spending
  <2>3. StandInv' BY <2>1, <2>2, StandsFor, StandStays
  <2>4. RowsInv' BY <1>0, <2>1 DEF RowsInv
  <2> QED BY <2>3, <2>4
<1>3. ASSUME NEW n \in Names, UserToggle(n) PROVE StandInv' /\ RowsInv'
  <2>1. /\ status[n] # "none" /\ status' = [status EXCEPT ![n] = IF @ = "active" THEN "disabled" ELSE "active"]
        /\ used' = [used EXCEPT !.changes = @ + 1]
        /\ UNCHANGED <<who, ledger, cmd, ren, line>>
    BY <1>3 DEF UserToggle
  <2>2. used'.names = used.names BY <1>0, <2>1 DEF Spending
  <2>3. StandInv' BY <2>1, <2>2, StandsFor, StandStays
  <2>4. RowsInv' BY <1>0, <2>1 DEF RowsInv
  <2> QED BY <2>3, <2>4
<1>4. ASSUME NEW old \in Names, NEW new \in Names, RenameStore(old, new) PROVE StandInv' /\ RowsInv'
  <2>1. /\ status[old] # "none" /\ status[new] = "none" /\ new \notin used.names
        /\ status' = [status EXCEPT ![new] = status[old], ![old] = "none"]
        /\ who' = [who EXCEPT ![new] = who[old], ![old] = 0] /\ ren' = <<old, new>>
        /\ used' = [used EXCEPT !.renames = @ + 1, !.names = @ \cup {new}]
        /\ UNCHANGED <<ledger, cmd, line>>
    BY <1>4 DEF RenameStore, NameFree
  <2>2. old # new /\ who[old] # 0 BY <2>1 DEF RowsInv
  <2>3. used'.names = used.names \cup {new} BY <1>0, <2>1 DEF Spending
  <2>4. Standing(who, line, cmd, new) = {} BY <2>1 DEF StandInv
  <2>5. who'[new] = who[old] /\ who'[old] = 0 /\ \A m \in Names : m # old /\ m # new => who'[m] = who[m]
    BY <1>0, <2>1, <2>2
  <2>6. Standing(who', line', cmd', new) \subseteq {who[old]} BY <2>1, <2>4, <2>5 DEF Standing
  <2>7. \A m \in Names : m # new => Standing(who', line', cmd', m) \subseteq Standing(who, line, cmd, m)
    BY <2>1, <2>2, <2>5 DEF Standing
  <2>8. \A m \in Names : /\ Agreed(Standing(who', line', cmd', m))
                         /\ Standing(who', line', cmd', m) # {} => m \in used'.names
    BY <2>3, <2>6, <2>7 DEF StandInv, Agreed
  <2>9. who[old] \in Standing(who, line, cmd, old) BY <2>2 DEF Standing
  <2>10. Agreed(Standing(who', line', cmd', old) \cup Standing(who', line', cmd', new))
    BY <2>2, <2>6, <2>7, <2>9 DEF StandInv, Agreed
  <2>11. StandInv'
    <3>1. ren'[1] = old /\ ren'[2] = new BY <2>1
    <3> QED BY <2>2, <2>3, <2>8, <2>10, <3>1 DEF StandInv
  <2>12. \A m \in Names : status'[m] # "none" => who'[m] # 0 BY <1>0, <2>1, <2>2, <2>5 DEF RowsInv
  <2>13. RowsInv' BY <2>1, <2>12 DEF RowsInv
  <2> QED BY <2>11, <2>13
<1>5. ASSUME MoveUID PROVE StandInv' /\ RowsInv'
  <2>0. UNCHANGED <<status, who, cmd, used>> /\ ren # NoRen /\ ren' = NoRen BY <1>5 DEF MoveUID
  <2>1. ren[1] \in Names /\ ren[2] \in Names /\ ren[1] # ren[2]
    BY <1>5 DEF MoveUID, IInv, StoreInv, StandInv
  <2>2. CASE ledger.nums[ren[1]] = 0 \/ ledger.nums[ren[2]] # 0
    <3>1. ledger' = ledger /\ line' = line BY <1>5, <2>2 DEF MoveUID, Moved
    <3>2. StandInv' BY <2>0, <3>1, StandsFor, StandStays
    <3>3. RowsInv' BY <2>0, <3>1 DEF RowsInv
    <3> QED BY <3>2, <3>3
  <2>3. CASE ledger.nums[ren[1]] # 0 /\ ledger.nums[ren[2]] = 0
    <3> DEFINE old == ren[1]
               new == ren[2]
    <3>0. Lawful(ledger) BY DEF OrderInv
    <3>1. /\ ledger'.nums[new] = ledger.nums[old] /\ ledger'.nums[old] = 0
          /\ \A n \in Names : n # old /\ n # new => ledger'.nums[n] = ledger.nums[n]
      BY <1>5, <2>1, <2>3, <3>0, MovedLawful DEF MoveUID
    <3>2. ledger' # ledger BY <2>3, <3>1
    <3>3. line' = [line EXCEPT ![new] = line[old], ![old] = 0] BY <1>5, <3>2 DEF MoveUID
    <3>4. line'[new] = line[old] /\ line'[old] = 0 /\ \A n \in Names : n # old /\ n # new => line'[n] = line[n]
      BY <1>0, <2>1, <3>3
    <3>5. line[old] # 0 /\ line[new] = 0 BY <2>1, <2>3 DEF RowsInv
    <3>6. line[old] \in Standing(who, line, cmd, old) BY <3>5 DEF Standing
    <3>7. Agreed(Standing(who, line, cmd, old) \cup Standing(who, line, cmd, new)) BY <2>0 DEF StandInv
    <3> HIDE DEF old, new
    <3>8. Standing(who', line', cmd', new) \subseteq Standing(who, line, cmd, new) \cup {line[old]}
      BY <2>0, <3>4 DEF Standing
    <3>9. \A m \in Names : m # new => Standing(who', line', cmd', m) \subseteq Standing(who, line, cmd, m)
      <4> TAKE m \in Names
      <4>1. line'[m] \in {0, line[m]} \/ m = new BY <3>4
      <4> QED BY <2>0, <4>1 DEF Standing
    <3>10. new \in used.names
      <4>1. ren[2] \in used.names
        BY <2>0 DEF StandInv
      <4> QED BY <4>1 DEF new
    <3>11. \A m \in Names : /\ Agreed(Standing(who', line', cmd', m))
                            /\ Standing(who', line', cmd', m) # {} => m \in used'.names
      BY <2>0, <3>6, <3>7, <3>8, <3>9, <3>10 DEF StandInv, Agreed
    <3>12. StandInv' BY <2>0, <3>11 DEF StandInv
    <3>13. \A n \in Names : ledger'.nums[n] # 0 <=> line'[n] # 0
      BY <2>1, <2>3, <3>1, <3>4, <3>5 DEF RowsInv, old, new
    <3>14. RowsInv' BY <2>0, <3>13 DEF RowsInv
    <3> QED BY <3>12, <3>14
  <2> QED BY <2>2, <2>3
<1> QED BY <1>1, <1>2, <1>3, <1>4, <1>5 DEF StoreWrites

\* A change of the range leaves the names alone.
LEMMA RangePeople ==
    ASSUME RangesApart, IInv, OrderInv, StandInv, RowsInv, RangeChange
    PROVE  StandInv' /\ RowsInv'
<1>0. UNCHANGED <<status, who, cmd, ren, line>>
  BY DEF RangeChange, RangeCheck, RangeMin, RangeMax, RangeDone
<1>1. used.names \subseteq used'.names
  <2>1. used \in Spending BY DEF IInv, StoreInv
  <2> QED BY <2>1 DEF RangeChange, RangeCheck, RangeMin, RangeMax, RangeDone, Spending
<1>2. StandInv' BY <1>0, <1>1, StandsFor, StandStays
<1>3. \A n \in Names : ledger'.nums[n] = 0 <=> ledger.nums[n] = 0
  <2>1. CASE ledger' = ledger BY <2>1
  <2>2. CASE RangeDone
    <3>1. rset.step = "renumber" BY <2>2 DEF RangeDone
    <3>2. rset.to \in All /\ ~Refused(ledger, rset.to) /\ Lawful(ledger) BY <3>1 DEF OrderInv, All
    <3>3. ledger' = Renumbered(ledger, rset.to) BY <2>2, <3>2 DEF RangeDone
    <3> QED BY <3>2, <3>3, RenumberedLawful
  <2> QED BY <2>1, <2>2 DEF RangeChange, RangeCheck, RangeMin, RangeMax
<1>4. RowsInv' BY <1>0, <1>3 DEF RowsInv
<1> QED BY <1>2, <1>4

\* A command's step that leaves the store alone.
LEMMA PeopleGoOn ==
    ASSUME IInv, StandInv, RowsInv, NEW c \in Cmds, NEW k, cmd' = [cmd EXCEPT ![c] = k],
           UNCHANGED <<status, who, ren>>, used.names \subseteq used'.names,
           \A n \in Names : line'[n] \in Standing(who, line, cmd, n) \cup {0},
           \A n \in Names : k.rows.who[n] \in Standing(who, line, cmd, n) \cup {0},
           \A n \in Names : ledger'.nums[n] # 0 <=> line'[n] # 0,
           \A n \in k.rows.active \cup k.rows.inactive : k.rows.who[n] # 0,
           k.at = "for" => k.todo \subseteq k.rows.active
    PROVE  StandInv' /\ RowsInv'
<1>1. \A d \in Cmds : cmd'[d] = IF d = c THEN k ELSE cmd[d] BY DEF IInv, CmdInv
<1>2. \A n \in Names : \A d \in Cmds : cmd'[d].rows.who[n] \in Standing(who, line, cmd, n) \cup {0}
  BY <1>1, StandsFor
<1>3. StandInv' BY <1>2, StandsFor, StandStays
<1>4. RowsInv' BY <1>1 DEF RowsInv
<1> QED BY <1>3, <1>4

\* The same when its rows stay, or it ends.
LEMMA PeopleStay ==
    ASSUME IInv, StandInv, RowsInv, NEW c \in Cmds, NEW k, cmd' = [cmd EXCEPT ![c] = k],
           UNCHANGED <<status, who, ren, line>>, used.names \subseteq used'.names,
           \A n \in Names : ledger'.nums[n] = 0 <=> ledger.nums[n] = 0,
           k = Idle \/ (k.rows = cmd[c].rows /\ (k.at = "for" => k.todo \subseteq cmd[c].rows.active))
    PROVE  StandInv' /\ RowsInv'
<1>1. \A n \in Names : line'[n] \in Standing(who, line, cmd, n) \cup {0} BY StandsFor
<1>2. \A n \in Names : ledger'.nums[n] # 0 <=> line'[n] # 0 BY DEF RowsInv
<1>3. CASE k = Idle
  <2>1. k.rows = NoRows /\ k.todo = {} BY <1>3 DEF Idle
  <2>2. NoRows.active = {} /\ NoRows.inactive = {} /\ \A n \in Names : NoRows.who[n] = 0 BY DEF NoRows, NoNums
  <2> QED BY <1>1, <1>2, <2>1, <2>2, PeopleGoOn
<1>4. CASE k.rows = cmd[c].rows /\ (k.at = "for" => k.todo \subseteq cmd[c].rows.active)
  <2>1. \A n \in Names : k.rows.who[n] \in Standing(who, line, cmd, n) \cup {0} BY <1>4, StandsFor
  <2>2. \A n \in k.rows.active \cup k.rows.inactive : k.rows.who[n] # 0 BY <1>4 DEF RowsInv
  <2> QED BY <1>1, <1>2, <1>4, <2>1, <2>2, PeopleGoOn
<1> QED BY <1>3, <1>4

\* The commands: a line goes to the person that the rows, however old, have for the name.
LEMMA CommandPeople ==
    ASSUME RangesApart, IInv, OrderInv, StandInv, RowsInv, NEW c \in Cmds, Commands(c) \/ Done(c)
    PROVE  StandInv' /\ RowsInv'
<1>0. cmd[c] \in Commanding /\ used \in Spending /\ line \in [Names -> Nat] /\ Lawful(ledger)
  BY CmdFacts DEF IInv, StoreInv, LedgerInv, OrderInv
<1>00. cmd[c].at = "for" => cmd[c].todo \subseteq cmd[c].rows.active BY DEF RowsInv
<1>1. ASSUME NEW kind \in {"sync", "assign"}, Begin(c, kind) PROVE StandInv' /\ RowsInv'
  <2> DEFINE k == [Idle EXCEPT !.kind = kind, !.at = "renumber", !.rng = conf]
  <2>1. k.rows = NoRows /\ k.todo = {} BY DEF Idle
  <2>2. cmd' = [cmd EXCEPT ![c] = k] /\ UNCHANGED <<status, who, ren, line, ledger, used>> BY <1>1 DEF Begin
  <2> HIDE DEF k
  <2>3. NoRows.active = {} /\ NoRows.inactive = {} /\ \A n \in Names : NoRows.who[n] = 0 BY DEF NoRows, NoNums
  <2>4. \A n \in Names : line'[n] \in Standing(who, line, cmd, n) \cup {0} BY <2>2, StandsFor
  <2>5. \A n \in Names : ledger'.nums[n] # 0 <=> line'[n] # 0 BY <2>2 DEF RowsInv
  <2> QED BY <2>1, <2>2, <2>3, <2>4, <2>5, PeopleGoOn
<1>2. ASSUME Renumber(c) PROVE StandInv' /\ RowsInv'
  <2>1. cmd[c].at = "renumber" BY <1>2 DEF Renumber, At
  <2>2. cmd[c].rng \in All BY <2>1, CmdFacts DEF Waits
  <2>3. \A n \in Names : ledger'.nums[n] = 0 <=> ledger.nums[n] = 0
    <3>1. CASE Refused(ledger, cmd[c].rng) BY <1>2, <3>1 DEF Renumber
    <3>2. CASE ~Refused(ledger, cmd[c].rng)
      <4>1. ledger' = Renumbered(ledger, cmd[c].rng) BY <1>2, <3>2 DEF Renumber
      <4> QED BY <1>0, <2>2, <3>2, <4>1, RenumberedLawful
    <3> QED BY <3>1, <3>2
  <2> DEFINE k == IF cmd[c].kind = "assign" THEN [cmd[c] EXCEPT !.at = "assign"]
                  ELSE IF Refused(ledger, cmd[c].rng) THEN Idle ELSE [cmd[c] EXCEPT !.at = "rows"]
  <2>4. cmd' = [cmd EXCEPT ![c] = k] /\ UNCHANGED <<status, who, ren, line, used>> BY <1>2 DEF Renumber
  <2>5. k = Idle \/ (k.rows = cmd[c].rows /\ k.at # "for") BY <1>0 DEF Commanding
  <2> HIDE DEF k
  <2> QED BY <2>3, <2>4, <2>5, PeopleStay
<1>3. ASSUME NEW n \in Names, NEW r \in Ranges, NEW u \in r.min .. r.max, Assign(c, n, u)
      PROVE  StandInv' /\ RowsInv'
  <2>1. cmd[c].at = "assign" /\ status[n] # "none" BY <1>3 DEF Assign, At
  <2>2. cmd[c].rng \in All /\ (ledger.rec = cmd[c].rng \/ Absent(ledger)) BY <2>1, CmdFacts DEF Waits
  <2>3. u \in Nat /\ Has(cmd[c].rng, u) BY <1>3, RangeAssumption DEF Assign
  <2>4. /\ ledger' = Assigned(ledger, cmd[c].rng, n, u) /\ cmd' = [cmd EXCEPT ![c] = Idle]
        /\ UNCHANGED <<status, who, ren>> /\ line' = [line EXCEPT ![n] = who[n]]
        /\ used' = [used EXCEPT !.assigns = @ + 1]
    BY <1>3 DEF Assign
  <2>5. ledger'.nums[n] = u /\ u # 0 /\ \A m \in Names : m # n => ledger'.nums[m] = ledger.nums[m]
    BY <1>0, <2>2, <2>3, <2>4, AssignedLawful
  <2>6. used'.names = used.names BY <1>0, <2>4 DEF Spending
  <2>7. line'[n] = who[n] /\ \A m \in Names : m # n => line'[m] = line[m] BY <1>0, <2>4
  <2>8. who[n] # 0 BY <2>1 DEF RowsInv
  <2>9. \A m \in Names : ledger'.nums[m] # 0 <=> line'[m] # 0 BY <2>5, <2>7, <2>8 DEF RowsInv
  <2>10. \A m \in Names : line'[m] \in Standing(who, line, cmd, m) \cup {0} BY <2>7, StandsFor
  <2>11. Idle.rows = NoRows /\ Idle.todo = {} BY DEF Idle
  <2>12. NoRows.active = {} /\ NoRows.inactive = {} /\ \A m \in Names : NoRows.who[m] = 0 BY DEF NoRows, NoNums
  <2> QED BY <2>4, <2>6, <2>9, <2>10, <2>11, <2>12, PeopleGoOn
<1>4. ASSUME ReadRows(c) PROVE StandInv' /\ RowsInv'
  <2> DEFINE rows == [active |-> {n \in Names : status[n] = "active"},
                      inactive |-> {n \in Names : status[n] = "disabled"}, who |-> who]
             k == [cmd[c] EXCEPT !.at = "lock", !.rows = rows]
  <2>1. cmd' = [cmd EXCEPT ![c] = k] /\ UNCHANGED <<status, who, ren, line, ledger, used>> BY <1>4 DEF ReadRows
  <2>2. k.rows = rows /\ k.at = "lock" BY <1>0 DEF Commanding
  <2>3. rows.who = who /\ \A n \in rows.active \cup rows.inactive : n \in Names /\ who[n] # 0 BY DEF RowsInv
  <2>4. \A n \in Names : line'[n] \in Standing(who, line, cmd, n) \cup {0} BY <2>1, StandsFor
  <2>5. \A n \in Names : ledger'.nums[n] # 0 <=> line'[n] # 0 BY <2>1 DEF RowsInv
  <2> HIDE DEF k, rows
  <2> QED BY <2>1, <2>2, <2>3, <2>4, <2>5, StandsFor, PeopleGoOn
<1>5. ASSUME BuildBegin(c) PROVE StandInv' /\ RowsInv'
  <2> DEFINE k == [cmd[c] EXCEPT !.at = "for", !.todo = cmd[c].rows.active]
  <2>1. cmd' = [cmd EXCEPT ![c] = k] /\ UNCHANGED <<status, who, ren, line, ledger, used>> BY <1>5 DEF BuildBegin
  <2>2. k.rows = cmd[c].rows /\ k.todo = cmd[c].rows.active BY <1>0 DEF Commanding
  <2> HIDE DEF k
  <2> QED BY <2>1, <2>2, PeopleStay
<1>6. ASSUME NEW n \in Names, For(c, n) PROVE StandInv' /\ RowsInv'
  <2> DEFINE k == [cmd[c] EXCEPT !.todo = cmd[c].todo \ {n}]
  <2>1. /\ cmd[c].at = "for" /\ cmd' = [cmd EXCEPT ![c] = k] /\ UNCHANGED <<status, who, ren, used>>
        /\ n \in cmd[c].todo
    BY <1>6 DEF For, At
  <2>2. k.rows = cmd[c].rows /\ k.todo \subseteq cmd[c].rows.active BY <1>0, <1>00, <2>1 DEF Commanding
  <2> HIDE DEF k
  <2>3. CASE ledger.nums[n] # 0
    <3>1. UNCHANGED <<ledger, line>> BY <1>6, <2>3 DEF For
    <3> QED BY <2>1, <2>2, <3>1, PeopleStay
  <2>4. CASE ledger.nums[n] = 0
    <3> DEFINE r == cmd[c].rng
               u == NextUID(ledger, r)
               p == cmd[c].rows.who[n]
    <3>1. r \in All /\ (ledger.rec = r \/ Absent(ledger)) BY <2>1, CmdFacts DEF Waits
    <3>2. ledger' = Assigned(ledger, r, n, u) /\ u <= r.max /\ line' = [line EXCEPT ![n] = p]
      BY <1>6, <2>4, WithLineIs DEF For
    <3>3. u \in Nat /\ u >= r.min BY <1>0, <3>1, AllType, NextIsNew DEF Lawful, Usable
    <3>4. Has(r, u) BY <3>2, <3>3 DEF Has
    <3> HIDE DEF u, r, p
    <3>5. ledger'.nums[n] = u /\ u # 0 /\ \A m \in Names : m # n => ledger'.nums[m] = ledger.nums[m]
      BY <1>0, <3>1, <3>2, <3>3, <3>4, AssignedLawful
    <3>6. line'[n] = p /\ \A m \in Names : m # n => line'[m] = line[m] BY <1>0, <3>2
    <3>7. p # 0 BY <1>00, <2>1 DEF RowsInv, p
    <3>8. p \in Standing(who, line, cmd, n) \cup {0} BY StandsFor DEF p
    <3>9. \A m \in Names : ledger'.nums[m] # 0 <=> line'[m] # 0 BY <3>5, <3>6, <3>7 DEF RowsInv
    <3>10. \A m \in Names : line'[m] \in Standing(who, line, cmd, m) \cup {0} BY <3>6, <3>8, StandsFor
    <3>11. \A m \in Names : k.rows.who[m] \in Standing(who, line, cmd, m) \cup {0} BY <2>2, StandsFor
    <3>12. \A m \in k.rows.active \cup k.rows.inactive : k.rows.who[m] # 0 BY <2>2 DEF RowsInv
    <3> QED BY <2>1, <2>2, <3>9, <3>10, <3>11, <3>12, PeopleGoOn
  <2> QED BY <2>3, <2>4
<1>7. ASSUME NEW n \in Names, RangeFull(c, n) PROVE StandInv' /\ RowsInv'
  <2>1. cmd' = [cmd EXCEPT ![c] = Idle] /\ UNCHANGED <<status, who, ren, line, ledger, used>>
    BY <1>7 DEF RangeFull
  <2> QED BY <2>1, PeopleStay
<1>8. ASSUME BuildEnd(c) PROVE StandInv' /\ RowsInv'
  <2> DEFINE k == [cmd[c] EXCEPT !.at = "built", !.script = ScriptOf(c)]
  <2>1. cmd' = [cmd EXCEPT ![c] = k] /\ UNCHANGED <<status, who, ren, line, ledger, used>> BY <1>8 DEF BuildEnd
  <2>2. k.rows = cmd[c].rows /\ k.at = "built" BY <1>0 DEF Commanding
  <2> HIDE DEF k
  <2> QED BY <2>1, <2>2, PeopleStay
<1>9. ASSUME Done(c) PROVE StandInv' /\ RowsInv'
  <2>1. cmd' = [cmd EXCEPT ![c] = Idle] /\ UNCHANGED <<status, who, ren, line, ledger, used>> BY <1>9 DEF Done
  <2> QED BY <2>1, PeopleStay
<1> QED BY <1>1, <1>2, <1>3, <1>4, <1>5, <1>6, <1>7, <1>8, <1>9 DEF Commands

-----------------------------------------------------------------------------
(***************************************************************************)
(* What a step may do to the ledger and to the scripts.                    *)
(***************************************************************************)
\* What any step does to the ledger, and to who was given what.
LedgerStep ==
    \/ UNCHANGED <<ledger, line, given>>
    \/ \E to \in All : ~Refused(ledger, to) /\ ledger' = Renumbered(ledger, to) /\ UNCHANGED <<line, given>>
    \/ \E old, new \in Names :
          /\ old # new /\ ledger.nums[old] # 0 /\ ledger.nums[new] = 0
          /\ ledger' = Moved(ledger, old, new)
          /\ line' = [line EXCEPT ![new] = line[old], ![old] = 0] /\ UNCHANGED given
    \/ \E r \in All, n \in Names, u \in Nat, p \in Nat :
          /\ Has(r, u) /\ (ledger.rec = r \/ Absent(ledger))
          /\ ledger' = Assigned(ledger, r, n, u)
          /\ line' = [line EXCEPT ![n] = p] /\ given' = given \cup {<<u, p>>}
          /\ used.assigns < MaxAssigns \/ (ledger.nums[n] = 0 /\ u = NextUID(ledger, r))

\* ... and to the scripts.
ScriptStep ==
    \A d \in Cmds : cmd'[d].at = "built" =>
        \/ cmd[d].at = "built" /\ cmd'[d].script = cmd[d].script
        \/ cmd[d].at = "for" /\ cmd'[d].script = ScriptOf(d) /\ UNCHANGED <<ledger, line, given>>

\* Every step is one of the four.
LEMMA LedgerSteps ==
    ASSUME RangesApart, IInv, OrderInv, StandInv, RowsInv, [Next]_vars
    PROVE  LedgerStep
<1>0. Lawful(ledger) /\ line \in [Names -> Nat] /\ who \in [Names -> Nat]
  BY RangeAssumption DEF OrderInv, IInv, LedgerInv, StoreInv
<1>1. ASSUME StoreWrites PROVE LedgerStep
  <2>1. CASE ~MoveUID
    <3>1. UNCHANGED <<ledger, line, given>>
      BY <1>1, <2>1 DEF StoreWrites, UserAdd, UserRemove, UserToggle, RenameStore
    <3> QED BY <3>1 DEF LedgerStep
  <2>2. CASE MoveUID
    <3>1. ren[1] \in Names /\ ren[2] \in Names /\ ren[1] # ren[2]
      BY <2>2 DEF MoveUID, IInv, StoreInv, StandInv
    <3>2. CASE ledger.nums[ren[1]] = 0 \/ ledger.nums[ren[2]] # 0
      <4>1. UNCHANGED <<ledger, line, given>> BY <2>2, <3>2 DEF MoveUID, Moved
      <4> QED BY <4>1 DEF LedgerStep
    <3>3. CASE ledger.nums[ren[1]] # 0 /\ ledger.nums[ren[2]] = 0
      <4>1. ledger' = Moved(ledger, ren[1], ren[2]) /\ UNCHANGED given BY <2>2 DEF MoveUID
      <4>2. ledger' # ledger BY <1>0, <3>1, <3>3, <4>1, MovedLawful
      <4>3. line' = [line EXCEPT ![ren[2]] = line[ren[1]], ![ren[1]] = 0] BY <2>2, <4>2 DEF MoveUID
      <4> QED BY <3>1, <3>3, <4>1, <4>3 DEF LedgerStep
    <3> QED BY <3>2, <3>3
  <2> QED BY <2>1, <2>2
<1>2. ASSUME RangeChange PROVE LedgerStep
  <2>1. CASE ~RangeDone
    <3>1. UNCHANGED <<ledger, line, given>> BY <1>2, <2>1 DEF RangeChange, RangeCheck, RangeMin, RangeMax
    <3> QED BY <3>1 DEF LedgerStep
  <2>2. CASE RangeDone
    <3>1. rset.step = "renumber" BY <2>2 DEF RangeDone
    <3>2. rset.to \in All /\ ~Refused(ledger, rset.to) BY <3>1 DEF OrderInv, All
    <3>3. ledger' = Renumbered(ledger, rset.to) /\ UNCHANGED <<line, given>> BY <2>2, <3>2 DEF RangeDone
    <3> QED BY <3>2, <3>3 DEF LedgerStep
  <2> QED BY <2>1, <2>2
<1>3. ASSUME NEW c \in Cmds, Commands(c) \/ Done(c) PROVE LedgerStep
  <2>1. ASSUME Renumber(c) PROVE LedgerStep
    <3>1. cmd[c].rng \in All BY <2>1, CmdFacts DEF Renumber, At, Waits
    <3>2. CASE Refused(ledger, cmd[c].rng)
      <4>1. UNCHANGED <<ledger, line, given>> BY <2>1, <3>2 DEF Renumber
      <4> QED BY <4>1 DEF LedgerStep
    <3>3. CASE ~Refused(ledger, cmd[c].rng)
      <4>1. ledger' = Renumbered(ledger, cmd[c].rng) /\ UNCHANGED <<line, given>> BY <2>1, <3>3 DEF Renumber
      <4> QED BY <3>1, <3>3, <4>1 DEF LedgerStep
    <3> QED BY <3>2, <3>3
  <2>2. ASSUME NEW n \in Names, NEW r \in Ranges, NEW u \in r.min .. r.max, Assign(c, n, u) PROVE LedgerStep
    <3>1. cmd[c].at = "assign" BY <2>2 DEF Assign, At
    <3>2. cmd[c].rng \in All /\ (ledger.rec = cmd[c].rng \/ Absent(ledger)) BY <3>1, CmdFacts DEF Waits
    <3>3. u \in Nat /\ Has(cmd[c].rng, u) BY <2>2, RangeAssumption DEF Assign
    <3>4. /\ ledger' = Assigned(ledger, cmd[c].rng, n, u) /\ line' = [line EXCEPT ![n] = who[n]]
          /\ given' = given \cup {<<u, who[n]>>} /\ used.assigns < MaxAssigns /\ who[n] \in Nat
      BY <1>0, <2>2 DEF Assign
    <3> QED BY <3>2, <3>3, <3>4 DEF LedgerStep
  <2>3. ASSUME NEW n \in Names, For(c, n) PROVE LedgerStep
    <3>1. CASE ledger.nums[n] # 0
      <4>1. UNCHANGED <<ledger, line, given>> BY <2>3, <3>1 DEF For
      <4> QED BY <4>1 DEF LedgerStep
    <3>2. CASE ledger.nums[n] = 0
      <4> DEFINE r == cmd[c].rng
                 u == NextUID(ledger, r)
                 p == cmd[c].rows.who[n]
      <4>1. r \in All /\ (ledger.rec = r \/ Absent(ledger)) BY <2>3, CmdFacts DEF Waits, For, At
      <4>2. /\ ledger' = Assigned(ledger, r, n, u) /\ u <= r.max /\ line' = [line EXCEPT ![n] = p]
            /\ given' = given \cup {<<u, p>>}
        BY <2>3, <3>2, WithLineIs DEF For
      <4>3. u \in Nat /\ u >= r.min BY <1>0, <4>1, AllType, NextIsNew DEF Lawful, Usable
      <4>4. Has(r, u) BY <4>2, <4>3 DEF Has
      <4>5. p \in Nat BY DEF IInv, CmdInv, Commanding, Rows
      <4>6. u = NextUID(ledger, r) OBVIOUS
      <4> HIDE DEF u, r, p
      <4> QED BY <3>2, <4>1, <4>2, <4>3, <4>4, <4>5, <4>6 DEF LedgerStep
    <3> QED BY <3>1, <3>2
  <2>4. CASE UNCHANGED <<ledger, line, given>> BY <2>4 DEF LedgerStep
  <2>5. (\E kind \in {"sync", "assign"} : Begin(c, kind)) \/ ReadRows(c) \/ BuildBegin(c)
        \/ (\E n \in Names : RangeFull(c, n)) \/ BuildEnd(c) \/ Done(c) => UNCHANGED <<ledger, line, given>>
    BY DEF Begin, ReadRows, BuildBegin, RangeFull, BuildEnd, Done
  <2> QED BY <1>3, <2>1, <2>2, <2>3, <2>4, <2>5 DEF Commands
<1>4. CASE UNCHANGED vars BY <1>4 DEF vars, LedgerStep
<1> QED BY <1>1, <1>2, <1>3, <1>4 DEF Next

\* A script is written once, at the end of the ledger's window.
LEMMA ScriptSteps == ASSUME IInv, [Next]_vars PROVE ScriptStep
<1>1. CASE UNCHANGED cmd BY <1>1 DEF ScriptStep
<1>2. ASSUME NEW c \in Cmds, NEW k, cmd' = [cmd EXCEPT ![c] = k], k.at # "built" PROVE ScriptStep
  <2>1. \A d \in Cmds : cmd'[d] = IF d = c THEN k ELSE cmd[d] BY <1>2 DEF IInv, CmdInv
  <2> QED BY <1>2, <2>1 DEF ScriptStep
<1>3. ASSUME NEW c \in Cmds, BuildEnd(c) PROVE ScriptStep
  <2> DEFINE k == [cmd[c] EXCEPT !.at = "built", !.script = ScriptOf(c)]
  <2>0. cmd[c] \in Commanding BY DEF IInv, CmdInv
  <2>1. cmd' = [cmd EXCEPT ![c] = k] /\ cmd[c].at = "for" /\ UNCHANGED <<ledger, line, given>>
    BY <1>3 DEF BuildEnd, At
  <2>2. k.script = ScriptOf(c) BY <2>0 DEF Commanding
  <2> HIDE DEF k
  <2>3. \A d \in Cmds : cmd'[d] = IF d = c THEN k ELSE cmd[d] BY <2>1 DEF IInv, CmdInv
  <2> QED BY <2>1, <2>2, <2>3 DEF ScriptStep
<1>4. ASSUME NEW c \in Cmds, Commands(c) \/ Done(c), ~BuildEnd(c) PROVE \E k : cmd' = [cmd EXCEPT ![c] = k] /\ k.at # "built"
  <2>0. cmd[c] \in Commanding BY DEF IInv, CmdInv
  <2>1. ASSUME NEW kind \in {"sync", "assign"}, Begin(c, kind) PROVE \E k : cmd' = [cmd EXCEPT ![c] = k] /\ k.at # "built"
    <3> DEFINE k == [Idle EXCEPT !.kind = kind, !.at = "renumber", !.rng = conf]
    <3>1. cmd' = [cmd EXCEPT ![c] = k] BY <2>1 DEF Begin
    <3>2. k.at = "renumber" BY IdleType DEF Commanding
    <3> HIDE DEF k
    <3> QED BY <3>1, <3>2
  <2>2. ASSUME Renumber(c) PROVE \E k : cmd' = [cmd EXCEPT ![c] = k] /\ k.at # "built"
    <3> DEFINE k == IF cmd[c].kind = "assign" THEN [cmd[c] EXCEPT !.at = "assign"]
                    ELSE IF Refused(ledger, cmd[c].rng) THEN Idle ELSE [cmd[c] EXCEPT !.at = "rows"]
    <3>1. cmd' = [cmd EXCEPT ![c] = k] BY <2>2 DEF Renumber
    <3>2. k.at # "built" BY <2>0, IdleType DEF Commanding
    <3> HIDE DEF k
    <3> QED BY <3>1, <3>2
  <2>3. ASSUME ReadRows(c) PROVE \E k : cmd' = [cmd EXCEPT ![c] = k] /\ k.at # "built"
    <3> DEFINE k == [cmd[c] EXCEPT !.at = "lock",
                        !.rows = [active |-> {n \in Names : status[n] = "active"},
                                  inactive |-> {n \in Names : status[n] = "disabled"},
                                  who |-> who]]
    <3>1. cmd' = [cmd EXCEPT ![c] = k] BY <2>3 DEF ReadRows
    <3>2. k.at # "built" BY <2>0 DEF Commanding
    <3> HIDE DEF k
    <3> QED BY <3>1, <3>2
  <2>4. ASSUME BuildBegin(c) PROVE \E k : cmd' = [cmd EXCEPT ![c] = k] /\ k.at # "built"
    <3> DEFINE k == [cmd[c] EXCEPT !.at = "for", !.todo = cmd[c].rows.active]
    <3>1. cmd' = [cmd EXCEPT ![c] = k] BY <2>4 DEF BuildBegin
    <3>2. k.at # "built" BY <2>0 DEF Commanding
    <3> HIDE DEF k
    <3> QED BY <3>1, <3>2
  <2>5. ASSUME NEW n \in Names, For(c, n) PROVE \E k : cmd' = [cmd EXCEPT ![c] = k] /\ k.at # "built"
    <3> DEFINE k == [cmd[c] EXCEPT !.todo = cmd[c].todo \ {n}]
    <3>1. cmd' = [cmd EXCEPT ![c] = k] /\ cmd[c].at = "for" BY <2>5 DEF For, At
    <3>2. k.at # "built" BY <2>0, <3>1 DEF Commanding
    <3> HIDE DEF k
    <3> QED BY <3>1, <3>2
  <2>6. ASSUME Done(c) \/ (\E n \in Names : RangeFull(c, n))
               \/ (\E n \in Names, r \in Ranges : \E u \in r.min .. r.max : Assign(c, n, u))
        PROVE \E k : cmd' = [cmd EXCEPT ![c] = k] /\ k.at # "built"
    <3>1. cmd' = [cmd EXCEPT ![c] = Idle] BY <2>6 DEF Done, RangeFull, Assign
    <3> QED BY <3>1, IdleType
  <2> QED BY <1>4, <2>1, <2>2, <2>3, <2>4, <2>5, <2>6 DEF Commands
<1>5. StoreWrites \/ RangeChange \/ UNCHANGED vars => UNCHANGED cmd
  BY DEF StoreWrites, UserAdd, UserRemove, UserToggle, RenameStore, MoveUID,
         RangeChange, RangeCheck, RangeMin, RangeMax, RangeDone, vars
<1> QED BY <1>1, <1>2, <1>3, <1>4, <1>5 DEF Next

-----------------------------------------------------------------------------
(***************************************************************************)
(* What was given to whom.                                                 *)
(***************************************************************************)
\* The person was given a number that lies as far into its range.
GivenTo(G, u, p) == \E g \in G : g[2] = p /\ Offset(g[1]) = Offset(u)

\* Every number of the ledger goes back to one that was given to the line's person.
SourceInv ==
    /\ given \subseteq Nat \X Nat /\ IsFiniteSet(given)
    /\ \A g \in given : Within(Seen(ledger), g[1])
    /\ \A n \in Names : ledger.nums[n] # 0 => GivenTo(given, ledger.nums[n], line[n])

\* Whatever was given has a line as far into the range or further, so no offset is
\* given twice.
MemoryInv ==
    /\ \A g \in given : \E n \in Names : ledger.nums[n] # 0 /\ Offset(ledger.nums[n]) >= Offset(g[1])
    /\ \A g, h \in given : Offset(g[1]) = Offset(h[1]) => g[2] = h[2]

\* Every step keeps the source of every number, and forgets neither a range nor a number.
LEMMA SourceKept ==
    ASSUME RangesApart, IInv, OrderInv, RowsInv, SourceInv, LedgerStep
    PROVE  SourceInv' /\ Seen(ledger) \subseteq Seen(ledger') /\ given \subseteq given'
<1>0. Lawful(ledger) /\ line \in [Names -> Nat] BY DEF OrderInv, IInv, LedgerInv
<1>1. CASE UNCHANGED <<ledger, line, given>> BY <1>1 DEF SourceInv
<1>2. ASSUME NEW to \in All, ~Refused(ledger, to), ledger' = Renumbered(ledger, to), UNCHANGED <<line, given>>
      PROVE  SourceInv' /\ Seen(ledger) \subseteq Seen(ledger') /\ given \subseteq given'
  <2>1. /\ Seen(ledger) \subseteq Seen(ledger')
        /\ \A n \in Names : /\ ledger'.nums[n] = 0 <=> ledger.nums[n] = 0
                            /\ ledger.nums[n] # 0 => Offset(ledger'.nums[n]) = Offset(ledger.nums[n])
    BY <1>0, <1>2, RenumberedLawful
  <2>2. \A n \in Names : ledger'.nums[n] # 0 => GivenTo(given', ledger'.nums[n], line'[n])
    BY <1>2, <2>1 DEF SourceInv, GivenTo
  <2>3. \A g \in given' : Within(Seen(ledger'), g[1]) BY <1>2, <2>1 DEF SourceInv, Within
  <2> QED BY <1>2, <2>1, <2>2, <2>3 DEF SourceInv
<1>3. ASSUME NEW old \in Names, NEW new \in Names, old # new, ledger.nums[old] # 0, ledger.nums[new] = 0,
             ledger' = Moved(ledger, old, new),
             line' = [line EXCEPT ![new] = line[old], ![old] = 0], UNCHANGED given
      PROVE  SourceInv' /\ Seen(ledger) \subseteq Seen(ledger') /\ given \subseteq given'
  <2>1. /\ Seen(ledger') = Seen(ledger) /\ ledger'.nums[new] = ledger.nums[old] /\ ledger'.nums[old] = 0
        /\ \A n \in Names : n # old /\ n # new => ledger'.nums[n] = ledger.nums[n]
    BY <1>0, <1>3, MovedLawful
  <2>2. line'[new] = line[old] /\ \A n \in Names : n # old /\ n # new => line'[n] = line[n] BY <1>0, <1>3
  <2>3. \A n \in Names : ledger'.nums[n] # 0 => GivenTo(given', ledger'.nums[n], line'[n])
    BY <1>3, <2>1, <2>2 DEF SourceInv
  <2> QED BY <1>3, <2>1, <2>3 DEF SourceInv
<1>4. ASSUME NEW r \in All, NEW n \in Names, NEW u \in Nat, NEW p \in Nat,
             Has(r, u), ledger.rec = r \/ Absent(ledger), ledger' = Assigned(ledger, r, n, u),
             line' = [line EXCEPT ![n] = p], given' = given \cup {<<u, p>>}
      PROVE  SourceInv' /\ Seen(ledger) \subseteq Seen(ledger') /\ given \subseteq given'
  <2>1. /\ Seen(ledger) \subseteq Seen(ledger') /\ r \in Seen(ledger') /\ ledger'.nums[n] = u
        /\ \A m \in Names : m # n => ledger'.nums[m] = ledger.nums[m]
    BY <1>0, <1>4, AssignedLawful
  <2>2. line'[n] = p /\ \A m \in Names : m # n => line'[m] = line[m] BY <1>0, <1>4
  <2>3. GivenTo(given', u, p)
    <3> DEFINE g == <<u, p>>
    <3>1. g \in given' /\ g[1] = u /\ g[2] = p BY <1>4
    <3> HIDE DEF g
    <3> QED BY <3>1 DEF GivenTo
  <2>4. \A m \in Names : ledger'.nums[m] # 0 => GivenTo(given', ledger'.nums[m], line'[m])
    <3> SUFFICES ASSUME NEW m \in Names, ledger'.nums[m] # 0
                 PROVE  GivenTo(given', ledger'.nums[m], line'[m]) OBVIOUS
    <3>1. CASE m = n BY <2>1, <2>2, <2>3, <3>1
    <3>2. CASE m # n
      <4>1. GivenTo(given, ledger.nums[m], line[m]) BY <2>1, <3>2 DEF SourceInv
      <4> QED BY <1>4, <2>1, <2>2, <3>2, <4>1 DEF GivenTo
    <3> QED BY <3>1, <3>2
  <2>5. \A g \in given' : Within(Seen(ledger'), g[1]) BY <1>4, <2>1 DEF SourceInv, Within
  <2>6. given' \subseteq Nat \X Nat BY <1>4 DEF SourceInv
  <2>7. IsFiniteSet(given')
    <3>1. IsFiniteSet(given) BY DEF SourceInv
    <3>2. IsFiniteSet(given \cup {<<u, p>>}) BY <3>1, FS_AddElement
    <3> QED BY <1>4, <3>2
  <2> QED BY <1>4, <2>1, <2>4, <2>5, <2>6, <2>7 DEF SourceInv
<1> QED BY <1>1, <1>2, <1>3, <1>4 DEF LedgerStep

\* Where no number is set by hand, a new number is further into the range than any before.
LEMMA MemoryKept ==
    ASSUME RangesApart, MaxAssigns = 0, IInv, OrderInv, SourceInv, MemoryInv, LedgerStep
    PROVE  MemoryInv'
<1>0. Lawful(ledger) /\ used.assigns \in Nat BY DEF OrderInv, IInv, StoreInv, Spending
<1>1. CASE UNCHANGED <<ledger, line, given>> BY <1>1 DEF MemoryInv
<1>2. ASSUME NEW to \in All, ~Refused(ledger, to), ledger' = Renumbered(ledger, to), UNCHANGED <<line, given>>
      PROVE  MemoryInv'
  <2>1. \A n \in Names : /\ ledger'.nums[n] = 0 <=> ledger.nums[n] = 0
                         /\ ledger.nums[n] # 0 => Offset(ledger'.nums[n]) = Offset(ledger.nums[n])
    BY <1>0, <1>2, RenumberedLawful
  <2>2. \A g \in given' : \E n \in Names : ledger'.nums[n] # 0 /\ Offset(ledger'.nums[n]) >= Offset(g[1])
    BY <1>2, <2>1 DEF MemoryInv
  <2> QED BY <1>2, <2>2 DEF MemoryInv
<1>3. ASSUME NEW old \in Names, NEW new \in Names, old # new, ledger.nums[old] # 0, ledger.nums[new] = 0,
             ledger' = Moved(ledger, old, new), UNCHANGED given
      PROVE  MemoryInv'
  <2>1. /\ ledger'.nums[new] = ledger.nums[old]
        /\ \A n \in Names : n # old /\ n # new => ledger'.nums[n] = ledger.nums[n]
    BY <1>0, <1>3, MovedLawful
  <2>2. \A n \in Names : ledger.nums[n] # 0 => \E m \in Names : ledger'.nums[m] = ledger.nums[n] BY <1>3, <2>1
  <2>3. \A g \in given' : \E n \in Names : ledger'.nums[n] # 0 /\ Offset(ledger'.nums[n]) >= Offset(g[1])
    <3> TAKE g \in given'
    <3>1. PICK n \in Names : ledger.nums[n] # 0 /\ Offset(ledger.nums[n]) >= Offset(g[1]) BY <1>3 DEF MemoryInv
    <3>2. PICK m \in Names : ledger'.nums[m] = ledger.nums[n] BY <2>2, <3>1
    <3> QED BY <3>1, <3>2
  <2> QED BY <1>3, <2>3 DEF MemoryInv
<1>4. ASSUME NEW r \in All, NEW n \in Names, NEW p \in Nat, NEW u \in Nat,
             Has(r, u), ledger.rec = r \/ Absent(ledger), ledger' = Assigned(ledger, r, n, u),
             given' = given \cup {<<u, p>>}, ledger.nums[n] = 0, u = NextUID(ledger, r)
      PROVE  MemoryInv'
  <2>1. /\ ledger'.nums[n] = u /\ u # 0
        /\ \A m \in Names : m # n => ledger'.nums[m] = ledger.nums[m]
    BY <1>0, <1>4, AssignedLawful
  <2>2. Offset(u) = u - r.min BY <1>4, OffsetIs
  <2>3. \A m \in Names : ledger.nums[m] # 0 => Has(r, ledger.nums[m])
    <3>1. CASE ledger.rec = r
      <4>1. r # NoRange BY AllType
      <4> QED BY <1>0, <3>1, <4>1 DEF Lawful
    <3>2. CASE Absent(ledger) BY <3>2 DEF Absent, NoNums
    <3> QED BY <1>4, <3>1, <3>2
  <2>4. ASSUME NEW m \in Names, ledger.nums[m] # 0 PROVE Offset(ledger.nums[m]) < Offset(u) /\ Offset(ledger.nums[m]) \in Int
    <3>1. ledger.nums[m] \in Nat BY <1>0, NumsAre
    <3>2. Offset(ledger.nums[m]) = ledger.nums[m] - r.min BY <2>3, <2>4, <3>1, OffsetIs
    <3>3. Usable(r) BY AllType DEF Usable
    <3>4. ledger.nums[m] < u BY <1>0, <1>4, <2>3, <2>4, <3>3, NextIsNew DEF Lawful
    <3>5. r.min \in Nat BY AllType
    <3> QED BY <2>2, <3>1, <3>2, <3>4, <3>5
  <2>5. \A g \in given : Offset(g[1]) \in Int /\ Offset(g[1]) < Offset(u)
    <3> TAKE g \in given
    <3>1. PICK m \in Names : ledger.nums[m] # 0 /\ Offset(ledger.nums[m]) >= Offset(g[1]) BY DEF MemoryInv
    <3>2. g[1] \in Nat /\ Within(Seen(ledger), g[1]) BY DEF SourceInv
    <3>3. PICK q \in All : Has(q, g[1]) BY <1>0, <3>2, SeenAre DEF Within
    <3>4. Offset(g[1]) = g[1] - q.min /\ q.min \in Nat BY <3>2, <3>3, OffsetIs, AllType
    <3>5. Offset(g[1]) \in Int BY <3>2, <3>4
    <3>6. Offset(ledger.nums[m]) < Offset(u) /\ Offset(ledger.nums[m]) \in Int BY <2>4, <3>1
    <3>7. Offset(u) \in Int
      <4>1. r.min \in Nat BY AllType
      <4> QED BY <2>2, <4>1
    <3> QED BY <3>1, <3>5, <3>6, <3>7
  <2>6. Offset(u) \in Int
    <3>1. r.min \in Nat BY AllType
    <3> QED BY <2>2, <3>1
  <2>7. \A g \in given' : g \in given \/ (g[1] = u /\ g[2] = p) BY <1>4
  <2>8. \A g \in given' : Offset(g[1]) <= Offset(u) BY <2>5, <2>6, <2>7
  <2>9. \A g \in given' : \E m \in Names : ledger'.nums[m] # 0 /\ Offset(ledger'.nums[m]) >= Offset(g[1])
    BY <2>1, <2>5, <2>6, <2>7, <2>8
  <2>10. \A g, h \in given' : Offset(g[1]) = Offset(h[1]) => g[2] = h[2]
    BY <2>5, <2>6, <2>7 DEF MemoryInv
  <2> QED BY <2>9, <2>10 DEF MemoryInv
<1> QED BY <1>0, <1>1, <1>2, <1>3, <1>4 DEF LedgerStep

\* At the start at most one number was given.
LEMMA InitSource == ASSUME RangesApart, Init PROVE SourceInv /\ MemoryInv
<1> USE DEF Init
<1>0. First \in Names BY RangeAssumption DEF First
<1>1. Legacy \in All /\ Legacy.min \in Nat /\ Legacy.min # 0 /\ Has(Legacy, Legacy.min)
  BY AllType DEF All, Has
<1>2. CASE StartLegacy
  <2>1. given = {<<Legacy.min, 1>>} BY <1>2
  <2>2. /\ ledger.nums[First] = Legacy.min /\ line[First] = 1 /\ ledger.rec = NoRange
        /\ \A n \in Names : n # First => ledger.nums[n] = 0
    BY <1>0, <1>2 DEF NoNums
  <2>3. ledger.nums # NoNums BY <1>0, <1>1, <2>2 DEF NoNums
  <2>4. Seen(ledger) = {Legacy} BY <2>2, <2>3 DEF Seen
  <2>5. \A g \in given : g[1] = Legacy.min /\ g[2] = 1 /\ g \in Nat \X Nat BY <1>1, <2>1
  <2>6. \A n \in Names : ledger.nums[n] # 0 => GivenTo(given, ledger.nums[n], line[n])
    BY <2>1, <2>2, <2>5 DEF GivenTo
  <2>11. IsFiniteSet(given) BY <2>1, FS_Singleton
  <2>7. SourceInv BY <1>1, <2>4, <2>5, <2>6, <2>11 DEF SourceInv, Within
  <2>8. Offset(Legacy.min) = Legacy.min - Legacy.min BY <1>1, OffsetIs
  <2>9. Offset(Legacy.min) >= Offset(Legacy.min) BY <1>1, <2>8
  <2>10. MemoryInv BY <1>0, <1>1, <2>2, <2>5, <2>9 DEF MemoryInv
  <2> QED BY <2>7, <2>10
<1>3. CASE ~StartLegacy
  <2>1. given = {} /\ ledger.nums = NoNums BY <1>3
  <2> QED BY <2>1, FS_EmptySet DEF SourceInv, MemoryInv, NoNums
<1> QED BY <1>2, <1>3

-----------------------------------------------------------------------------
(***************************************************************************)
(* The scripts, whatever their age.                                        *)
(***************************************************************************)
\* What a script was written from, S the ranges the ledger has been in and G what was
\* given: a number it lists is the named person's, and it names no other range.
ScriptOK(s, S, G) ==
    /\ \A n \in Names : s.nums[n] # 0 => /\ s.rng \in S /\ Has(s.rng, s.nums[n])
                                         /\ s.line[n] = s.who[n] /\ GivenTo(G, s.nums[n], s.who[n])
    /\ \A n \in s.users : s.nums[n] # 0
    /\ \A i \in 1 .. Len(s.prev) : s.prev[i] \in S
    /\ s.prev # <<>> => s.rng \in S

\* Every script that may still be run, also by a command that read the rows long ago.
ScriptInv == \A c \in Cmds : cmd[c].at = "built" => ScriptOK(cmd[c].script, Seen(ledger), given)

\* No range and no number is ever forgotten, so a script stays what it was.
LEMMA ScriptStays ==
    ASSUME NEW s, NEW S, NEW G, NEW S2, NEW G2, S \subseteq S2, G \subseteq G2, ScriptOK(s, S, G)
    PROVE  ScriptOK(s, S2, G2)
BY DEF ScriptOK, GivenTo

\* ScopeUsers.
LEMMA ScriptWritten ==
    ASSUME RangesApart, IInv, OrderInv, StandInv, RowsInv, SourceInv, NEW c \in Cmds, cmd[c].at = "for"
    PROVE  ScriptOK(ScriptOf(c), Seen(ledger), given)
<1> DEFINE s == ScriptOf(c)
           r == cmd[c].rng
           rows == cmd[c].rows
           listed == {n \in rows.active : Has(r, ledger.nums[n])}
           expired == rows.inactive \cup (rows.active \ listed)
<1>1. r \in All /\ (ledger.rec = r \/ Absent(ledger)) /\ rows \in Rows
  BY CmdFacts DEF Waits, Commanding
<1>2. /\ s.rng = r /\ s.prev = ledger.prev /\ s.users = listed /\ s.who = rows.who /\ s.line = line
      /\ s.nums = [n \in Names |-> IF n \in listed \cup expired /\ Has(r, ledger.nums[n])
                                   THEN ledger.nums[n] ELSE 0]
  BY DEF ScriptOf
<1>3. r.min \in Nat /\ r.min >= 1 /\ r # NoRange BY <1>1, AllType
<1>4. Lawful(ledger) BY DEF OrderInv
<1> HIDE DEF s
<1>5. ASSUME NEW n \in Names, s.nums[n] # 0
      PROVE  s.rng \in Seen(ledger) /\ Has(s.rng, s.nums[n]) /\ s.line[n] = s.who[n]
             /\ GivenTo(given, s.nums[n], s.who[n])
  <2>1. /\ n \in rows.active \cup rows.inactive /\ Has(r, ledger.nums[n]) /\ s.nums[n] = ledger.nums[n]
    BY <1>2, <1>5
  <2>2. ledger.nums[n] # 0 BY <1>5, <2>1
  <2>3. ledger.rec = r BY <1>1, <2>2 DEF Absent, NoNums
  <2>4. r \in Seen(ledger) BY <1>3, <2>3 DEF Seen
  <2>5. line[n] # 0 /\ rows.who[n] # 0 BY <2>1, <2>2 DEF RowsInv
  <2>6. line[n] \in Standing(who, line, cmd, n) /\ rows.who[n] \in Standing(who, line, cmd, n)
    BY <2>5 DEF Standing
  <2>7. line[n] = rows.who[n] BY <2>6 DEF StandInv, Agreed
  <2>8. GivenTo(given, ledger.nums[n], line[n]) BY <2>2 DEF SourceInv
  <2> QED BY <1>2, <2>1, <2>4, <2>7, <2>8
<1>6. ASSUME NEW n \in s.users PROVE s.nums[n] # 0
  <2>1. n \in Names /\ Has(r, ledger.nums[n]) /\ n \in listed BY <1>1, <1>2 DEF Rows
  <2>2. s.nums[n] = ledger.nums[n] BY <1>2, <2>1
  <2>3. ledger.nums[n] \in Nat BY <1>4, <2>1, NumsAre
  <2> QED BY <1>3, <2>1, <2>2, <2>3 DEF Has
<1>7. ASSUME NEW i \in 1 .. Len(s.prev) PROVE s.prev[i] \in Seen(ledger)
  <2>1. ledger.rec # NoRange
    <3> SUFFICES ASSUME ledger.rec = NoRange PROVE FALSE OBVIOUS
    <3>1. ledger.prev = <<>> BY <1>4 DEF Lawful
    <3> QED BY <1>2, <3>1
  <2> QED BY <1>2, <2>1 DEF Seen
<1>8. s.prev # <<>> => s.rng \in Seen(ledger)
  <2> SUFFICES ASSUME s.prev # <<>> PROVE s.rng \in Seen(ledger) OBVIOUS
  <2>1. ledger.rec # NoRange BY <1>2, <1>4 DEF Lawful
  <2>2. ledger.rec = r BY <1>1, <2>1 DEF Absent
  <2> QED BY <1>2, <2>1, <2>2 DEF Seen
<1>9. ScriptOK(s, Seen(ledger), given) BY <1>5, <1>6, <1>7, <1>8 DEF ScriptOK
<1> QED BY <1>9 DEF s

\* Every step leaves scripts that were written from the ledger.
LEMMA ScriptKept ==
    ASSUME RangesApart, IInv, OrderInv, StandInv, RowsInv, SourceInv, ScriptInv, LedgerStep, ScriptStep
    PROVE  ScriptInv'
<1>1. Seen(ledger) \subseteq Seen(ledger') /\ given \subseteq given' BY SourceKept
<1> SUFFICES ASSUME NEW d \in Cmds, cmd'[d].at = "built"
             PROVE  ScriptOK(cmd'[d].script, Seen(ledger'), given')
  BY DEF ScriptInv
<1>2. CASE cmd[d].at = "built" /\ cmd'[d].script = cmd[d].script
  <2>1. ScriptOK(cmd[d].script, Seen(ledger), given) BY <1>2 DEF ScriptInv
  <2> QED BY <1>1, <1>2, <2>1, ScriptStays
<1>3. CASE cmd[d].at = "for" /\ cmd'[d].script = ScriptOf(d)
  <2>1. ScriptOK(ScriptOf(d), Seen(ledger), given) BY <1>3, ScriptWritten
  <2> QED BY <1>1, <1>3, <2>1, ScriptStays
<1> QED BY <1>2, <1>3 DEF ScriptStep

-----------------------------------------------------------------------------
(***************************************************************************)
(* What each part of the script does to an account.                        *)
(***************************************************************************)
\* The same account, but for its date of expiry.
Like(x, y) == /\ y.name = x.name /\ y.uid = x.uid /\ y.ours = x.ours
              /\ y.owner = x.owner /\ y.off = x.off

\* The same account at the same offset, S the ranges it may be in.
SameOffset(S, x, y) ==
    /\ y.ours = x.ours /\ y.owner = x.owner /\ y.off = x.off
    /\ y.uid = x.uid \/ (Within(S, x.uid) /\ Within(S, y.uid) /\ Offset(y.uid) = Offset(x.uid))

\* rename_accounts changes names only, and only to the name that the account is for.
LEMMA RenamingIs ==
    ASSUME NEW h, Sound(h), NEW s \in Scripts, NEW busy
    PROVE  LET g == Renaming(h, s, busy)
               Now(x, y) == /\ y.uid = x.uid /\ y.ours = x.ours /\ y.owner = x.owner /\ y.off = x.off
                            /\ y.name = x.name \/ y.name \in RenamedTo(h, s, busy, x)
           IN  /\ \A y \in g : \E x \in h : Now(x, y)
               /\ \A x \in h : \E y \in g : Now(x, y)
<1> DEFINE To(x) == RenamedTo(h, s, busy, x)
           N(x) == IF To(x) = {} THEN x.name ELSE CHOOSE n \in To(x) : TRUE
           R(x) == [x EXCEPT !.name = N(x)]
           g == Renaming(h, s, busy)
           Now(x, y) == /\ y.uid = x.uid /\ y.ours = x.ours /\ y.owner = x.owner /\ y.off = x.off
                        /\ y.name = x.name \/ y.name \in RenamedTo(h, s, busy, x)
<1>1. g = {R(x) : x \in h} BY DEF Renaming
<1>2. ASSUME NEW x \in h PROVE N(x) = x.name \/ N(x) \in To(x) OBVIOUS
<1>3. ASSUME NEW x \in h PROVE Now(x, R(x))
  <2>1. x \in Accounts BY DEF Sound
  <2> HIDE DEF N
  <2> QED BY <1>2, <2>1 DEF Accounts
<1> HIDE DEF R, Now, g
<1>4. (\A y \in g : \E x \in h : Now(x, y)) /\ (\A x \in h : \E y \in g : Now(x, y)) BY <1>1, <1>3
<1> QED BY <1>4 DEF Now, g

\* previous_first finds the start of an earlier range that has the number.
LEMMA PreviousIs ==
    ASSUME NEW s \in Scripts, NEW u, PreviousFirst(s, u) # 0
    PROVE  \E i \in 1 .. Len(s.prev) : Has(s.prev[i], u) /\ PreviousFirst(s, u) = s.prev[i].min
<1> DEFINE at == {i \in 1 .. Len(s.prev) : Has(s.prev[i], u)}
<1>1. s.prev \in Seq(Rng) BY DEF Scripts
<1>2. at # {} BY DEF PreviousFirst
<1>3. at \subseteq Nat BY <1>1
<1>4. PICK i \in at : \A j \in at : i <= j BY <1>2, <1>3, Least
<1>5. Min(at) \in at BY <1>4 DEF Min
<1>6. PreviousFirst(s, u) = s.prev[Min(at)].min BY <1>2 DEF PreviousFirst
<1> QED BY <1>5, <1>6

\* renumber_previous: the same offset of another range.
LEMMA NewUIDIs ==
    ASSUME RangesApart, NEW h, Sound(h), NEW s \in Scripts, NEW busy, NEW S, S \subseteq All, NEW G,
           ScriptOK(s, S, G), NEW x \in Renumberable(h, s, busy)
    PROVE  /\ Within(S, x.uid) /\ Within(S, NewUID(s, x)) /\ Offset(NewUID(s, x)) = Offset(x.uid)
           /\ NewUID(s, x) \in Int
<1>1. x \in Earlier(h, s) /\ Has(s.rng, NewUID(s, x)) BY DEF Renumberable
<1>2. x.uid \in Int /\ PreviousFirst(s, x.uid) # 0 BY <1>1 DEF Earlier, Sound, Accounts
<1>3. PICK i \in 1 .. Len(s.prev) : Has(s.prev[i], x.uid) /\ PreviousFirst(s, x.uid) = s.prev[i].min
  BY <1>2, PreviousIs
<1>4. s.prev \in Seq(Rng) BY DEF Scripts
<1>5. s.prev # <<>> BY <1>3
<1>6. s.prev[i] \in S /\ s.rng \in S BY <1>3, <1>5 DEF ScriptOK
<1>7. s.prev[i].min \in Nat /\ s.rng.min \in Nat BY <1>6, AllType
<1>8. NewUID(s, x) = x.uid - s.prev[i].min + s.rng.min BY <1>3 DEF NewUID
<1>9. NewUID(s, x) \in Int BY <1>2, <1>7, <1>8
<1>10. Offset(x.uid) = x.uid - s.prev[i].min BY <1>2, <1>3, <1>6, OffsetIs
<1>11. Offset(NewUID(s, x)) = NewUID(s, x) - s.rng.min BY <1>1, <1>6, <1>9, OffsetIs
<1>12. Offset(NewUID(s, x)) = Offset(x.uid) BY <1>2, <1>7, <1>8, <1>10, <1>11
<1> QED BY <1>1, <1>3, <1>6, <1>9, <1>12 DEF Within

\* renumber_previous keeps every account and its name.
LEMMA RenumberingIs ==
    ASSUME RangesApart, NEW h, Sound(h), NEW s \in Scripts, NEW busy, NEW S, S \subseteq All, NEW G,
           ScriptOK(s, S, G)
    PROVE  LET g == Renumbering(h, s, busy)
           IN  /\ \A y \in g : \E x \in h : SameOffset(S, x, y) /\ y.name = x.name
               /\ \A x \in h : \E y \in g : SameOffset(S, x, y) /\ y.name = x.name
<1> DEFINE moved == Renumberable(h, s, busy)
           U(x) == IF x \in moved THEN NewUID(s, x) ELSE x.uid
           R(x) == [x EXCEPT !.uid = U(x)]
           g == Renumbering(h, s, busy)
<1>1. g = {R(x) : x \in h} BY DEF Renumbering
<1>2. ASSUME NEW x \in h
      PROVE  U(x) = x.uid \/ (Within(S, x.uid) /\ Within(S, U(x)) /\ Offset(U(x)) = Offset(x.uid))
  BY NewUIDIs
<1>3. ASSUME NEW x \in h PROVE SameOffset(S, x, R(x)) /\ R(x).name = x.name
  <2>1. x \in Accounts BY DEF Sound
  <2> HIDE DEF U
  <2>2. /\ R(x).uid = U(x) /\ R(x).ours = x.ours /\ R(x).owner = x.owner /\ R(x).off = x.off
        /\ R(x).name = x.name
    BY <2>1 DEF Accounts
  <2> QED BY <1>2, <2>2 DEF SameOffset
<1> HIDE DEF R, g
<1>4. /\ \A y \in g : \E x \in h : SameOffset(S, x, y) /\ y.name = x.name
      /\ \A x \in h : \E y \in g : SameOffset(S, x, y) /\ y.name = x.name
  BY <1>1, <1>3
<1> QED BY <1>4 DEF g

\* A new account, at the number the script has for its name if that is free.
Fresh(s, y) == /\ y.ours /\ ~y.off => /\ y.uid = s.nums[y.name] /\ y.owner = s.who[y.name]
                                      /\ y.name \in s.users

\* One round of the loop over the listed users.
LEMMA ListOneIs ==
    ASSUME NEW h, Sound(h), NEW s \in Scripts, NEW n \in s.users
    PROVE  LET g == ListOne(s, h, n)
           IN  /\ \A y \in g : Fresh(s, y) \/ \E x \in h : Like(x, y)
               /\ \A x \in h : \E y \in g : Like(x, y)
<1> DEFINE g == ListOne(s, h, n)
<1>0. \A x \in h : Like(x, x) BY DEF Like
<1>1. CASE Managed(h, s, n)
  <2> DEFINE E(x) == x.expired /\ x.name # n
             R(x) == [x EXCEPT !.expired = E(x)]
  <2>1. g = {R(x) : x \in h} BY <1>1 DEF ListOne
  <2>2. ASSUME NEW x \in h PROVE Like(x, R(x))
    <3>1. x \in Accounts BY DEF Sound
    <3> QED BY <3>1 DEF Accounts, Like
  <2> HIDE DEF R, g
  <2>3. (\A y \in g : \E x \in h : Like(x, y)) /\ (\A x \in h : \E y \in g : Like(x, y)) BY <2>1, <2>2
  <2> QED BY <2>3 DEF g
<1>2. CASE ~Managed(h, s, n) /\ Named(h, n) # {}
  <2>1. g = h BY <1>2 DEF ListOne
  <2> HIDE DEF g
  <2>2. (\A y \in g : \E x \in h : Like(x, y)) /\ (\A x \in h : \E y \in g : Like(x, y)) BY <1>0, <2>1
  <2> QED BY <2>2 DEF g
<1>3. CASE ~Managed(h, s, n) /\ Named(h, n) = {} /\ Free(h, s.nums[n])
  <2> DEFINE a == Account(n, s.nums[n], s.who[n])
  <2>1. g = h \cup {a} BY <1>3 DEF ListOne
  <2>2. Fresh(s, a) BY DEF Account, Fresh
  <2> HIDE DEF g, a
  <2>3. (\A y \in g : Fresh(s, y) \/ \E x \in h : Like(x, y)) /\ (\A x \in h : \E y \in g : Like(x, y))
    BY <1>0, <2>1, <2>2
  <2> QED BY <2>3 DEF g
<1>4. CASE ~Managed(h, s, n) /\ Named(h, n) = {} /\ ~Free(h, s.nums[n])
  <2> DEFINE A(u) == [Account(n, u, s.who[n]) EXCEPT !.off = TRUE]
  <2>1. g = h \cup {A(u) : u \in FreeIDs(h, s)} BY <1>4 DEF ListOne
  <2>2. \A u : A(u).off BY DEF Account
  <2>3. \A u : Fresh(s, A(u)) BY <2>2 DEF Fresh
  <2> HIDE DEF g, A
  <2>4. (\A y \in g : Fresh(s, y) \/ \E x \in h : Like(x, y)) /\ (\A x \in h : \E y \in g : Like(x, y))
    BY <1>0, <2>1, <2>3
  <2> QED BY <2>4 DEF g
<1> QED BY <1>1, <1>2, <1>3, <1>4

\* An account as old as the loop, and one that it made.
LEMMA RoundsIs ==
    ASSUME NEW h, Sound(h), Distinct(h), NEW s \in Scripts, NEW listed, listed \subseteq s.users
    PROVE  LET g == Rounds(h, s, listed)[Len(NameOrder)]
           IN  /\ \A y \in g : Fresh(s, y) \/ \E x \in h : Like(x, y)
               /\ \A x \in h : \E y \in g : Like(x, y)
<1> DEFINE f == Rounds(h, s, listed)
           N == Len(NameOrder)
           P(g) == /\ Sound(g) /\ Distinct(g)
                   /\ \A y \in g : Fresh(s, y) \/ \E x \in h : Like(x, y)
                   /\ \A x \in h : \E y \in g : Like(x, y)
           T == {i \in 0 .. N : P(f[i])}
<1>0. N \in Nat /\ \A i \in 1 .. N : NameOrder[i] \in Names BY NameOrderAssumption
<1>1. f[0] = h /\ \A i \in 1 .. N : f[i] = One(f[i - 1], s, listed, i) BY RoundsAre
<1> HIDE DEF f, N
<1>2. 0 \in T
  <2>1. \A x \in h : Like(x, x) BY DEF Like
  <2>2. P(h) BY <2>1
  <2> HIDE DEF P
  <2> QED BY <1>0, <1>1, <2>2
<1>3. ASSUME NEW i \in 1 .. N, i - 1 \in T PROVE i \in T
  <2>1. P(f[i - 1])
    <3> HIDE DEF P
    <3> QED BY <1>3
  <2>2. P(f[i])
    <3>1. CASE NameOrder[i] \in listed
      <4> DEFINE k == f[i - 1]
                 g == f[i]
      <4>1. g = ListOne(s, k, NameOrder[i]) BY <1>1, <3>1 DEF One
      <4>2. Sound(g) /\ Distinct(g) BY <1>0, <2>1, <4>1, ListOneKeeps DEF Kept
      <4>3. NameOrder[i] \in s.users BY <3>1
      <4>4. /\ \A y \in g : Fresh(s, y) \/ \E x \in k : Like(x, y)
            /\ \A x \in k : \E y \in g : Like(x, y)
        BY <2>1, <4>1, <4>3, ListOneIs
      <4>5. /\ \A y \in k : Fresh(s, y) \/ \E x \in h : Like(x, y)
            /\ \A x \in h : \E y \in k : Like(x, y)
        BY <2>1
      <4>6. \A x, y, z : Like(x, y) /\ Like(y, z) => Like(x, z) BY DEF Like
      <4>7. \A x, y : Like(x, y) /\ Fresh(s, x) => Fresh(s, y) BY DEF Like, Fresh
      <4> HIDE DEF g, k
      <4>8. \A y \in g : Fresh(s, y) \/ \E x \in h : Like(x, y) BY <4>4, <4>5, <4>6, <4>7
      <4>9. \A x \in h : \E y \in g : Like(x, y) BY <4>4, <4>5, <4>6
      <4> QED BY <4>2, <4>8, <4>9 DEF g
    <3>2. CASE NameOrder[i] \notin listed
      <4>1. f[i] = f[i - 1] BY <1>1, <3>2 DEF One
      <4> HIDE DEF P
      <4> QED BY <2>1, <4>1
    <3> QED BY <3>1, <3>2
  <2> HIDE DEF P
  <2> QED BY <1>0, <2>2
<1>4. \A i \in 1 .. N : i - 1 \in T => i \in T
  <2> HIDE DEF T
  <2> QED BY <1>3
<1>5. N \in T
  <2> HIDE DEF T
  <2>1. \A i \in 0 .. N : i \in T BY <1>0, <1>2, <1>4, Induction
  <2>2. N \in 0 .. N BY <1>0
  <2> QED BY <2>1, <2>2
<1>6. P(f[N])
  <2> HIDE DEF P
  <2> QED BY <1>5
<1> QED BY <1>6 DEF f, N

\* An account that may be deleted: the server does not have its name, and has its number,
\* one of the script's range, for no other name.
Deletable(s, x) == /\ x.name \notin Known(s) /\ Has(s.rng, x.uid)
                   /\ AssignedHolder(s, x.uid) \subseteq {x.name}

\* The loop over the accounts that are not listed.
LEMMA RemovalIs ==
    ASSUME NEW h, Sound(h), NEW s, NEW busy, NEW deferred
    PROVE  LET g == Removal(h, s, busy, deferred)
           IN  /\ \A y \in g : \E x \in h : Like(x, y)
               /\ \A x \in h : Deletable(s, x) \/ \E y \in g : Like(x, y)
<1> DEFINE unlisted == {x \in h : /\ x.ours /\ x.name \notin s.users \cup deferred
                                  /\ Has(s.rng, x.uid)
                                  /\ AssignedHolder(s, x.uid) \subseteq {x.name}}
           deleted == {x \in unlisted : x.name \notin s.inactive /\ x.uid \notin busy}
           R(x) == [x EXCEPT !.expired = TRUE]
           g == Removal(h, s, busy, deferred)
<1>1. g = (h \ unlisted) \cup {R(x) : x \in unlisted \ deleted} BY DEF Removal
<1>2. unlisted \subseteq h OBVIOUS
<1>3. \A x \in deleted : Deletable(s, x) BY DEF Known, Deletable
<1> HIDE DEF unlisted, deleted, g
<1>4. ASSUME NEW x \in h PROVE Like(x, x) /\ Like(x, R(x))
  <2>1. x \in Accounts BY DEF Sound
  <2> QED BY <2>1 DEF Accounts, Like
<1> HIDE DEF R
<1>5. \A y \in g : \E x \in h : Like(x, y) BY <1>1, <1>2, <1>4
<1>6. \A x \in h : x \in deleted \/ \E y \in g : Like(x, y) BY <1>1, <1>4
<1> QED BY <1>3, <1>5, <1>6 DEF g

-----------------------------------------------------------------------------
(***************************************************************************)
(* The script as a whole, and the link between the hosts and the ledger.   *)
(***************************************************************************)
\* Where an account comes from that a run of the script leaves.
LEMMA RunFrom ==
    ASSUME RangesApart, NEW h, Sound(h), Distinct(h), NEW s \in Scripts, NEW busy, NEW allow,
           NEW S, S \subseteq All, NEW G, ScriptOK(s, S, G), NEW z \in RunScript(h, s, busy, allow)
    PROVE  \/ Fresh(s, z)
           \/ \E x \in h : SameOffset(S, x, z) /\ (z.name = x.name \/ z.name \in RenamedTo(h, s, busy, x))
<1> DEFINE h1 == Renaming(h, s, busy)
           d1 == RenameDeferred(h, s, busy)
           d2 == d1 \cup {x.name : x \in Earlier(h1, s) \ Renumberable(h1, s, busy)}
           h2 == Renumbering(h1, s, busy)
           h3 == Rounds(h2, s, s.users \ d2)[Len(NameOrder)]
           h4 == Removal(h3, s, busy, d2)
           To(x) == RenamedTo(h, s, busy, x)
           From(y) == \E x \in h : SameOffset(S, x, y) /\ (y.name = x.name \/ y.name \in To(x))
<1>1. z \in h1 \/ z \in h4 BY DEF RunScript
<1>2. /\ Sound(h1) /\ Distinct(h1)
      /\ \A y \in h1 : \E x \in h : /\ y.uid = x.uid /\ y.ours = x.ours /\ y.owner = x.owner /\ y.off = x.off
                                    /\ y.name = x.name \/ y.name \in To(x)
  BY RenamingKeeps, RenamingIs DEF Kept
<1> HIDE DEF h1, To
<1>3. \A y \in h1 : From(y) BY <1>2 DEF SameOffset
<1>4. /\ Sound(h2) /\ Distinct(h2)
      /\ \A y \in h2 : \E x \in h1 : SameOffset(S, x, y) /\ y.name = x.name
  BY <1>2, RenumberingKeeps, RenumberingIs DEF Kept
<1> HIDE DEF h2, d2
<1>5. \A x, y, w : SameOffset(S, x, y) /\ SameOffset(S, y, w) => SameOffset(S, x, w) BY DEF SameOffset
<1>6. \A y \in h2 : From(y) BY <1>3, <1>4, <1>5
<1>7. /\ Sound(h3) /\ \A y \in h3 : Fresh(s, y) \/ \E x \in h2 : Like(x, y)
  BY <1>4, RoundsKeep, RoundsIs DEF Kept
<1> HIDE DEF h3
<1>8. \A y \in h4 : \E x \in h3 : Like(x, y) BY <1>7, RemovalIs
<1> HIDE DEF h4
<1>9. \A x, y : Like(x, y) => SameOffset(S, x, y) /\ y.name = x.name /\ (Fresh(s, x) => Fresh(s, y))
  BY DEF Like, SameOffset, Fresh
<1>10. \A y \in h3 : Fresh(s, y) \/ From(y) BY <1>5, <1>6, <1>7, <1>9
<1>11. \A y \in h4 : Fresh(s, y) \/ From(y) BY <1>5, <1>8, <1>9, <1>10
<1> QED BY <1>1, <1>3, <1>11 DEF To

\* Where an account goes in a run of the script: it stays its person's, unless it may be
\* deleted, under the name and at the number it has then.
LEMMA RunTo ==
    ASSUME RangesApart, NEW h, Sound(h), Distinct(h), NEW s \in Scripts, NEW busy, NEW allow,
           NEW S, S \subseteq All, NEW G, ScriptOK(s, S, G), NEW x \in h
    PROVE  \/ \E z \in RunScript(h, s, busy, allow) : z.owner = x.owner
           \/ \E y : SameOffset(S, x, y) /\ Deletable(s, y) /\ y.uid \in Int
<1> DEFINE h1 == Renaming(h, s, busy)
           d1 == RenameDeferred(h, s, busy)
           d2 == d1 \cup {a.name : a \in Earlier(h1, s) \ Renumberable(h1, s, busy)}
           h2 == Renumbering(h1, s, busy)
           h3 == Rounds(h2, s, s.users \ d2)[Len(NameOrder)]
           h4 == Removal(h3, s, busy, d2)
<1>1. RunScript(h, s, busy, allow) = h1 \/ RunScript(h, s, busy, allow) = h4 BY DEF RunScript
<1>2. /\ Sound(h1) /\ Distinct(h1)
      /\ \A a \in h : \E y \in h1 : y.uid = a.uid /\ y.ours = a.ours /\ y.owner = a.owner /\ y.off = a.off
  BY RenamingKeeps, RenamingIs DEF Kept
<1> HIDE DEF h1
<1>3. PICK x1 \in h1 : SameOffset(S, x, x1) BY <1>2 DEF SameOffset
<1>4. /\ Sound(h2) /\ Distinct(h2)
      /\ \A a \in h1 : \E y \in h2 : SameOffset(S, a, y)
  BY <1>2, RenumberingKeeps, RenumberingIs DEF Kept
<1> HIDE DEF h2, d2
<1>5. PICK x2 \in h2 : SameOffset(S, x1, x2) BY <1>4
<1>6. /\ Sound(h3) /\ \A a \in h2 : \E y \in h3 : Like(a, y)
  BY <1>4, RoundsKeep, RoundsIs DEF Kept
<1> HIDE DEF h3
<1>7. PICK x3 \in h3 : Like(x2, x3) BY <1>6
<1>8. SameOffset(S, x, x3) BY <1>3, <1>5, <1>7 DEF SameOffset, Like
<1>9. \A a \in h3 : Deletable(s, a) \/ \E y \in h4 : Like(a, y)
  BY <1>6, RemovalIs
<1>10. x3.uid \in Int BY <1>6 DEF Sound, Accounts
<1> HIDE DEF h4
<1>11. CASE RunScript(h, s, busy, allow) = h1 BY <1>3, <1>11 DEF SameOffset
<1>12. CASE RunScript(h, s, busy, allow) = h4 BY <1>8, <1>9, <1>10, <1>12 DEF SameOffset, Like
<1> QED BY <1>1, <1>11, <1>12

\* An account of tacctl's is at a number that was given to its person, or at the same
\* offset of another range the ledger has been in.
Linked(h, S, G) == \A x \in h : x.ours /\ ~x.off => Within(S, x.uid) /\ GivenTo(G, x.uid, x.owner)

\* The host's accounts are.
HostInv == Linked(host, Seen(ledger), given)

\* A script of any age leaves them so.
LEMMA RunLinks ==
    ASSUME RangesApart, NEW h, Sound(h), Distinct(h), NEW s \in Scripts, NEW busy, NEW allow,
           NEW S, S \subseteq All, NEW G, ScriptOK(s, S, G), Linked(h, S, G)
    PROVE  Linked(RunScript(h, s, busy, allow), S, G)
<1> SUFFICES ASSUME NEW z \in RunScript(h, s, busy, allow), z.ours, ~z.off
             PROVE  Within(S, z.uid) /\ GivenTo(G, z.uid, z.owner)
  BY DEF Linked
<1>1. CASE Fresh(s, z)
  <2>1. z.uid = s.nums[z.name] /\ z.owner = s.who[z.name] /\ z.name \in s.users BY <1>1 DEF Fresh
  <2>2. z.name \in Names /\ s.nums[z.name] # 0 BY <2>1 DEF Scripts, ScriptOK
  <2> QED BY <2>1, <2>2 DEF ScriptOK, Within
<1>2. ASSUME NEW x \in h, SameOffset(S, x, z) PROVE Within(S, z.uid) /\ GivenTo(G, z.uid, z.owner)
  <2>1. Within(S, x.uid) /\ GivenTo(G, x.uid, x.owner) BY <1>2 DEF SameOffset, Linked
  <2> QED BY <1>2, <2>1 DEF SameOffset, GivenTo
<1> QED BY <1>1, <1>2, RunFrom

\* The operator's part: no name is given to somebody else (as account-lifecycle.md 40-44
\* asks), a range is changed while no command is between reading it and writing its
\* script, and the ranges that are ever set do not overlap.
Orderly == ~ReuseNames /\ RangeAlone /\ RangesApart

\* The inductive invariant.
LinkInv == HInv /\ OrderInv /\ StandInv /\ RowsInv /\ SourceInv /\ ScriptInv /\ HostInv

\* It holds at the start, where the host has the accounts of the legacy ledger.
LEMMA InitLink == ASSUME Orderly, HInit PROVE LinkInv
<1>0. Init /\ RangesApart BY DEF HInit, Orderly
<1>1. HInv /\ OrderInv /\ StandInv /\ RowsInv /\ SourceInv BY <1>0, HInitHInv, InitOrder, InitPeople, InitSource
<1>2. ScriptInv
  <2>1. \A c \in Cmds : cmd[c].at = "idle" BY <1>0 DEF Init, Idle
  <2> QED BY <2>1 DEF ScriptInv
<1>3. HostInv
  <2> SUFFICES ASSUME NEW x \in host, x.ours, ~x.off
               PROVE  Within(Seen(ledger), x.uid) /\ GivenTo(given, x.uid, x.owner)
    BY DEF HostInv, Linked
  <2>1. PICK n \in Names : ledger.nums[n] # 0 /\ x = Account(n, ledger.nums[n], who[n]) BY DEF HInit
  <2>2. x.uid = ledger.nums[n] /\ x.owner = who[n] BY <2>1 DEF Account
  <2>3. Lawful(ledger) BY <1>1 DEF OrderInv
  <2>4. who[n] = line[n] BY <1>0, <2>1 DEF Init, NoNums
  <2>5. GivenTo(given, ledger.nums[n], line[n]) BY <1>1, <2>1 DEF SourceInv
  <2> QED BY <2>1, <2>2, <2>3, <2>4, <2>5, NumsWithin
<1> QED BY <1>1, <1>2, <1>3 DEF LinkInv

\* What the commands, the store and the ledger do.
LEMMA LedgerLinks ==
    ASSUME Orderly, IInv, OrderInv, StandInv, RowsInv, SourceInv, ScriptInv, [Next]_vars
    PROVE  /\ OrderInv' /\ StandInv' /\ RowsInv' /\ SourceInv' /\ ScriptInv'
           /\ Seen(ledger) \subseteq Seen(ledger') /\ given \subseteq given' /\ LedgerStep
<1>0. RangesApart /\ RangeAlone /\ ~ReuseNames BY DEF Orderly
<1>1. LedgerStep /\ ScriptStep BY <1>0, LedgerSteps, ScriptSteps
<1>2. SourceInv' /\ Seen(ledger) \subseteq Seen(ledger') /\ given \subseteq given' BY <1>0, <1>1, SourceKept
<1>3. ScriptInv' BY <1>0, <1>1, ScriptKept
<1>4. OrderInv' /\ StandInv' /\ RowsInv'
  <2>1. CASE StoreWrites
    <3>1. ren # NoRen => ren[1] # ren[2] BY DEF StandInv
    <3> QED BY <1>0, <2>1, <3>1, StoreOrder, StorePeople
  <2>2. CASE RangeChange BY <1>0, <2>2, RangeOrder, RangePeople
  <2>3. ASSUME NEW c \in Cmds, Commands(c) \/ Done(c) PROVE OrderInv' /\ StandInv' /\ RowsInv'
    BY <1>0, <2>3, CommandOrder, CommandPeople
  <2>4. CASE UNCHANGED vars BY <2>4 DEF vars, OrderInv, StandInv, RowsInv
  <2> QED BY <2>1, <2>2, <2>3, <2>4 DEF Next
<1> QED BY <1>1, <1>2, <1>3, <1>4

\* Every step keeps the invariant.
LEMMA NextLink == ASSUME Orderly, LinkInv, [HNext]_hvars PROVE LinkInv' /\ LedgerStep
<1>0. RangesApart /\ Lawful(ledger) BY DEF Orderly, LinkInv, OrderInv
<1>1. [Next]_vars BY HNextIsNext
<1>2. HInv' BY HNextKeeps DEF LinkInv
<1>3. /\ OrderInv' /\ StandInv' /\ RowsInv' /\ SourceInv' /\ ScriptInv'
      /\ Seen(ledger) \subseteq Seen(ledger') /\ given \subseteq given' /\ LedgerStep
  BY <1>1, LedgerLinks DEF LinkInv, HInv
<1>4. ASSUME NEW h, Linked(h, Seen(ledger), given) PROVE Linked(h, Seen(ledger'), given')
  BY <1>3, <1>4 DEF Linked, Within, GivenTo
<1>5. Linked(host', Seen(ledger), given)
  <2>1. CASE UNCHANGED host BY <2>1 DEF LinkInv, HostInv, Linked
  <2>2. ASSUME NEW c \in Cmds, Run(c) PROVE Linked(host', Seen(ledger), given)
    <3>1. cmd[c].script \in Scripts /\ Sound(host) /\ Distinct(host) BY DEF LinkInv, HInv, IInv, CmdInv, Commanding
    <3>2. ScriptOK(cmd[c].script, Seen(ledger), given) BY <2>2 DEF Run, At, LinkInv, ScriptInv
    <3>3. PICK allow, busy : host' = RunScript(host, cmd[c].script, busy, allow) BY <2>2 DEF Run
    <3>4. Seen(ledger) \subseteq All BY <1>0, SeenAre
    <3>5. Linked(host, Seen(ledger), given) BY DEF LinkInv, HostInv
    <3>6. Linked(RunScript(host, cmd[c].script, busy, allow), Seen(ledger), given)
      BY <1>0, <3>1, <3>2, <3>4, <3>5, RunLinks
    <3> QED BY <3>3, <3>6
  <2>3. ASSUME NEW n \in Names, LocalAdd(n) PROVE Linked(host', Seen(ledger), given)
    <3>1. host' = host \cup {Account(n, LocalUID, 0)} BY <2>3 DEF LocalAdd
    <3>2. ~Account(n, LocalUID, 0).ours BY DEF Account
    <3> QED BY <3>1, <3>2 DEF LinkInv, HostInv, Linked
  <2> QED BY <2>1, <2>2, <2>3 DEF HNext, hvars
<1>6. HostInv' BY <1>4, <1>5 DEF HostInv
<1> QED BY <1>2, <1>3, <1>6 DEF LinkInv

-----------------------------------------------------------------------------
(***************************************************************************)
(* The three promises.                                                     *)
(***************************************************************************)
\* Two numbers as far from one start.
LEMMA SameDistance == ASSUME NEW u \in Int, NEW v \in Int, NEW a \in Int, u - a = v - a PROVE u = v
OBVIOUS

\* A person with one number was given no other.
LEMMA OneNumber ==
    ASSUME SourceInv, NEW p, ~Split(p), NEW u, NEW v, GivenTo(given, u, p), GivenTo(given, v, p)
    PROVE  Offset(u) = Offset(v)
<1> DEFINE P == {g \in given : g[2] = p}
           T == {g[1] : g \in P}
           f == [g \in P |-> g[1]]
<1>1. IsFiniteSet(P) BY FS_Subset DEF SourceInv
<1>2. f \in Surjection(P, T) BY DEF Surjection
<1>3. IsFiniteSet(T) BY <1>1, <1>2, FS_Surjection DEF ExistsSurjection
<1>4. Cardinality(T) \in Nat /\ ~(Cardinality(T) > 1) BY <1>3, FS_CardinalityType DEF Split
<1> HIDE DEF f
<1>5. PICK g \in given : g[2] = p /\ Offset(g[1]) = Offset(u) BY DEF GivenTo
<1>6. PICK h \in given : h[2] = p /\ Offset(h[1]) = Offset(v) BY DEF GivenTo
<1>7. g[1] \in T /\ h[1] \in T BY <1>5, <1>6
<1>8. g[1] = h[1]
  <2> SUFFICES ASSUME g[1] # h[1] PROVE FALSE OBVIOUS
  <2> DEFINE a == g[1]
             b == h[1]
             Q == {a} \cup {b}
  <2>1. Q \subseteq T BY <1>7
  <2> HIDE DEF T
  <2>2. Cardinality(Q) = 2
    <3>1. IsFiniteSet({a}) /\ Cardinality({a}) = 1 BY FS_Singleton
    <3>2. b \notin {a} OBVIOUS
    <3> HIDE DEF a, b
    <3>3. Cardinality({a} \cup {b}) = Cardinality({a}) + 1 BY <3>1, <3>2, FS_AddElement
    <3> QED BY <3>1, <3>3
  <2>3. Cardinality(Q) <= Cardinality(T) BY <1>3, <2>1, FS_Subset
  <2> HIDE DEF Q
  <2> QED BY <1>4, <2>2, <2>3
<1> QED BY <1>5, <1>6, <1>8

\* What the invariant says of an account of a person who is in the ledger.
LEMMA LinkIsTheLink == ASSUME Orderly, LinkInv PROVE NumberIsTheLink
<1>0. RangesApart /\ Lawful(ledger) BY DEF Orderly, LinkInv, OrderInv
<1>1. HTypeOK BY DEF LinkInv, HInv, Sound, Distinct, Accounts, HTypeOK
<1> SUFFICES ASSUME NEW x \in host, NEW m \in Names, x.ours, ~x.off, line[m] = x.owner, ~Split(x.owner)
             PROVE  \/ x.uid = ledger.nums[m]
                    \/ \E i \in 1 .. Len(ledger.prev) :
                          /\ Has(ledger.prev[i], x.uid)
                          /\ x.uid - ledger.prev[i].min = ledger.nums[m] - ledger.rec.min
  BY <1>1 DEF NumberIsTheLink
<1>2. x.owner # 0 /\ x.uid \in Int BY DEF LinkInv, HInv, Sound, Accounts
<1>3. ledger.nums[m] # 0 /\ ledger.nums[m] \in Nat BY <1>0, <1>2, NumsAre DEF LinkInv, RowsInv
<1>4. GivenTo(given, ledger.nums[m], x.owner) BY <1>3 DEF LinkInv, SourceInv
<1>5. Within(Seen(ledger), x.uid) /\ GivenTo(given, x.uid, x.owner) BY DEF LinkInv, HostInv, Linked
<1>6. Offset(x.uid) = Offset(ledger.nums[m]) BY <1>4, <1>5, OneNumber DEF LinkInv
<1>7. PICK r \in Seen(ledger) : Has(r, x.uid) BY <1>5 DEF Within
<1>8. r \in All /\ r.min \in Nat BY <1>0, SeenAre, AllType
<1>9. Offset(x.uid) = x.uid - r.min BY <1>0, <1>2, <1>7, <1>8, OffsetIs
<1>10. CASE ledger.rec = NoRange
  <2>1. ledger.nums # NoNums BY <1>3 DEF NoNums
  <2>2. r = Legacy BY <1>10, <2>1 DEF Seen
  <2>3. ledger.nums[m] = Legacy.min BY <1>0, <1>3, <1>10 DEF Lawful
  <2>4. Has(Legacy, Legacy.min) BY AllType DEF All, Has
  <2>5. Offset(Legacy.min) = Legacy.min - Legacy.min BY <1>0, <1>8, <2>2, <2>4, OffsetIs
  <2>6. x.uid - r.min = r.min - r.min BY <1>6, <1>9, <2>2, <2>3, <2>5
  <2>7. x.uid = r.min BY <1>2, <1>8, <2>6, SameDistance
  <2> QED BY <2>2, <2>3, <2>7
<1>11. CASE ledger.rec # NoRange
  <2>1. ledger.rec \in All /\ Has(ledger.rec, ledger.nums[m]) BY <1>0, <1>3, <1>11 DEF Lawful
  <2>2. Offset(ledger.nums[m]) = ledger.nums[m] - ledger.rec.min BY <1>0, <1>3, <2>1, OffsetIs
  <2>3. r = ledger.rec \/ \E i \in 1 .. Len(ledger.prev) : r = ledger.prev[i] BY <1>11 DEF Seen
  <2>4. CASE r = ledger.rec
    <3>1. x.uid - r.min = ledger.nums[m] - r.min BY <1>6, <1>9, <2>2, <2>4
    <3>2. x.uid = ledger.nums[m] BY <1>2, <1>3, <1>8, <3>1, SameDistance
    <3> QED BY <3>2
  <2>5. ASSUME NEW i \in 1 .. Len(ledger.prev), r = ledger.prev[i]
        PROVE  Has(ledger.prev[i], x.uid) /\ x.uid - ledger.prev[i].min = ledger.nums[m] - ledger.rec.min
    BY <1>6, <1>7, <1>9, <2>2, <2>5
  <2> QED BY <2>3, <2>4, <2>5
<1> QED BY <1>10, <1>11

\* A step that is a run of c's script.
LEMMA RanIs ==
    ASSUME HInv, [HNext]_hvars, NEW c \in Cmds, Ran(c)
    PROVE  \E allow, busy : host' = RunScript(host, cmd[c].script, busy, allow)
<1>0. cmd[c].at = "built" /\ cmd'[c].at = "idle" /\ host' # host BY DEF Ran, At, Idle
<1>1. ~UNCHANGED cmd BY <1>0
<1>2. PICK d \in Cmds : Run(d) BY <1>0, <1>1 DEF HNext, LocalAdd, hvars, vars
<1>3. cmd' = [cmd EXCEPT ![d] = Idle] BY <1>2 DEF Run, Done
<1>4. d = c BY <1>0, <1>3 DEF HInv, IInv, CmdInv
<1> QED BY <1>2, <1>4 DEF Run

\* A run of the script keeps the account of a person it names.
LEMMA PersonStays ==
    ASSUME Orderly, LinkInv, [HNext]_hvars, NEW c \in Cmds, Ran(c),
           NEW n \in Known(cmd[c].script), cmd[c].script.nums[n] # 0,
           ~Split(cmd[c].script.who[n]), cmd[c].script.who[n] \in People({x \in host : ~x.off})
    PROVE  cmd[c].script.who[n] \in People(host')
<1> DEFINE s == cmd[c].script
           p == s.who[n]
           S == Seen(ledger)
<1>0. RangesApart /\ Lawful(ledger) /\ HInv /\ SourceInv BY DEF Orderly, LinkInv, OrderInv
<1>1. s \in Scripts /\ Sound(host) /\ Distinct(host) BY <1>0 DEF HInv, IInv, CmdInv, Commanding
<1>2. ScriptOK(s, S, given) BY DEF Ran, At, LinkInv, ScriptInv
<1>3. S \subseteq All BY <1>0, SeenAre
<1>4. PICK allow, busy : host' = RunScript(host, s, busy, allow) BY <1>0, RanIs
<1>5. PICK x \in host : ~x.off /\ x.owner = p /\ p # 0 BY DEF People
<1>6. x.ours BY <1>1, <1>5 DEF Sound
<1>7. n \in Names /\ s.nums[n] \in Nat BY <1>1 DEF Known, Scripts
<1>8. s.rng \in All /\ Has(s.rng, s.nums[n]) /\ GivenTo(given, s.nums[n], p) BY <1>2, <1>3, <1>7 DEF ScriptOK
<1>9. Within(S, x.uid) /\ GivenTo(given, x.uid, p) BY <1>5, <1>6 DEF LinkInv, HostInv, Linked
<1>10. Offset(x.uid) = Offset(s.nums[n]) BY <1>0, <1>8, <1>9, OneNumber
<1> HIDE DEF s, S
<1>11. ASSUME NEW y, SameOffset(S, x, y), Deletable(s, y), y.uid \in Int PROVE FALSE
  <2>1. Offset(y.uid) = Offset(s.nums[n]) BY <1>10, <1>11 DEF SameOffset
  <2>2. Offset(y.uid) = y.uid - s.rng.min BY <1>0, <1>8, <1>11, OffsetIs DEF Deletable
  <2>3. Offset(s.nums[n]) = s.nums[n] - s.rng.min BY <1>0, <1>7, <1>8, OffsetIs
  <2>4. s.rng.min \in Nat BY <1>8, AllType
  <2>5. y.uid = s.nums[n]
    <3>1. y.uid - s.rng.min = s.nums[n] - s.rng.min BY <2>1, <2>2, <2>3
    <3> QED BY <1>7, <1>11, <2>4, <3>1, SameDistance
  <2>6. n \in AssignedHolder(s, y.uid) BY <2>5 DEF AssignedHolder, s
  <2>7. y.name = n BY <1>11, <2>6 DEF Deletable
  <2> QED BY <1>11, <2>7 DEF Deletable, s
<1>12. PICK z \in RunScript(host, s, busy, allow) : z.owner = x.owner
  BY <1>0, <1>1, <1>2, <1>3, <1>11, RunTo
<1>13. p \in People(host') BY <1>4, <1>5, <1>12 DEF People
<1> QED BY <1>13 DEF s

\* rename_accounts: an account that gets a name has the offset of the name's number.
LEMMA HolderOffset ==
    ASSUME RangesApart, NEW h, Sound(h), NEW s \in Scripts, NEW S, S \subseteq All, NEW G, ScriptOK(s, S, G),
           NEW n \in Names, NEW x \in HolderOf(h, s, n), Within(S, x.uid)
    PROVE  s.nums[n] # 0 /\ Offset(x.uid) = Offset(s.nums[n])
<1> DEFINE c == Candidates(s, n)
           d == [i \in 1 .. Len(s.prev) |-> LET u == s.nums[n] - s.rng.min + s.prev[i].min
                                            IN  IF Has(s.prev[i], u) THEN u ELSE 0]
<1>0. s.prev \in Seq(Rng) /\ Len(s.prev) \in Nat /\ s.nums[n] \in Nat BY DEF Scripts
<1>1. s.nums[n] # 0 /\ \E i \in 1 .. Len(c) : x.uid = c[i] BY DEF HolderOf
<1>2. c = <<s.nums[n]>> \o d BY DEF Candidates
<1>3. Len(d) = Len(s.prev) BY <1>0
<1>4. \A i \in 1 .. Len(c) : c[i] = s.nums[n] \/ \E j \in 1 .. Len(s.prev) : c[i] = d[j]
  <2> HIDE DEF c, d
  <2>1. d \in Seq(Int)
    <3>1. \A i \in 1 .. Len(s.prev) : d[i] \in Int
      <4>1. s.rng.min \in Nat BY DEF Scripts, Rng
      <4>2. \A i \in 1 .. Len(s.prev) : s.prev[i] \in Rng BY <1>0
      <4>3. \A i \in 1 .. Len(s.prev) : s.prev[i].min \in Nat BY <4>2 DEF Rng
      <4> QED BY <1>0, <4>1, <4>3 DEF d
    <3>2. DOMAIN d = 1 .. Len(s.prev) BY DEF d
    <3>3. d = [i \in 1 .. Len(s.prev) |-> d[i]] BY DEF d
    <3>4. d \in [1 .. Len(s.prev) -> Int] BY <3>1, <3>3
    <3> QED BY <1>0, <3>4
  <2> QED BY <1>0, <1>2, <1>3, <2>1
<1>5. s.rng \in All /\ Has(s.rng, s.nums[n]) BY <1>1 DEF ScriptOK
<1>6. Offset(s.nums[n]) = s.nums[n] - s.rng.min /\ s.rng.min \in Nat BY <1>0, <1>5, OffsetIs, AllType
<1>7. CASE x.uid = s.nums[n] BY <1>1, <1>7
<1>8. ASSUME NEW j \in 1 .. Len(s.prev), x.uid = d[j] PROVE Offset(x.uid) = Offset(s.nums[n])
  <2> DEFINE u == s.nums[n] - s.rng.min + s.prev[j].min
  <2>1. d[j] = IF Has(s.prev[j], u) THEN u ELSE 0 OBVIOUS
  <2>2. x.uid # 0
    <3>1. PICK r \in All : Has(r, x.uid) BY DEF Within
    <3>2. r.min \in Nat /\ r.min >= 1 BY AllType
    <3> QED BY <3>1, <3>2 DEF Has
  <2> HIDE DEF d
  <2>3. x.uid = u /\ Has(s.prev[j], u) BY <1>8, <2>1, <2>2
  <2>4. s.prev[j] \in All /\ s.prev[j].min \in Nat BY <1>8, AllType DEF ScriptOK
  <2>5. u \in Int BY <1>0, <1>6, <2>4
  <2>6. Offset(u) = u - s.prev[j].min
    <3> HIDE DEF u
    <3> QED BY <2>3, <2>4, <2>5, OffsetIs
  <2>7. Offset(u) = Offset(s.nums[n]) BY <1>0, <1>6, <2>4, <2>6
  <2> QED BY <2>3, <2>7
<1> QED BY <1>1, <1>4, <1>7, <1>8

\* A name that a run gives to an account is its person's.
LEMMA NameIsThePersons ==
    ASSUME Orderly, LinkInv, MemoryInv, [HNext]_hvars, NEW c \in Cmds, Ran(c),
           NEW z \in host', z.ours, ~z.off, ~(\E y \in host : y.name = z.name /\ y.owner = z.owner)
    PROVE  z.owner = cmd[c].script.who[z.name]
<1> DEFINE s == cmd[c].script
           S == Seen(ledger)
<1>0. RangesApart /\ Lawful(ledger) /\ HInv /\ SourceInv BY DEF Orderly, LinkInv, OrderInv
<1>1. s \in Scripts /\ Sound(host) /\ Distinct(host) BY <1>0 DEF HInv, IInv, CmdInv, Commanding
<1>2. ScriptOK(s, S, given) BY DEF Ran, At, LinkInv, ScriptInv
<1>3. S \subseteq All BY <1>0, SeenAre
<1>4. PICK allow, busy : host' = RunScript(host, s, busy, allow) BY <1>0, RanIs
<1> HIDE DEF s, S
<1>5. \/ Fresh(s, z)
      \/ \E x \in host : SameOffset(S, x, z) /\ (z.name = x.name \/ z.name \in RenamedTo(host, s, busy, x))
  BY <1>0, <1>1, <1>2, <1>3, <1>4, RunFrom
<1>6. CASE Fresh(s, z) BY <1>6 DEF Fresh, s
<1>7. ASSUME NEW x \in host, SameOffset(S, x, z), z.name = x.name \/ z.name \in RenamedTo(host, s, busy, x)
      PROVE  z.owner = s.who[z.name]
  <2>1. x.ours /\ ~x.off /\ x.owner = z.owner BY <1>7 DEF SameOffset
  <2>2. z.name \in RenamedTo(host, s, busy, x) BY <1>7, <2>1
  <2>3. z.name \in Names /\ x \in HolderOf(host, s, z.name) BY <1>1, <2>2 DEF RenamedTo, Stale, Known, Scripts
  <2>4. Within(S, x.uid) /\ GivenTo(given, x.uid, x.owner) BY <2>1 DEF LinkInv, HostInv, Linked, S
  <2>5. s.nums[z.name] # 0 /\ Offset(x.uid) = Offset(s.nums[z.name])
    BY <1>0, <1>1, <1>2, <1>3, <2>3, <2>4, HolderOffset
  <2>6. GivenTo(given, s.nums[z.name], s.who[z.name]) BY <1>2, <2>3, <2>5 DEF ScriptOK
  <2>7. x.owner = s.who[z.name] BY <2>4, <2>5, <2>6 DEF GivenTo, MemoryInv
  <2> QED BY <2>1, <2>7
<1> QED BY <1>5, <1>6, <1>7 DEF s

\* client-install.sh 520-543, for any users, ranges, scripts and hosts: the account that
\* tacctl gave to a person with one number is at the number of the person's line, or as
\* far into an earlier range, whatever was renamed and renumbered and whichever scripts,
\* old and new, were run.
THEOREM NumberLinks == ASSUME Orderly PROVE HSpec => []NumberIsTheLink
<1>1. HInit => LinkInv BY InitLink
<1>2. LinkInv /\ [HNext]_hvars => LinkInv' BY NextLink
<1>3. LinkInv => NumberIsTheLink BY LinkIsTheLink
<1> QED BY <1>1, <1>2, <1>3, PTL DEF HSpec

\* client-install.sh 1664-1694, likewise: no run of a script of any age deletes the account
\* of a person with one number whom the script lists or disables.
THEOREM AccountsOfUsersStay == ASSUME Orderly PROVE HSpec => UsersKeepAccounts
<1> DEFINE A == \A c \in Cmds : Ran(c) =>
                   LET s == cmd[c].script
                   IN  \A n \in Known(s) :
                          /\ s.nums[n] # 0 /\ s.who[n] = s.line[n] /\ ~Split(s.who[n])
                          /\ s.who[n] \in People({x \in host : ~x.off})
                          => s.who[n] \in People(host')
<1>1. HInit => LinkInv BY InitLink
<1>2. LinkInv /\ [HNext]_hvars => LinkInv' BY NextLink
<1>3. LinkInv /\ [HNext]_hvars => A BY PersonStays
<1>4. LinkInv /\ [HNext]_hvars => [A]_hvars
  <2> HIDE DEF A
  <2> QED BY <1>3
<1> QED BY <1>1, <1>2, <1>4, PTL DEF HSpec, UsersKeepAccounts

\* docs/hosts/account-lifecycle.md 13-28, likewise, where nobody sets numbers by hand
\* (config linux uid): an account that a run creates under a name, or renames to it, is the
\* account of the person whom the ledger's line of that name was given to.
THEOREM NoAccountHandedOver ==
    ASSUME Orderly, MaxAssigns = 0
    PROVE  HSpec => NoHandover
<1> DEFINE A == \A c \in Cmds : Ran(c) =>
                   \A x \in host' : x.ours /\ ~x.off /\ ~(\E y \in host : y.name = x.name /\ y.owner = x.owner) =>
                      x.owner \in {cmd[c].script.who[x.name], cmd[c].script.line[x.name]}
           M == LinkInv /\ MemoryInv
<1>1. HInit => M BY InitLink, InitSource DEF HInit, Orderly
<1>2. M /\ [HNext]_hvars => M'
  <2> SUFFICES ASSUME M, [HNext]_hvars PROVE M' OBVIOUS
  <2>1. LinkInv' /\ LedgerStep BY NextLink
  <2>2. MemoryInv' BY <2>1, MemoryKept DEF LinkInv, HInv, Orderly
  <2> QED BY <2>1, <2>2
<1>3. M /\ [HNext]_hvars => A BY NameIsThePersons
<1>4. M /\ [HNext]_hvars => [A]_hvars
  <2> HIDE DEF A, M
  <2> QED BY <1>3
<1> QED BY <1>1, <1>2, <1>4, PTL DEF HSpec, NoHandover
=============================================================================
