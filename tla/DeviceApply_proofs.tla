------------------------ MODULE DeviceApply_proofs ------------------------
(***************************************************************************)
(* Proofs about DeviceApply, for any number of commands, strangers'         *)
(* commits, history depth, windows, margins and faults.                      *)
(***************************************************************************)
EXTENDS DeviceApply, TLAPS

Who == Proc \cup {NoOne}
LocType == [pre : Nat, win : 0..Window, until : Int, cand : Config,
            bann : BOOLEAN, noBanner : BOOLEAN, verified : BOOLEAN,
            committing : BOOLEAN, ok : BOOLEAN,
            id : Who, len : Nat, pending : BOOLEAN, over : BOOLEAN,
            after : BOOLEAN, before : BOOLEAN]
RecType == [id : Who,
            res : {"none", "checked", "no-change", "pending", "applied", "rolled-back", "unknown", "failed"},
            until : Int]
PendType == [on : BOOLEAN, left : Int, before : Config]
Fate4 == {"none", "pending", "kept", "undone"}

DeviceOK ==
    /\ hist \in Seq(Entry) /\ hist # <<>>
    /\ pend \in PendType /\ (pend.on => pend.left \in -ExpiryLag..Window)
    /\ excl \in Who /\ typed \in 0..MaxStranger
    /\ ground \in [Proc -> Fate4]
FilesOK == lock \in Who /\ rec \in RecType
ProcOK ==
    /\ pc \in [Proc -> Where] /\ loc \in [Proc -> LocType] /\ out \in [Proc -> Exits]
    /\ held \in [Proc -> BOOLEAN] /\ intr \in [Proc -> BOOLEAN]

\* The first commit of the device is nobody's apply, so there is a rollback 1
\* to go back to wherever tacctl undoes its own.
ShapeOK == hist[1].kind = "plain" /\ \A p \in Proc : pc[p] = "undo" => Len(hist) >= 2

TypeInv == DeviceOK /\ FilesOK /\ ProcOK /\ ShapeOK

LEMMA TypeOKFromInv == TypeInv => TypeOK
BY DEF TypeInv, TypeOK, DeviceOK, FilesOK, ProcOK, LocType, RecType, PendType, Fate4, Who

----------------------------------------------------------------------------
(* What the operators return.                                              *)

LEMMA TimeFacts ==
    /\ Window \in Nat /\ SettleSlack \in Nat /\ ExpiryLag \in Nat
    /\ MinWindow \in Nat /\ CancelMargin \in Nat /\ CancelMargin >= 1 /\ MinWindow >= 1
BY TimeAssumption

LEMMA FreshType == Fresh \in LocType /\ Fresh.id = NoOne
BY TimeFacts DEF Fresh, LocType, ZeroTime, Who, Config

\* Every field that a step assigns, given a value of the field's type.
LEMMA LocFacts ==
    ASSUME NEW l \in LocType
    PROVE  /\ \A n \in Nat : [l EXCEPT !.pre = n] \in LocType
           /\ \A t \in Int : [l EXCEPT !.until = t] \in LocType
           /\ \A c \in Config : [l EXCEPT !.cand = c] \in LocType
           /\ \A t \in Int, c \in Config : [l EXCEPT !.until = t, !.cand = c] \in LocType
           /\ \A b \in BOOLEAN : [l EXCEPT !.bann = b] \in LocType
           /\ \A b \in BOOLEAN : [l EXCEPT !.noBanner = b] \in LocType
           /\ \A b \in BOOLEAN : [l EXCEPT !.ok = b] \in LocType
           /\ \A b \in BOOLEAN : [l EXCEPT !.pending = b] \in LocType
           /\ \A b \in BOOLEAN : [l EXCEPT !.after = b] \in LocType
           /\ \A b \in BOOLEAN : [l EXCEPT !.before = b] \in LocType
           /\ [l EXCEPT !.verified = TRUE] \in LocType
           /\ \A n \in Nat, w \in 0..Window : [l EXCEPT !.pre = n, !.committing = TRUE, !.win = w] \in LocType
           /\ \A w \in 0..Window, t \in Int : [l EXCEPT !.win = w, !.until = t] \in LocType
           /\ \A i \in Who : [l EXCEPT !.id = i] \in LocType
           /\ \A i \in Who, t \in Int : [l EXCEPT !.id = i, !.until = t] \in LocType
           /\ \A i \in Who, n \in Nat, b, o \in BOOLEAN, t \in Int :
                [l EXCEPT !.id = i, !.len = n, !.pending = b, !.over = o, !.until = t] \in LocType
           /\ l.until \in Int /\ l.win \in 0..Window /\ l.cand \in Config /\ l.id \in Who
           /\ l.over \in BOOLEAN /\ l.ok \in BOOLEAN /\ l.len \in Nat /\ l.pre \in Nat
BY ZenonT(60) DEF LocType

LEMMA ResultType ==
    ASSUME NEW e \in Exits
    PROVE  ResultOf(e) \in {"checked", "no-change", "pending", "applied", "rolled-back", "unknown", "failed"}
BY DEF ResultOf, Exits

Settled == {"unknown", "pending", "nothing-committed", "applied-by-other", "applied", "rolled-back"}

LEMMA FateType ==
    ASSUME NEW i, NEW id
    PROVE  /\ Fate(i, id).e \in {"applied", "rolled-back", "unknown"}
           /\ Fate(i, id).over = FALSE
           /\ [Fate(i, id) EXCEPT !.over = TRUE].e = Fate(i, id).e
           /\ [Fate(i, id) EXCEPT !.over = TRUE].over = TRUE
BY DEF Fate, Verdict

LEMMA SettleType ==
    ASSUME NEW id, NEW n, NEW pending, NEW pre, NEW until
    PROVE  /\ Settle(id, n, pending, pre, until).e \in Settled
           /\ Settle(id, n, pending, pre, until).over \in BOOLEAN
<1> DEFINE i == OursAt(id, n)
           f == Fate(i, id)
<1>1. /\ f.e \in Settled /\ f.over \in BOOLEAN
      /\ [f EXCEPT !.over = TRUE].e \in Settled /\ [f EXCEPT !.over = TRUE].over \in BOOLEAN
  BY FateType DEF Settled
<1>2. \A e \in Settled, b \in BOOLEAN, o \in BOOLEAN : Verdict(e, b, o).e \in Settled /\ Verdict(e, b, o).over \in BOOLEAN
  BY DEF Verdict
<1> HIDE DEF i, f
<1>3. i = OursAt(id, n) /\ f = Fate(i, id) BY DEF i, f
<1> QED BY <1>1, <1>2, <1>3 DEF Settle, Settled

LEMMA SettledExits == Settled \subseteq Exits
BY DEF Settled, Exits

\* What the device's own operations leave: a longer history with the same
\* first commit, or the same one.
Grown == /\ hist' \in Seq(Entry) /\ Len(hist') >= Len(hist) /\ hist'[1] = hist[1]
         /\ hist' # <<>>
         /\ pend' \in PendType /\ (pend'.on => pend'.left \in -ExpiryLag..Window)
         /\ ground' \in [Proc -> Fate4]

LEMMA AppendFacts ==
    ASSUME NEW h \in Seq(Entry), h # <<>>, NEW e \in Entry
    PROVE  /\ Append(h, e) \in Seq(Entry) /\ Append(h, e) # <<>>
           /\ Len(Append(h, e)) = Len(h) + 1
           /\ Append(h, e)[1] = h[1] /\ Append(h, e)[Len(h) + 1] = e
<1>1. Len(h) \in Nat \ {0} OBVIOUS
<1> QED BY <1>1

LEMMA GroundType ==
    ASSUME DeviceOK, NEW cfg, NEW q PROVE Fates(cfg, q) \in [Proc -> Fate4]
BY DEF DeviceOK, Fates, Fate4

LEMMA TopFacts ==
    ASSUME DeviceOK
    PROVE  Top \in Nat \ {0} /\ hist[Top] \in Entry /\ Running \in Config
<1>1. Len(hist) \in Nat /\ Len(hist) # 0 BY DEF DeviceOK
<1>2. hist[Len(hist)] \in Entry BY <1>1 DEF DeviceOK
<1> QED BY <1>1, <1>2 DEF Top, Running, Entry

LEMMA CommitGrows == ASSUME DeviceOK, NEW e \in Entry, Commit(e) PROVE Grown
<1>1. NoPending \in PendType /\ ~NoPending.on BY DEF NoPending, PendType, Config
<1>2. hist' = Append(hist, e) /\ pend' = NoPending /\ ground' \in [Proc -> Fate4]
  BY GroundType DEF Commit
<1> QED BY <1>1, <1>2, AppendFacts DEF Grown, DeviceOK

LEMMA CheckGrows == ASSUME DeviceOK, CommitCheck PROVE Grown
<1>1. NoPending \in PendType /\ ~NoPending.on BY DEF NoPending, PendType, Config
<1>2. hist' = hist /\ pend' = NoPending /\ ground' \in [Proc -> Fate4]
  BY GroundType DEF CommitCheck
<1> QED BY <1>1, <1>2 DEF Grown, DeviceOK

LEMMA UnderTimerGrows ==
    ASSUME DeviceOK, NEW e \in Entry, NEW q, CommitUnderTimer(q, e) PROVE Grown
<1>1. pend.before \in Config BY DEF DeviceOK, PendType
<1>2. Window \in -ExpiryLag..Window BY TimeFacts
<1>3. pend' \in PendType /\ pend'.left = Window
  BY <1>1, TopFacts, TimeFacts DEF CommitUnderTimer, PendType
<1>4. ground' \in [Proc -> Fate4] BY DEF CommitUnderTimer, DeviceOK, Fate4
<1>5. hist' = Append(hist, e) BY DEF CommitUnderTimer
<1> QED BY <1>2, <1>3, <1>4, <1>5, AppendFacts DEF Grown, DeviceOK

LEMMA SameGrows == ASSUME DeviceOK, UNCHANGED <<hist, pend, ground>> PROVE Grown
BY DEF DeviceOK, Grown

\* The process moves, to an undo only where there is something to go back to.
Moves(p) == \E to \in Where : pc' = [pc EXCEPT ![p] = to] /\ (to = "undo" => Len(hist) >= 2)

LEMMA MovesTo ==
    ASSUME NEW p \in Proc, NEW to \in Where, Goto(p, to), to = "undo" => Len(hist) >= 2
    PROVE  Moves(p)
BY DEF Goto, Moves

LEMMA MovesOn ==
    ASSUME NEW p \in Proc, NEW to \in Where \ {"undo"}, Goto(p, to)
    PROVE  Moves(p)
BY MovesTo

\* A step of process p whose parts have their types.
LEMMA StepType ==
    ASSUME TypeInv, NEW p \in Proc, Grown, excl' \in Who, typed' \in 0..MaxStranger,
           FilesOK', Moves(p),
           loc' \in [Proc -> LocType], out' \in [Proc -> Exits],
           held' \in [Proc -> BOOLEAN], intr' \in [Proc -> BOOLEAN]
    PROVE  TypeInv'
<1> PICK to \in Where : pc' = [pc EXCEPT ![p] = to] /\ (to = "undo" => Len(hist) >= 2)
  BY DEF Moves
<1>1. DeviceOK' BY DEF DeviceOK, Grown
<1>2. ProcOK' BY DEF TypeInv, ProcOK
<1>3. ShapeOK'
  <2>1. \A q \in Proc : pc'[q] = "undo" => Len(hist') >= 2
    BY DEF TypeInv, ShapeOK, ProcOK, Grown, DeviceOK
  <2> QED BY <2>1 DEF TypeInv, ShapeOK, Grown
<1> QED BY <1>1, <1>2, <1>3 DEF TypeInv

\* The parts of TypeInv, for the leaves that need several of them.
LEMMA Parts ==
    ASSUME TypeInv
    PROVE  /\ DeviceOK /\ FilesOK /\ ProcOK /\ ShapeOK
           /\ excl \in Who /\ typed \in 0..MaxStranger /\ lock \in Who /\ rec \in RecType
           /\ pc \in [Proc -> Where] /\ loc \in [Proc -> LocType] /\ out \in [Proc -> Exits]
           /\ held \in [Proc -> BOOLEAN] /\ intr \in [Proc -> BOOLEAN]
           /\ \A p \in Proc : loc[p] \in LocType
           /\ pend.on \in BOOLEAN /\ pend.left \in Int /\ NoOne \in Who
           /\ Running \in Config /\ Top \in Nat \ {0}
BY TopFacts DEF TypeInv, DeviceOK, FilesOK, ProcOK, PendType, Who

LEMMA SetType ==
    ASSUME TypeInv, NEW p \in Proc, NEW l \in LocType, Set(p, l)
    PROVE  loc' \in [Proc -> LocType]
BY Parts DEF Set

LEMMA QuietType ==
    ASSUME TypeInv, NEW p \in Proc, Quiet, NEW to \in Where, Goto(p, to),
           to = "undo" => Len(hist) >= 2, loc' \in [Proc -> LocType]
    PROVE  TypeInv'
<1>1. Grown BY Parts, SameGrows DEF Quiet, device
<1>2. UNCHANGED <<excl, typed, lock, rec, out, held, intr>> BY DEF Quiet, device, files
<1>3. FilesOK' BY <1>2, Parts DEF FilesOK
<1> QED BY <1>1, <1>2, <1>3, MovesTo, Parts, StepType

LEMMA QuietOn ==
    ASSUME TypeInv, NEW p \in Proc, Quiet, NEW to \in Where \ {"undo"}, Goto(p, to),
           loc' \in [Proc -> LocType]
    PROVE  TypeInv'
BY QuietType

LEMMA StopType ==
    ASSUME TypeInv, NEW p \in Proc, NEW e \in Exits, Stop(p, e) PROVE TypeInv'
<1>1. UNCHANGED <<hist, pend, ground, excl, typed, lock, rec, loc, held, intr>>
  BY DEF Stop, device, files
<1>2. Grown BY <1>1, Parts, SameGrows
<1>3. FilesOK' BY <1>1, Parts DEF FilesOK
<1>4. out' \in [Proc -> Exits] /\ Moves(p)
  BY Parts, MovesOn DEF Stop, Finish, Where
<1>5. /\ excl' \in Who /\ typed' \in 0..MaxStranger /\ loc' \in [Proc -> LocType]
      /\ held' \in [Proc -> BOOLEAN] /\ intr' \in [Proc -> BOOLEAN]
  BY <1>1, Parts
<1> QED BY <1>2, <1>3, <1>4, <1>5, StepType

LEMMA RefusedType ==
    ASSUME TypeInv, NEW p \in Proc, Refused(p) PROVE TypeInv'
<1>1. UNCHANGED <<hist, pend, ground, excl, typed, lock, rec, loc, held, intr>>
  BY DEF Refused, device, files
<1>2. Grown BY <1>1, Parts, SameGrows
<1>3. FilesOK' BY <1>1, Parts DEF FilesOK
<1>4. out' \in [Proc -> Exits] /\ Moves(p)
  BY Parts, MovesOn DEF Refused, Exits, Where
<1>5. /\ excl' \in Who /\ typed' \in 0..MaxStranger /\ loc' \in [Proc -> LocType]
      /\ held' \in [Proc -> BOOLEAN] /\ intr' \in [Proc -> BOOLEAN]
  BY <1>1, Parts
<1> QED BY <1>2, <1>3, <1>4, <1>5, StepType

LEMMA DropType ==
    ASSUME TypeInv, NEW p \in Proc, DropHeld(p)
    PROVE  excl' \in Who /\ held' \in [Proc -> BOOLEAN]
BY Parts DEF DropHeld

LEMMA DiscardType ==
    ASSUME TypeInv, NEW p \in Proc, NEW e \in Exits, Discard(p, e) PROVE TypeInv'
<1>1. UNCHANGED <<hist, pend, ground, typed, lock, rec, loc, intr>>
  BY DEF Discard, files
<1>2. Grown BY <1>1, Parts, SameGrows
<1>3. FilesOK' BY <1>1, Parts DEF FilesOK
<1>4. out' \in [Proc -> Exits] /\ Moves(p)
  BY Parts, MovesOn DEF Discard, Finish, Where
<1>5. excl' \in Who /\ held' \in [Proc -> BOOLEAN] BY DropType DEF Discard
<1>6. typed' \in 0..MaxStranger /\ loc' \in [Proc -> LocType] /\ intr' \in [Proc -> BOOLEAN]
  BY <1>1, Parts
<1> QED BY <1>2, <1>3, <1>4, <1>5, <1>6, StepType

LEMMA NamedType ==
    ASSUME TypeInv, NEW p \in Proc, NEW e \in Exits, NEW l \in LocType, Named(p, e, l)
    PROVE  TypeInv'
<1>1. UNCHANGED <<hist, pend, ground, typed, lock, rec, intr>> BY DEF Named, files
<1>2. Grown BY <1>1, Parts, SameGrows
<1>3. FilesOK' BY <1>1, Parts DEF FilesOK
<1>4. out' \in [Proc -> Exits] /\ Moves(p)
  BY Parts, MovesOn DEF Named, Finish, Where
<1>5. excl' \in Who /\ held' \in [Proc -> BOOLEAN] BY DropType, Parts DEF Named
<1>6. loc' \in [Proc -> LocType]
  <2> DEFINE c == e \in {"nothing-committed", "applied", "applied-by-other", "rolled-back"} /\ ~l.over
             t == IF c THEN ZeroTime ELSE l.until
  <2>1. t \in Int
    <3>1. l.until \in Int BY LocFacts
    <3> QED BY <3>1 DEF ZeroTime
  <2>2. Set(p, [l EXCEPT !.until = t]) BY DEF Named, LocType
  <2>3. [l EXCEPT !.until = t] \in LocType BY <2>1, LocFacts
  <2> QED BY <2>2, <2>3, SetType
<1>7. typed' \in 0..MaxStranger /\ intr' \in [Proc -> BOOLEAN] BY <1>1, Parts
<1> QED BY <1>2, <1>3, <1>4, <1>5, <1>6, <1>7, StepType

LEMMA ReconciledType ==
    ASSUME TypeInv, NEW p \in Proc, NEW e \in Exits, Reconciled(p, e) PROVE TypeInv'
<1>1. CASE e \in {"pending", "unknown"} BY <1>1, RefusedType DEF Reconciled
<1>2. CASE e \notin {"pending", "unknown"}
  <2>1. UNCHANGED <<hist, pend, ground, excl, typed, lock, out, held, intr>>
    BY <1>2 DEF Reconciled, device
  <2>2. Grown BY <2>1, Parts, SameGrows
  <2>3. rec' \in RecType
    <3>1. loc[p].id \in Who BY Parts, LocFacts
    <3>2. [id |-> loc[p].id, res |-> ResultOf(e), until |-> ZeroTime] \in RecType
      BY <3>1, ResultType DEF RecType, ZeroTime
    <3> QED BY <1>2, <3>2, Parts DEF Reconciled
  <2>4. FilesOK' BY <2>1, <2>3, Parts DEF FilesOK
  <2>5. loc' \in [Proc -> LocType] /\ Moves(p)
    BY <1>2, FreshType, SetType, MovesOn DEF Reconciled, Where
  <2>6. /\ excl' \in Who /\ typed' \in 0..MaxStranger /\ out' \in [Proc -> Exits]
        /\ held' \in [Proc -> BOOLEAN] /\ intr' \in [Proc -> BOOLEAN]
    BY <2>1, Parts
  <2> QED BY <2>2, <2>4, <2>5, <2>6, StepType
<1> QED BY <1>1, <1>2

LEMMA DecideType ==
    ASSUME TypeInv, NEW p \in Proc, NEW e \in Exits, Decide(p, e) PROVE TypeInv'
BY NamedType, ReconciledType, Parts DEF Decide

LEMMA SettleReadType ==
    ASSUME TypeInv, NEW p \in Proc, NEW id \in Who, NEW b \in BOOLEAN, SettleRead(p, id, b)
    PROVE  TypeInv'
<1> DEFINE v == Settle(id, Top, b, IF id = p THEN loc[p].pre ELSE 0, loc[p].until)
           l == [loc[p] EXCEPT !.id = id, !.len = Top, !.pending = b, !.over = v.over,
                            !.until = IF v.over THEN pend.left + 1 + SettleSlack ELSE @]
<1>1. v.e \in Exits /\ v.over \in BOOLEAN BY SettleType, SettledExits
<1>2. l \in LocType
  <2> DEFINE t == IF v.over THEN pend.left + 1 + SettleSlack ELSE loc[p].until
  <2>1. t \in Int
    <3>1. pend.left \in Int /\ loc[p].until \in Int BY Parts, LocFacts
    <3> HIDE DEF v
    <3> QED BY <3>1, TimeFacts
  <2>2. l = [loc[p] EXCEPT !.id = id, !.len = Top, !.pending = b, !.over = v.over, !.until = t]
    <3> HIDE DEF v
    <3> QED BY Parts DEF LocType
  <2>3. Top \in Nat /\ loc[p] \in LocType BY Parts
  <2>4. v.over \in BOOLEAN BY <1>1
  <2> HIDE DEF t, v, l
  <2>5. [loc[p] EXCEPT !.id = id, !.len = Top, !.pending = b, !.over = v.over, !.until = t] \in LocType
    BY <2>1, <2>3, <2>4, LocFacts
  <2> QED BY <2>2, <2>5
<1> HIDE DEF l, v
<1>3. \/ Set(p, l) /\ Goto(p, "compareAfter") /\ Quiet
      \/ Named(p, v.e, l)
      \/ Reconciled(p, v.e)
  BY DEF SettleRead, l, v
<1>4. CASE Set(p, l) /\ Goto(p, "compareAfter") /\ Quiet
  <2>1. loc' \in [Proc -> LocType] BY <1>2, <1>4, SetType
  <2> QED BY <2>1, <1>4, QuietOn DEF Where
<1> QED BY <1>1, <1>2, <1>3, <1>4, NamedType, ReconciledType

----------------------------------------------------------------------------
(* Type correctness, one lemma per action or group of like ones.           *)

LEMMA InitTypeInv == Init => TypeInv
<1> SUFFICES ASSUME Init PROVE TypeInv OBVIOUS
<1>1. NoOne \in Who /\ {} \in Config BY DEF Who, Config
<1>2. NoPending \in PendType /\ ~NoPending.on BY DEF NoPending, PendType, Config
<1> DEFINE e == [by |-> NoOne, kind |-> "plain", cfg |-> {}]
<1>3. e \in Entry BY <1>1 DEF Entry, Who
<1>4. hist \in Seq(Entry) /\ hist # <<>> /\ hist[1].kind = "plain"
  BY <1>3 DEF Init
<1>5. DeviceOK BY <1>1, <1>2, <1>4, BoundAssumption DEF Init, DeviceOK, Fate4
<1>6. FilesOK BY <1>1 DEF Init, FilesOK, RecType, ZeroTime
<1>7. ProcOK BY FreshType DEF Init, ProcOK, Exits, Where
<1>8. ShapeOK BY <1>4 DEF Init, ShapeOK
<1> QED BY <1>5, <1>6, <1>7, <1>8 DEF TypeInv

LEMMA BeginType == ASSUME TypeInv, NEW p \in Proc, Begin(p) PROVE TypeInv'
<1> DEFINE l == [Fresh EXCEPT !.id = rec.id, !.until = rec.until]
<1>1. rec.id \in Who /\ rec.until \in Int BY Parts DEF RecType
<1>2. l \in LocType BY <1>1, FreshType, LocFacts
<1> HIDE DEF l
<1>3. \/ Set(p, l) /\ Goto(p, "reconcile")
      \/ Set(p, Fresh) /\ Goto(p, "lock")
  BY DEF Begin, l
<1>4. Quiet BY DEF Begin
<1>5. loc' \in [Proc -> LocType] BY <1>2, <1>3, FreshType, SetType
<1> QED BY <1>3, <1>4, <1>5, QuietOn DEF Where

LEMMA BannerType == ASSUME TypeInv PROVE FreshBanner \subseteq BOOLEAN
BY Parts DEF FreshBanner

LEMMA ReconcileType == ASSUME TypeInv, NEW p \in Proc, Reconcile(p) PROVE TypeInv'
<1>1. loc[p].id \in Who BY Parts, LocFacts
<1>2. \/ Refused(p) \/ \E b \in FreshBanner : SettleRead(p, loc[p].id, b) BY DEF Reconcile
<1> QED BY <1>1, <1>2, BannerType, RefusedType, SettleReadType

LEMMA ComparesType ==
    ASSUME TypeInv, NEW p \in Proc, CompareAfter(p) \/ CompareBefore(p) \/ CompareAgain(p)
    PROVE  TypeInv'
<1>1. loc[p] \in LocType BY Parts
<1>2. CASE CompareAfter(p)
  <2> DEFINE b == SameAs(Place(p))
  <2>1. b \in BOOLEAN BY DEF SameAs
  <2>2. [loc[p] EXCEPT !.after = b] \in LocType BY <1>1, <2>1, LocFacts
  <2>3. \/ Decide(p, "unknown")
        \/ Set(p, [loc[p] EXCEPT !.after = b]) /\ Goto(p, "compareBefore") /\ Quiet
    BY <1>2 DEF CompareAfter
  <2> HIDE DEF b
  <2> QED BY <2>2, <2>3, DecideType, SetType, QuietOn DEF Exits, Where
<1>3. CASE CompareBefore(p)
  <2> DEFINE b == SameAs(Place(p) + 1)
  <2>1. b \in BOOLEAN BY DEF SameAs
  <2>2. [loc[p] EXCEPT !.before = b] \in LocType BY <1>1, <2>1, LocFacts
  <2>3. \/ Decide(p, "unknown")
        \/ Set(p, [loc[p] EXCEPT !.before = b]) /\ Goto(p, "compareAgain") /\ Quiet
    BY <1>3 DEF CompareBefore
  <2> HIDE DEF b
  <2> QED BY <2>2, <2>3, DecideType, SetType, QuietOn DEF Exits, Where
<1>4. CASE CompareAgain(p)
  <2>1. loc[p].after \in BOOLEAN /\ loc[p].before \in BOOLEAN BY <1>1 DEF LocType
  <2>2. Compared(p) \in {"unknown", "applied-by-other", "rolled-back"} BY <2>1 DEF Compared
  <2>3. \E e \in {"unknown", "applied-by-other", "rolled-back"} : Decide(p, e)
    BY <1>4, <2>2 DEF CompareAgain
  <2> QED BY <2>3, DecideType DEF Exits
<1> QED BY <1>2, <1>3, <1>4

\* The reads before the session is opened.
LEMMA BeforeOpenType ==
    ASSUME TypeInv, NEW p \in Proc, Preflight(p) \/ Read(p)
    PROVE  TypeInv'
<1>1. CASE Preflight(p)
  <2>1. [loc[p] EXCEPT !.pre = Top] \in LocType BY Parts, LocFacts
  <2>2. \/ Stop(p, "failed")
        \/ Set(p, [loc[p] EXCEPT !.pre = Top]) /\ Goto(p, "read") /\ Quiet
    BY <1>1 DEF Preflight
  <2> QED BY <2>1, <2>2, SetType, StopType, QuietOn DEF Exits, Where
<1>2. CASE Read(p)
  <2>1. \/ \E e \in {"failed", "no-change", "interrupted"} : Stop(p, e)
        \/ Goto(p, "open") /\ UNCHANGED loc /\ Quiet
    BY <1>2 DEF Read
  <2> QED BY <2>1, Parts, StopType, QuietOn DEF Exits, Where
<1> QED BY <1>1, <1>2

LEMMA TakeLockType ==
    ASSUME TypeInv, NEW p \in Proc, TakeLock(p) PROVE TypeInv'
<1>1. CASE Refused(p) \/ Stop(p, "failed") BY <1>1, RefusedType, StopType DEF Exits
<1>2. CASE lock' = p /\ ~Refused(p) /\ ~Stop(p, "failed")
  <2>1. [Fresh EXCEPT !.id = p] \in LocType BY FreshType, LocFacts DEF Who
  <2>2. Set(p, [Fresh EXCEPT !.id = p]) /\ Goto(p, "preflight") /\ UNCHANGED <<device, rec, out, held, intr>>
    BY <1>2 DEF TakeLock
  <2>3. Grown BY <2>2, Parts, SameGrows DEF device
  <2>4. FilesOK' BY <1>2, <2>2, Parts DEF FilesOK, Who
  <2>5. Moves(p) BY <2>2, MovesOn DEF Where
  <2>6. loc' \in [Proc -> LocType] BY <2>1, <2>2, SetType
  <2>7. /\ excl' \in Who /\ typed' \in 0..MaxStranger /\ out' \in [Proc -> Exits]
        /\ held' \in [Proc -> BOOLEAN] /\ intr' \in [Proc -> BOOLEAN]
    BY <2>2, Parts DEF device
  <2> QED BY <2>3, <2>4, <2>5, <2>6, <2>7, StepType
<1> QED BY <1>1, <1>2 DEF TakeLock

\* What a step of process p leaves alone, in the pieces StepType asks for.
LEMMA FilesSame == ASSUME TypeInv, UNCHANGED files PROVE FilesOK'
BY Parts DEF FilesOK, files

LEMMA FailExitType ==
    ASSUME NEW p \in Proc, NEW e \in Exits PROVE FailExit(p, e) \in Exits
BY DEF FailExit, Exits

\* OPEN to the check of the state: the session is opened, or given up.
LEMMA OpenLoadType == ASSUME TypeInv, NEW p \in Proc, OpenLoad(p) PROVE TypeInv'
<1>1. CASE Stop(p, "failed") BY <1>1, StopType DEF Exits
<1>2. CASE ~Stop(p, "failed")
  <2> DEFINE l == [loc[p] EXCEPT !.cand = Running \cup {"c"}]
  <2>1. l \in LocType
    <3>1. Running \cup {"c"} \in Config BY Parts DEF Config
    <3> QED BY <3>1, Parts, LocFacts
  <2>2. /\ excl' = p /\ held' = [held EXCEPT ![p] = TRUE] /\ Set(p, l) /\ Goto(p, "compare")
        /\ UNCHANGED <<hist, pend, ground, typed, files, out, intr>>
    BY <1>2 DEF OpenLoad, Enter, Loaded
  <2> HIDE DEF l
  <2>3. Grown BY <2>2, Parts, SameGrows
  <2>4. FilesOK' BY <2>2, FilesSame
  <2>5. Moves(p) BY <2>2, MovesOn DEF Where
  <2>6. loc' \in [Proc -> LocType] BY <2>1, <2>2, SetType
  <2>7. /\ excl' \in Who /\ typed' \in 0..MaxStranger /\ out' \in [Proc -> Exits]
        /\ held' \in [Proc -> BOOLEAN] /\ intr' \in [Proc -> BOOLEAN]
    BY <2>2, Parts DEF Who
  <2> QED BY <2>3, <2>4, <2>5, <2>6, <2>7, StepType
<1> QED BY <1>1, <1>2

LEMMA CompareType == ASSUME TypeInv, NEW p \in Proc, Compare(p) PROVE TypeInv'
<1> DEFINE l == [loc[p] EXCEPT !.bann = pend.on]
<1>1. l \in LocType BY Parts, LocFacts
<1>2. \/ \E e \in {FailExit(p, "failed-load"), "no-change", "failed-load"} : Discard(p, e)
      \/ Set(p, l) /\ Goto(p, "checkState") /\ Quiet
  BY DEF Compare
<1>3. {FailExit(p, "failed-load"), "no-change", "failed-load"} \subseteq Exits
  BY FailExitType DEF Exits
<1> HIDE DEF l
<1>4. CASE Set(p, l) /\ Goto(p, "checkState") /\ Quiet
  <2>1. loc' \in [Proc -> LocType] BY <1>1, <1>4, SetType
  <2> QED BY <2>1, <1>4, QuietOn DEF Where
<1>5. CASE \E e \in {FailExit(p, "failed-load"), "no-change", "failed-load"} : Discard(p, e)
  BY <1>3, <1>5, DiscardType
<1> QED BY <1>2, <1>4, <1>5

LEMMA CheckStateType == ASSUME TypeInv, NEW p \in Proc, CheckState(p) PROVE TypeInv'
<1>1. \/ \E e \in {FailExit(p, "failed-check"), "failed-check"} : Discard(p, e)
      \/ Goto(p, "check") /\ UNCHANGED loc /\ Quiet
  BY DEF CheckState
<1>2. {FailExit(p, "failed-check"), "failed-check"} \subseteq Exits
  BY FailExitType DEF Exits
<1>3. CASE Goto(p, "check") /\ UNCHANGED loc /\ Quiet
  BY <1>3, Parts, QuietOn DEF Where
<1>4. CASE \E e \in {FailExit(p, "failed-check"), "failed-check"} : Discard(p, e)
  BY <1>2, <1>4, DiscardType
<1> QED BY <1>1, <1>3, <1>4

LEMMA CheckType == ASSUME TypeInv, NEW p \in Proc, Check(p) PROVE TypeInv'
<1>1. CASE Discard(p, FailExit(p, "failed-check"))
  <2>1. FailExit(p, "failed-check") \in Exits BY FailExitType DEF Exits
  <2> QED BY <1>1, <2>1, DiscardType
<1>2. CASE ~Discard(p, FailExit(p, "failed-check"))
  <2>1. /\ CommitCheck
        /\ \/ DropHeld(p) /\ \E e \in {"checked", "interrupted"} : Finish(p, e)
           \/ Goto(p, "commit") /\ UNCHANGED <<excl, held, out>>
        /\ UNCHANGED <<typed, files, loc, intr>>
    BY <1>2 DEF Check
  <2>2. Grown BY <2>1, Parts, CheckGrows
  <2>3. FilesOK' BY <2>1, FilesSame
  <2>4. Moves(p) BY <2>1, MovesOn DEF Finish, Where
  <2>5. out' \in [Proc -> Exits] BY <2>1, Parts DEF Finish, Exits
  <2>6. excl' \in Who /\ held' \in [Proc -> BOOLEAN] BY <2>1, Parts, DropType
  <2>7. typed' \in 0..MaxStranger /\ loc' \in [Proc -> LocType] /\ intr' \in [Proc -> BOOLEAN]
    BY <2>1, Parts
  <2> QED BY <2>2, <2>3, <2>4, <2>5, <2>6, <2>7, StepType
<1> QED BY <1>1, <1>2

LEMMA TypeCommitType == ASSUME TypeInv, NEW p \in Proc, TypeCommit(p) PROVE TypeInv'
<1> DEFINE l == [loc[p] EXCEPT !.pre = Top, !.committing = TRUE, !.win = Window]
<1>1. l \in LocType
  <2>1. Window \in 0..Window BY TimeFacts
  <2> QED BY <2>1, Parts, LocFacts
<1>2. \/ \E e \in {FailExit(p, "failed-check"), "failed-check"} : Discard(p, e)
      \/ Set(p, l) /\ Goto(p, "landing") /\ Quiet
  BY DEF TypeCommit
<1>3. {FailExit(p, "failed-check"), "failed-check"} \subseteq Exits
  BY FailExitType DEF Exits
<1> HIDE DEF l
<1>4. CASE Set(p, l) /\ Goto(p, "landing") /\ Quiet
  <2>1. loc' \in [Proc -> LocType] BY <1>1, <1>4, SetType
  <2> QED BY <2>1, <1>4, QuietOn DEF Where
<1>5. CASE \E e \in {FailExit(p, "failed-check"), "failed-check"} : Discard(p, e)
  BY <1>3, <1>5, DiscardType
<1> QED BY <1>2, <1>4, <1>5

LEMMA LandType == ASSUME TypeInv, NEW p \in Proc, Land(p) PROVE TypeInv'
<1> DEFINE e == [by |-> p, kind |-> "commit", cfg |-> loc[p].cand]
<1>1. e \in Entry
  <2>1. loc[p].cand \in Config BY Parts, LocFacts
  <2> QED BY <2>1 DEF Entry
<1>2. \A b \in BOOLEAN : [loc[p] EXCEPT !.ok = b] \in LocType BY Parts, LocFacts
<1> HIDE DEF e
<1>3. \/ CommitUnderTimer(p, e) \/ UNCHANGED <<hist, pend, ground>> BY DEF Land, e
<1>4. Grown BY <1>1, <1>3, Parts, UnderTimerGrows, SameGrows
<1>5. loc' \in [Proc -> LocType]
  <2>1. (\E b \in BOOLEAN : Set(p, [loc[p] EXCEPT !.ok = b])) \/ UNCHANGED loc BY DEF Land
  <2> QED BY <2>1, <1>2, Parts, SetType
<1>6. excl' \in Who /\ held' \in [Proc -> BOOLEAN] BY Parts, DropType DEF Land
<1>7. UNCHANGED files /\ Goto(p, "answer") /\ UNCHANGED <<typed, out, intr>> BY DEF Land
<1>8. FilesOK' BY <1>7, FilesSame
<1>9. Moves(p) BY <1>7, MovesOn DEF Where
<1>10. typed' \in 0..MaxStranger /\ out' \in [Proc -> Exits] /\ intr' \in [Proc -> BOOLEAN]
  BY <1>7, Parts
<1> QED BY <1>4, <1>5, <1>6, <1>8, <1>9, <1>10, StepType

LEMMA AnswerType == ASSUME TypeInv, NEW p \in Proc, Answer(p) PROVE TypeInv'
<1> DEFINE l == [loc[p] EXCEPT !.until = Window + SettleSlack, !.cand = {}]
<1>1. Window + SettleSlack \in Int /\ {} \in Config BY TimeFacts DEF Config
<1>2. l \in LocType BY <1>1, Parts, LocFacts
<1>3. [id |-> p, res |-> "pending", until |-> Window + SettleSlack] \in RecType
  BY <1>1 DEF RecType, Who
<1>4. Set(p, l) /\ UNCHANGED <<device, lock, out, held, intr>> BY DEF Answer
<1>5. rec' \in RecType BY <1>3, Parts DEF Answer, PendingRecord
<1> HIDE DEF l
<1>6. Goto(p, "freshLogin") \/ Goto(p, "readState") BY DEF Answer
<1>7. Grown BY <1>4, Parts, SameGrows DEF device
<1>8. FilesOK' BY <1>4, <1>5, Parts DEF FilesOK
<1>9. Moves(p) BY <1>6, MovesOn DEF Where
<1>10. loc' \in [Proc -> LocType] BY <1>2, <1>4, SetType
<1>11. /\ excl' \in Who /\ typed' \in 0..MaxStranger /\ out' \in [Proc -> Exits]
       /\ held' \in [Proc -> BOOLEAN] /\ intr' \in [Proc -> BOOLEAN]
  BY <1>4, Parts DEF device
<1> QED BY <1>7, <1>8, <1>9, <1>10, <1>11, StepType

LEMMA VerifyType ==
    ASSUME TypeInv, NEW p \in Proc, FreshLogin(p) \/ Landed(p) \/ Converged(p)
    PROVE  TypeInv'
<1>1. Quiet BY DEF FreshLogin, Landed, Converged
<1>2. \E to \in Where \ {"undo"} : Goto(p, to) BY DEF FreshLogin, Landed, Converged, Where
<1>3. \/ \E b \in BOOLEAN : Set(p, [loc[p] EXCEPT !.noBanner = ~b])
      \/ Set(p, [loc[p] EXCEPT !.verified = TRUE])
      \/ UNCHANGED loc
  BY BannerType DEF FreshLogin, Landed, Converged
<1>4. /\ \A b \in BOOLEAN : [loc[p] EXCEPT !.noBanner = ~b] \in LocType
      /\ [loc[p] EXCEPT !.verified = TRUE] \in LocType
  BY Parts, LocFacts
<1>5. loc' \in [Proc -> LocType]
  BY <1>3, <1>4, Parts, SetType
<1> QED BY <1>1, <1>2, <1>5, QuietOn

LEMMA ConfirmedByOtherType ==
    ASSUME TypeInv, NEW p \in Proc, ConfirmedByOther(p) PROVE TypeInv'
<1> DEFINE l == [loc[p] EXCEPT !.until = ZeroTime]
           Own == /\ Set(p, l) /\ DropHeld(p) /\ Finish(p, "applied-by-other")
                  /\ UNCHANGED <<hist, pend, ground, typed, files, intr>>
<1>1. \/ Goto(p, "cancel") /\ UNCHANGED loc /\ Quiet
      \/ SettleRead(p, p, pend.on)
      \/ Own
  BY DEF ConfirmedByOther
<1>2. l \in LocType
  <2>1. ZeroTime \in Int BY DEF ZeroTime
  <2> QED BY <2>1, Parts, LocFacts
<1>3. CASE Goto(p, "cancel") /\ UNCHANGED loc /\ Quiet BY <1>3, Parts, QuietOn DEF Where
<1>4. CASE SettleRead(p, p, pend.on) BY <1>4, Parts, SettleReadType DEF Who
<1> HIDE DEF l
<1>5. CASE Own
  <2>1. Grown BY <1>5, Parts, SameGrows
  <2>2. FilesOK' BY <1>5, FilesSame
  <2>3. Moves(p) BY <1>5, MovesOn DEF Finish, Where
  <2>4. loc' \in [Proc -> LocType] BY <1>2, <1>5, SetType
  <2>5. out' \in [Proc -> Exits] BY <1>5, Parts DEF Finish, Exits
  <2>6. excl' \in Who /\ held' \in [Proc -> BOOLEAN] BY <1>5, DropType
  <2>7. typed' \in 0..MaxStranger /\ intr' \in [Proc -> BOOLEAN] BY <1>5, Parts
  <2> QED BY <2>1, <2>2, <2>3, <2>4, <2>5, <2>6, <2>7, StepType
<1> QED BY <1>1, <1>3, <1>4, <1>5

LEMMA WindowCheckType == ASSUME TypeInv, NEW p \in Proc, WindowCheck(p) PROVE TypeInv'
<1>1. \/ Stop(p, "window-short")
      \/ \E to \in Where \ {"undo"} : Goto(p, to) /\ UNCHANGED loc /\ Quiet
  BY DEF WindowCheck, Where
<1> QED BY <1>1, Parts, StopType, QuietOn DEF Exits

\* The two commits of the held session: the confirm, and the cancel's.
LEMMA HeldCommitType ==
    ASSUME TypeInv, NEW p \in Proc, Confirm(p) \/ UndoCommit(p) PROVE TypeInv'
<1> DEFINE e == [by |-> p, kind |-> "confirm", cfg |-> Running]
           u == [by |-> p, kind |-> "cancel", cfg |-> loc[p].cand]
<1>1. e \in Entry BY Parts DEF Entry
<1>2. u \in Entry
  <2>1. loc[p].cand \in Config BY Parts, LocFacts
  <2> QED BY <2>1 DEF Entry
<1>3. Commit(e) \/ Commit(u) \/ UNCHANGED <<hist, pend, ground>> BY DEF Confirm, UndoCommit
<1> HIDE DEF e, u
<1>4. Grown BY <1>1, <1>2, <1>3, Parts, CommitGrows, SameGrows
<1>5. excl' \in Who /\ held' \in [Proc -> BOOLEAN] BY Parts, DropType DEF Confirm, UndoCommit
<1>6. Goto(p, "name") /\ UNCHANGED files /\ UNCHANGED <<typed, loc, out, intr>>
  BY DEF Confirm, UndoCommit
<1>7. FilesOK' BY <1>6, FilesSame
<1>8. Moves(p) BY <1>6, MovesOn DEF Where
<1>9. /\ typed' \in 0..MaxStranger /\ loc' \in [Proc -> LocType]
      /\ out' \in [Proc -> Exits] /\ intr' \in [Proc -> BOOLEAN]
  BY <1>6, Parts
<1> QED BY <1>4, <1>5, <1>7, <1>8, <1>9, StepType

LEMMA ReadStateType == ASSUME TypeInv, NEW p \in Proc, ReadState(p) PROVE TypeInv'
<1>1. \/ Stop(p, "unknown")
      \/ Goto(p, "cancel") /\ UNCHANGED loc /\ Quiet
      \/ \E b \in BOOLEAN : SettleRead(p, p, b)
  BY BannerType DEF ReadState
<1>2. CASE Goto(p, "cancel") /\ UNCHANGED loc /\ Quiet BY <1>2, Parts, QuietOn DEF Where
<1> QED BY <1>1, <1>2, StopType, SettleReadType DEF Exits, Who

\* A commit of tacctl is never the device's first.
LEMMA OursHasBefore == ASSUME TypeInv, NEW p \in Proc, OursOnTop(p) PROVE Len(hist) >= 2
<1>1. Top # 1 BY Parts DEF OursOnTop, ShapeOK
<1>2. Len(hist) \in Nat \ {0} BY Parts DEF Top
<1>3. Len(hist) # 1 BY <1>1 DEF Top
<1> QED BY <1>2, <1>3

LEMMA CancelType == ASSUME TypeInv, NEW p \in Proc, Cancel(p) PROVE TypeInv'
<1>1. \/ Goto(p, "name") /\ UNCHANGED loc /\ Quiet
      \/ Stop(p, "unknown")
      \/ /\ OursOnTop(p)
         /\ \E b \in BOOLEAN : Set(p, [loc[p] EXCEPT !.pending = b]) /\ Goto(p, "undo") /\ Quiet
      \/ \E b \in BOOLEAN : SettleRead(p, p, b)
  BY BannerType DEF Cancel
<1>2. CASE Goto(p, "name") /\ UNCHANGED loc /\ Quiet BY <1>2, Parts, QuietOn DEF Where
<1>3. CASE /\ OursOnTop(p)
           /\ \E b \in BOOLEAN : Set(p, [loc[p] EXCEPT !.pending = b]) /\ Goto(p, "undo") /\ Quiet
  <2>1. Len(hist) >= 2 BY <1>3, OursHasBefore
  <2>2. \A b \in BOOLEAN : [loc[p] EXCEPT !.pending = b] \in LocType BY Parts, LocFacts
  <2>3. loc' \in [Proc -> LocType] BY <1>3, <2>2, SetType
  <2> QED BY <1>3, <2>1, <2>3, QuietType DEF Where
<1> QED BY <1>1, <1>2, <1>3, StopType, SettleReadType DEF Exits, Who

LEMMA UndoType == ASSUME TypeInv, NEW p \in Proc, Undo(p) PROVE TypeInv'
<1> DEFINE l == [loc[p] EXCEPT !.cand = Rollback(1)]
<1>1. l \in LocType
  <2>1. Len(hist) >= 2 BY Parts DEF ShapeOK, Undo
  <2>2. Len(hist) - 1 \in 1..Len(hist) BY <2>1, Parts DEF Top
  <2>3. hist[Len(hist) - 1] \in Entry BY <2>2, Parts DEF DeviceOK
  <2>4. Rollback(1) \in Config BY <2>3 DEF Rollback, Top, Entry
  <2> QED BY <2>4, Parts, LocFacts
<1>2. Set(p, l) \/ UNCHANGED loc BY DEF Undo
<1> HIDE DEF l
<1>3. \E to \in Where \ {"undo"} : Goto(p, to) BY DEF Undo, Where
<1>4. UNCHANGED <<hist, pend, ground>> /\ UNCHANGED files /\ UNCHANGED <<typed, out, intr>>
  BY DEF Undo
<1>5. excl' \in Who /\ held' \in [Proc -> BOOLEAN] BY Parts, DropType DEF Undo
<1>6. Grown BY <1>4, Parts, SameGrows
<1>7. FilesOK' BY <1>4, FilesSame
<1>8. Moves(p) BY <1>3, MovesOn
<1>9. loc' \in [Proc -> LocType] BY <1>1, <1>2, Parts, SetType
<1>10. typed' \in 0..MaxStranger /\ out' \in [Proc -> Exits] /\ intr' \in [Proc -> BOOLEAN]
  BY <1>4, Parts
<1> QED BY <1>5, <1>6, <1>7, <1>8, <1>9, <1>10, StepType

LEMMA UndoCompareType ==
    ASSUME TypeInv, NEW p \in Proc, UndoCompare(p) \/ Close(p) PROVE TypeInv'
<1>1. \E to \in Where \ {"undo"} : Goto(p, to) BY DEF UndoCompare, Close, Where
<1>2. UNCHANGED <<hist, pend, ground>> /\ UNCHANGED files /\ UNCHANGED <<typed, loc, out, intr>>
  BY DEF UndoCompare, Close
<1>3. excl' \in Who /\ held' \in [Proc -> BOOLEAN] BY Parts, DropType DEF UndoCompare, Close
<1>4. Grown BY <1>2, Parts, SameGrows
<1>5. FilesOK' BY <1>2, FilesSame
<1>6. Moves(p) BY <1>1, MovesOn
<1>7. /\ typed' \in 0..MaxStranger /\ loc' \in [Proc -> LocType]
      /\ out' \in [Proc -> Exits] /\ intr' \in [Proc -> BOOLEAN]
  BY <1>2, Parts
<1> QED BY <1>3, <1>4, <1>5, <1>6, <1>7, StepType

LEMMA UnlockType == ASSUME TypeInv, NEW p \in Proc, Unlock(p) PROVE TypeInv'
<1> DEFINE l == [Fresh EXCEPT !.id = loc[p].id, !.until = loc[p].until]
<1>1. l \in LocType
  <2>1. loc[p].id \in Who /\ loc[p].until \in Int BY Parts, LocFacts
  <2> QED BY <2>1, FreshType, LocFacts
<1>2. Set(p, l) /\ Goto(p, "close") /\ UNCHANGED <<device, rec, out, held, intr>> BY DEF Unlock
<1> HIDE DEF l
<1>3. FilesOK' BY <1>2, Parts DEF Unlock, FilesOK
<1>4. Grown BY <1>2, Parts, SameGrows DEF device
<1>5. Moves(p) BY <1>2, MovesOn DEF Where
<1>6. loc' \in [Proc -> LocType] BY <1>1, <1>2, SetType
<1>7. /\ excl' \in Who /\ typed' \in 0..MaxStranger /\ out' \in [Proc -> Exits]
      /\ held' \in [Proc -> BOOLEAN] /\ intr' \in [Proc -> BOOLEAN]
  BY <1>2, Parts DEF device
<1> QED BY <1>3, <1>4, <1>5, <1>6, <1>7, StepType

LEMMA KeepType == ASSUME TypeInv, NEW p \in Proc, Keep(p) PROVE TypeInv'
<1> DEFINE t == IF out[p] \in {"applied", "applied-by-other"} THEN ZeroTime ELSE loc[p].until
           r == [id |-> loc[p].id, res |-> ResultOf(out[p]), until |-> t]
<1>1. r \in RecType
  <2>1. loc[p].id \in Who /\ loc[p].until \in Int BY Parts, LocFacts
  <2>2. t \in Int BY <2>1 DEF ZeroTime
  <2>3. out[p] \in Exits BY Parts
  <2> HIDE DEF t
  <2> QED BY <2>1, <2>2, <2>3, ResultType DEF RecType
<1>2. rec' = r \/ UNCHANGED rec BY DEF Keep, AppliedOf
<1> HIDE DEF r
<1>3. Set(p, Fresh) /\ Goto(p, "done") /\ UNCHANGED <<device, lock, out, held, intr>> BY DEF Keep
<1>4. FilesOK' BY <1>1, <1>2, <1>3, Parts DEF FilesOK
<1>5. Grown BY <1>3, Parts, SameGrows DEF device
<1>6. Moves(p) BY <1>3, MovesOn DEF Where
<1>7. loc' \in [Proc -> LocType] BY <1>3, FreshType, SetType
<1>8. /\ excl' \in Who /\ typed' \in 0..MaxStranger /\ out' \in [Proc -> Exits]
      /\ held' \in [Proc -> BOOLEAN] /\ intr' \in [Proc -> BOOLEAN]
  BY <1>3, Parts DEF device
<1> QED BY <1>4, <1>5, <1>6, <1>7, <1>8, StepType

LEMMA PanicType == ASSUME TypeInv, NEW p \in Proc, Panic(p) PROVE TypeInv'
<1> DEFINE t == IF loc[p].until = ZeroTime THEN Window + SettleSlack ELSE loc[p].until
           l == [loc[p] EXCEPT !.until = t]
<1>1. l \in LocType
  <2>1. loc[p].until \in Int BY Parts, LocFacts
  <2>2. t \in Int BY <2>1, TimeFacts
  <2> HIDE DEF t
  <2> QED BY <2>2, Parts, LocFacts
<1>2. \/ /\ Set(p, l) /\ Finish(p, "unknown")
         /\ UNCHANGED <<device, files, held, intr>>
      \/ Discard(p, "failed")
  <2>1. loc[p] \in LocType BY Parts
  <2> QED BY <2>1 DEF Panic, LocType
<1> HIDE DEF l
<1>3. CASE /\ Set(p, l) /\ Finish(p, "unknown")
           /\ UNCHANGED <<device, files, held, intr>>
  <2>1. Grown BY <1>3, Parts, SameGrows DEF device
  <2>2. FilesOK' BY <1>3, FilesSame
  <2>3. Moves(p) BY <1>3, MovesOn DEF Finish, Where
  <2>4. loc' \in [Proc -> LocType] BY <1>1, <1>3, SetType
  <2>5. out' \in [Proc -> Exits] BY <1>3, Parts DEF Finish, Exits
  <2>6. /\ excl' \in Who /\ typed' \in 0..MaxStranger
        /\ held' \in [Proc -> BOOLEAN] /\ intr' \in [Proc -> BOOLEAN]
    BY <1>3, Parts DEF device
  <2> QED BY <2>1, <2>2, <2>3, <2>4, <2>5, <2>6, StepType
<1> QED BY <1>2, <1>3, DiscardType DEF Exits

LEMMA CrashType == ASSUME TypeInv, NEW p \in Proc, Crash(p) PROVE TypeInv'
<1>1. /\ DropHeld(p) /\ Set(p, Fresh) /\ Goto(p, "dead")
      /\ UNCHANGED <<hist, pend, ground>> /\ UNCHANGED <<typed, rec, out, intr>>
  BY DEF Crash
<1>2. Grown BY <1>1, Parts, SameGrows
<1>3. FilesOK' BY <1>1, Parts DEF Crash, FilesOK
<1>4. Moves(p) BY <1>1, MovesOn DEF Where
<1>5. loc' \in [Proc -> LocType] BY <1>1, FreshType, SetType
<1>6. excl' \in Who /\ held' \in [Proc -> BOOLEAN] BY <1>1, DropType
<1>7. typed' \in 0..MaxStranger /\ out' \in [Proc -> Exits] /\ intr' \in [Proc -> BOOLEAN]
  BY <1>1, Parts
<1> QED BY <1>2, <1>3, <1>4, <1>5, <1>6, <1>7, StepType

\* A step of the world around the processes: none of them moves.
LEMMA StillType ==
    ASSUME TypeInv, Grown, excl' \in Who, typed' \in 0..MaxStranger, FilesOK', UNCHANGED pc,
           loc' \in [Proc -> LocType], out' \in [Proc -> Exits],
           held' \in [Proc -> BOOLEAN], intr' \in [Proc -> BOOLEAN]
    PROVE  TypeInv'
<1>1. DeviceOK' BY DEF DeviceOK, Grown
<1>2. ProcOK' BY DEF TypeInv, ProcOK
<1>3. ShapeOK'
  <2>1. \A q \in Proc : pc'[q] = "undo" => Len(hist') >= 2
    BY DEF TypeInv, ShapeOK, ProcOK, Grown, DeviceOK
  <2> QED BY <2>1 DEF TypeInv, ShapeOK, Grown
<1> QED BY <1>1, <1>2, <1>3 DEF TypeInv

LEMMA InterruptType ==
    ASSUME TypeInv, NEW p \in Proc, Interrupt(p) \/ SessionLost(p) PROVE TypeInv'
<1>1. /\ UNCHANGED <<hist, pend, ground>> /\ UNCHANGED files
      /\ UNCHANGED <<typed, pc, loc, out, held>>
  BY DEF Interrupt, SessionLost, device
<1>2. excl' \in Who /\ intr' \in [Proc -> BOOLEAN]
  BY Parts DEF Interrupt, SessionLost, device
<1>3. Grown BY <1>1, Parts, SameGrows
<1>4. FilesOK' BY <1>1, FilesSame
<1> QED BY <1>1, <1>2, <1>3, <1>4, Parts, StillType

LEMMA OutsideType ==
    ASSUME TypeInv, Expire \/ StrangerCommit \/ StrangerConfirmed \/ StrangerCheck
    PROVE  TypeInv'
<1>1. pend.before \in Config BY Parts DEF DeviceOK, PendType
<1>2. \A cfg \in Config, k \in {"plain", "root"} : [by |-> NoOne, kind |-> k, cfg |-> cfg] \in Entry
  BY DEF Entry
<1>3. \/ \E e \in Entry : Commit(e) \/ CommitUnderTimer(NoOne, e)
      \/ CommitCheck
  BY <1>1, <1>2 DEF Expire, StrangerCommit, StrangerConfirmed, StrangerCheck
<1>4. Grown BY <1>3, Parts, CommitGrows, UnderTimerGrows, CheckGrows
<1>5. UNCHANGED <<excl, lock, rec, pc, loc, out, held, intr>>
  BY DEF Expire, StrangerCommit, StrangerConfirmed, StrangerCheck, Stranger
<1>6. typed' \in 0..MaxStranger
  <2>1. UNCHANGED typed \/ (typed < MaxStranger /\ typed' = typed + 1)
    BY DEF Expire, StrangerCommit, StrangerConfirmed, StrangerCheck, Stranger
  <2>2. typed \in 0..MaxStranger BY Parts
  <2> QED BY <2>1, <2>2, BoundAssumption
<1>7. FilesOK' BY <1>5, Parts DEF FilesOK
<1> QED BY <1>4, <1>5, <1>6, <1>7, Parts, StillType

LEMMA LeftType ==
    /\ \A t \in Int : Left(t) \in Int
    /\ \A w \in 0..Window : Left(w) \in 0..Window
BY TimeFacts DEF Left

LEMMA TickType == ASSUME TypeInv, Tick PROVE TypeInv'
<1>1. UNCHANGED hist /\ UNCHANGED ground /\ UNCHANGED <<excl, typed, lock, pc, out, held, intr>>
  BY DEF Tick
<1>2. pend' \in PendType /\ (pend'.on => pend'.left \in -ExpiryLag..Window)
  <2>1. pend \in PendType /\ (pend.on => pend.left \in -ExpiryLag..Window)
    BY Parts DEF DeviceOK
  <2>2. pend' = [pend EXCEPT !.left = IF pend.on THEN pend.left - 1 ELSE pend.left]
    BY <2>1 DEF Tick, PendType
  <2>3. pend.on => pend.left > -ExpiryLag BY DEF Tick
  <2> QED BY <2>1, <2>2, <2>3, TimeFacts DEF PendType
<1>3. Grown BY <1>1, <1>2, Parts DEF Grown, DeviceOK
<1>4. rec' \in RecType
  <2>1. rec \in RecType BY Parts
  <2>2. rec' = [rec EXCEPT !.until = Left(rec.until)] BY <2>1 DEF Tick, RecType
  <2>3. Left(rec.until) \in Int BY <2>1, LeftType DEF RecType
  <2> QED BY <2>1, <2>2, <2>3 DEF RecType
<1>5. FilesOK' BY <1>1, <1>4, Parts DEF FilesOK
<1>6. loc' \in [Proc -> LocType]
  <2>1. ASSUME NEW p \in Proc
        PROVE  [loc[p] EXCEPT !.win = Left(@), !.until = Left(@)] \in LocType
    <3>1. loc[p] \in LocType BY Parts
    <3>2. Left(loc[p].win) \in 0..Window /\ Left(loc[p].until) \in Int
      BY <3>1, LeftType, LocFacts
    <3>3. [loc[p] EXCEPT !.win = Left(@), !.until = Left(@)]
            = [loc[p] EXCEPT !.win = Left(loc[p].win), !.until = Left(loc[p].until)]
      BY <3>1 DEF LocType
    <3> QED BY <3>1, <3>2, <3>3, LocFacts
  <2> QED BY <2>1 DEF Tick
<1> QED BY <1>1, <1>3, <1>5, <1>6, Parts, StillType

LEMMA NextTypeInv == ASSUME TypeInv, [Next]_vars PROVE TypeInv'
<1>1. ASSUME NEW p \in Proc, Begin(p) \/ Step(p) \/ Fault(p) PROVE TypeInv'
  BY <1>1, BeginType, ReconcileType, ComparesType, TakeLockType, BeforeOpenType, OpenLoadType,
     CompareType, CheckStateType, CheckType, TypeCommitType, LandType, AnswerType, VerifyType,
     ConfirmedByOtherType, WindowCheckType, HeldCommitType, ReadStateType, CancelType, UndoType,
     UndoCompareType, UnlockType, KeepType, PanicType, CrashType, InterruptType
  DEF Step, Fault
<1>2. CASE UNCHANGED vars
  BY <1>2 DEF vars, TypeInv, DeviceOK, FilesOK, ProcOK, ShapeOK
<1> QED BY <1>1, <1>2, OutsideType, TickType DEF Next

LEMMA Typed == Spec => []TypeInv
<1>1. Init => TypeInv BY InitTypeInv
<1>2. TypeInv /\ [Next]_vars => TypeInv' BY NextTypeInv
<1> QED BY <1>1, <1>2, PTL DEF Spec

\* The history, the window, the record and every process's state have their
\* types, and the device's rollback is never later than ExpiryLag, for any
\* number of commands on the device and whatever goes wrong around them.
THEOREM DeviceApplyType == Spec => []TypeOK
BY Typed, TypeOKFromInv, PTL

----------------------------------------------------------------------------
(* One transaction at a time.  A command in the driver works for itself and *)
(* holds the device's lock, from its first read to the release; a command   *)
(* that has not begun is named nowhere, so nobody settles an apply that is  *)
(* still to come and takes its release for the settled one's.               *)

Driver == {"preflight", "read", "open", "compare", "checkState", "check", "commit", "landing",
           "answer", "freshLogin", "landed", "converged", "byOther", "window", "confirm",
           "readState", "name", "cancel", "undo", "undoCompare", "undoCommit"}
Settling == {"compareAfter", "compareBefore", "compareAgain"}

OwnInv ==
    \A p \in Proc :
        /\ pc[p] \in Driver => loc[p].id = p
        /\ pc[p] \in Driver \cup Settling \cup {"unlock"} /\ loc[p].id = p => lock = p
        /\ pc[p] \in {"reconcile", "lock"} => loc[p].id # p
        /\ pc[p] = "idle" => rec.id # p /\ \A q \in Proc : loc[q].id # p


\* A step of process p as the invariant sees it.
OwnStep(p) ==
    \E to \in Where \ {"idle"} :
        /\ pc' = [pc EXCEPT ![p] = to]
        /\ \A q \in Proc \ {p} : loc'[q].id = loc[q].id
        /\ loc'[p].id \in {NoOne, rec.id, loc[p].id, p}
        /\ rec'.id \in {rec.id, loc[p].id, p}
        /\ \/ lock' = lock
           \/ lock = NoOne /\ lock' = p
           \/ lock = p /\ lock' = NoOne
        /\ to \in Driver => loc'[p].id = p
        /\ to \in Driver \cup Settling \cup {"unlock"} /\ loc'[p].id = p => lock' = p
        /\ to \in {"reconcile", "lock"} => loc'[p].id # p

LEMMA OwnStepKeeps ==
    ASSUME TypeInv, OwnInv, NEW p \in Proc, OwnStep(p) PROVE OwnInv'
<1> PICK to \in Where \ {"idle"} :
        /\ pc' = [pc EXCEPT ![p] = to]
        /\ \A q \in Proc \ {p} : loc'[q].id = loc[q].id
        /\ loc'[p].id \in {NoOne, rec.id, loc[p].id, p}
        /\ rec'.id \in {rec.id, loc[p].id, p}
        /\ \/ lock' = lock
           \/ lock = NoOne /\ lock' = p
           \/ lock = p /\ lock' = NoOne
        /\ to \in Driver => loc'[p].id = p
        /\ to \in Driver \cup Settling \cup {"unlock"} /\ loc'[p].id = p => lock' = p
        /\ to \in {"reconcile", "lock"} => loc'[p].id # p
  BY DEF OwnStep
<1>1. pc'[p] = to /\ \A q \in Proc \ {p} : pc'[q] = pc[q] BY Parts
<1>2. ASSUME NEW q \in Proc, pc'[q] = "idle"
      PROVE  rec'.id # q /\ \A r \in Proc : loc'[r].id # q
  <2>1. q # p /\ pc[q] = "idle" BY <1>1, <1>2
  <2>2. rec.id # q /\ \A r \in Proc : loc[r].id # q BY <2>1 DEF OwnInv
  <2> QED BY <2>1, <2>2, ProcAssumption
<1>3. ASSUME NEW q \in Proc, q # p
      PROVE  /\ pc'[q] \in Driver => loc'[q].id = q
             /\ pc'[q] \in Driver \cup Settling \cup {"unlock"} /\ loc'[q].id = q => lock' = q
             /\ pc'[q] \in {"reconcile", "lock"} => loc'[q].id # q
  <2>1. pc'[q] = pc[q] /\ loc'[q].id = loc[q].id BY <1>1, <1>3
  <2>2. lock = q => lock' = q BY <1>3, ProcAssumption
  <2> QED BY <2>1, <2>2 DEF OwnInv
<1> QED BY <1>1, <1>2, <1>3 DEF OwnInv

\* A step that assigns the process's own state, or leaves it.
LEMMA SetIds ==
    ASSUME TypeInv, NEW p \in Proc, NEW l, Set(p, l)
    PROVE  loc'[p] = l /\ \A q \in Proc \ {p} : loc'[q] = loc[q]
BY Parts DEF Set

\* What the assignments leave of the id and of committing.
LEMMA IdKept ==
    ASSUME NEW l \in LocType, NEW x, NEW y, NEW z
    PROVE  /\ [l EXCEPT !.pre = x].id = l.id /\ [l EXCEPT !.until = x].id = l.id
           /\ [l EXCEPT !.cand = x].id = l.id /\ [l EXCEPT !.until = x, !.cand = y].id = l.id
           /\ [l EXCEPT !.bann = x].id = l.id /\ [l EXCEPT !.noBanner = x].id = l.id
           /\ [l EXCEPT !.ok = x].id = l.id /\ [l EXCEPT !.pending = x].id = l.id
           /\ [l EXCEPT !.after = x].id = l.id /\ [l EXCEPT !.before = x].id = l.id
           /\ [l EXCEPT !.verified = x].id = l.id
           /\ [l EXCEPT !.pre = x, !.committing = y, !.win = z].id = l.id
           /\ [l EXCEPT !.win = x, !.until = y].id = l.id
           /\ [l EXCEPT !.id = x].id = x /\ [l EXCEPT !.id = x, !.until = y].id = x
BY DEF LocType

\* A step inside the driver: it stays there, ends, or goes on to settle its own
\* commit, and works for itself all along.
DriverStep(p) ==
    /\ pc[p] \in Driver
    /\ \E to \in Driver \cup {"unlock", "compareAfter"} : Goto(p, to)
    /\ (\E l : Set(p, l) /\ l.id = p) \/ UNCHANGED loc
    /\ UNCHANGED lock
    /\ rec' = rec \/ rec'.id = p

LEMMA DriverStepOwn ==
    ASSUME TypeInv, OwnInv, NEW p \in Proc, DriverStep(p) PROVE OwnStep(p)
<1>1. loc[p].id = p /\ lock = p BY DEF OwnInv, DriverStep
<1>2. loc'[p].id = p /\ \A q \in Proc \ {p} : loc'[q].id = loc[q].id
  BY <1>1, SetIds DEF DriverStep
<1>3. PICK to \in Driver \cup {"unlock", "compareAfter"} : pc' = [pc EXCEPT ![p] = to]
  BY DEF DriverStep, Goto
<1>4. to \in Where \ {"idle"} /\ to \notin {"reconcile", "lock"} BY DEF Driver, Where
<1>5. lock' = p /\ rec'.id \in {rec.id, p} BY <1>1 DEF DriverStep
<1> QED BY <1>1, <1>2, <1>3, <1>4, <1>5 DEF OwnStep

LEMMA NamedOwn ==
    ASSUME NEW p \in Proc, NEW e, NEW l \in LocType, Named(p, e, l)
    PROVE  /\ \E k : Set(p, k) /\ k.id = l.id
           /\ Goto(p, "unlock") /\ UNCHANGED lock /\ UNCHANGED rec
<1>1. PICK t : Set(p, [l EXCEPT !.until = t]) BY DEF Named, LocType
<1>2. [l EXCEPT !.until = t].id = l.id BY IdKept
<1>3. Goto(p, "unlock") /\ UNCHANGED lock /\ UNCHANGED rec BY DEF Named, Finish, files
<1> QED BY <1>1, <1>2, <1>3

LEMMA SettleReadIs ==
    ASSUME TypeInv, NEW p \in Proc, NEW id \in Who, NEW b \in BOOLEAN, SettleRead(p, id, b)
    PROVE  \/ /\ \E l : Set(p, l) /\ l.id = id
              /\ Goto(p, "compareAfter") \/ (id = p /\ Goto(p, "unlock"))
              /\ UNCHANGED lock /\ UNCHANGED rec
           \/ id # p /\ \E e \in Exits : Reconciled(p, e)
<1> DEFINE v == Settle(id, Top, b, IF id = p THEN loc[p].pre ELSE 0, loc[p].until)
           t == IF v.over THEN pend.left + 1 + SettleSlack ELSE loc[p].until
           l == [loc[p] EXCEPT !.id = id, !.len = Top, !.pending = b, !.over = v.over, !.until = t]
<1>1. v.e \in Exits /\ v.over \in BOOLEAN BY SettleType, SettledExits
<1> HIDE DEF v
<1>2. t \in Int
  <2>1. pend.left \in Int /\ loc[p].until \in Int BY Parts, LocFacts
  <2> QED BY <2>1, TimeFacts
<1>3. \/ v.facts /\ Set(p, l) /\ Goto(p, "compareAfter") /\ Quiet
      \/ id = p /\ Named(p, v.e, l)
      \/ id # p /\ Reconciled(p, v.e)
  <2>1. loc[p] \in LocType BY Parts
  <2> QED BY <2>1 DEF SettleRead, v, LocType
<1> HIDE DEF t
<1>4. l \in LocType BY <1>1, <1>2, Parts, LocFacts
<1>5. l.id = id
  <2>1. loc[p] \in LocType BY Parts
  <2> QED BY <2>1 DEF LocType
<1> HIDE DEF l
<1>6. CASE v.facts /\ Set(p, l) /\ Goto(p, "compareAfter") /\ Quiet
  BY <1>5, <1>6 DEF Quiet, files
<1>7. CASE id = p /\ Named(p, v.e, l) BY <1>4, <1>5, <1>7, NamedOwn
<1> QED BY <1>1, <1>3, <1>6, <1>7

LEMMA RefusedOwn == ASSUME TypeInv, NEW p \in Proc, Refused(p) PROVE OwnStep(p)
<1>1. Goto(p, "done") /\ UNCHANGED <<lock, rec, loc>> BY DEF Refused, files
<1>2. "done" \in Where \ {"idle"} /\ "done" \notin Driver \cup Settling \cup {"unlock", "reconcile", "lock"}
  BY DEF Where, Driver, Settling
<1> QED BY <1>1, <1>2 DEF OwnStep, Goto

LEMMA ReconciledOwn == ASSUME TypeInv, NEW p \in Proc, NEW e, Reconciled(p, e) PROVE OwnStep(p)
<1>1. CASE Refused(p) BY <1>1, RefusedOwn
<1>2. CASE ~Refused(p)
  <2>1. Set(p, Fresh) /\ Goto(p, "lock") /\ UNCHANGED lock BY <1>2 DEF Reconciled
  <2>2. rec'.id \in {rec.id, loc[p].id} BY <1>2 DEF Reconciled
  <2>3. loc'[p].id = NoOne /\ \A q \in Proc \ {p} : loc'[q].id = loc[q].id
    BY <2>1, SetIds, FreshType
  <2>4. NoOne # p BY ProcAssumption
  <2>5. "lock" \in Where \ {"idle"} /\ "lock" \notin Driver \cup Settling \cup {"unlock"}
    BY DEF Where, Driver, Settling
  <2> QED BY <2>1, <2>2, <2>3, <2>4, <2>5 DEF OwnStep, Goto
<1> QED BY <1>1, <1>2

\* The command before and after its transaction.
LEMMA BeginOwn == ASSUME TypeInv, OwnInv, NEW p \in Proc, Begin(p) PROVE OwnStep(p)
<1> DEFINE l == [Fresh EXCEPT !.id = rec.id, !.until = rec.until]
<1>1. l.id = rec.id BY FreshType, IdKept
<1>2. rec.id # p BY DEF OwnInv, Begin
<1>3. \/ Set(p, l) /\ Goto(p, "reconcile")
      \/ Set(p, Fresh) /\ Goto(p, "lock")
  BY DEF Begin
<1> HIDE DEF l
<1>4. UNCHANGED lock /\ UNCHANGED rec BY DEF Begin, Quiet, files
<1>5. loc'[p].id \in {rec.id, NoOne} /\ \A q \in Proc \ {p} : loc'[q].id = loc[q].id
  BY <1>1, <1>3, SetIds, FreshType
<1>6. loc'[p].id # p BY <1>2, <1>5, ProcAssumption
<1>7. {"reconcile", "lock"} \subseteq Where \ ({"idle", "unlock"} \cup Driver \cup Settling)
  BY DEF Where, Driver, Settling
<1> QED BY <1>3, <1>4, <1>5, <1>6, <1>7 DEF OwnStep, Goto

LEMMA ReconcileOwn == ASSUME TypeInv, OwnInv, NEW p \in Proc, Reconcile(p) PROVE OwnStep(p)
<1>1. loc[p].id \in Who /\ loc[p].id # p BY Parts, LocFacts DEF OwnInv, Reconcile
<1>2. \/ Refused(p) \/ \E b \in BOOLEAN : SettleRead(p, loc[p].id, b)
  BY BannerType DEF Reconcile
<1>3. CASE \E b \in BOOLEAN : SettleRead(p, loc[p].id, b)
  <2>1. \/ /\ \E l : Set(p, l) /\ l.id = loc[p].id
           /\ Goto(p, "compareAfter") /\ UNCHANGED lock /\ UNCHANGED rec
        \/ \E e \in Exits : Reconciled(p, e)
    BY <1>1, <1>3, SettleReadIs
  <2>2. CASE /\ \E l : Set(p, l) /\ l.id = loc[p].id
             /\ Goto(p, "compareAfter") /\ UNCHANGED lock /\ UNCHANGED rec
    <3>1. loc'[p].id = loc[p].id /\ \A q \in Proc \ {p} : loc'[q].id = loc[q].id
      BY <2>2, SetIds
    <3>2. "compareAfter" \in Where \ ({"idle"} \cup Driver) BY DEF Where, Driver
    <3> QED BY <1>1, <2>2, <3>1, <3>2 DEF OwnStep, Goto
  <2> QED BY <2>1, <2>2, ReconciledOwn
<1> QED BY <1>2, <1>3, RefusedOwn

LEMMA DecideOwn ==
    ASSUME TypeInv, OwnInv, NEW p \in Proc, pc[p] \in Settling, NEW e, Decide(p, e)
    PROVE  OwnStep(p)
<1>1. CASE loc[p].id # p BY <1>1, ReconciledOwn DEF Decide
<1>2. CASE loc[p].id = p
  <2>1. lock = p BY <1>2 DEF OwnInv
  <2>2. /\ \E k : Set(p, k) /\ k.id = p
        /\ Goto(p, "unlock") /\ UNCHANGED lock /\ UNCHANGED rec
    BY <1>2, Parts, NamedOwn DEF Decide
  <2>3. loc'[p].id = p /\ \A q \in Proc \ {p} : loc'[q].id = loc[q].id BY <2>2, SetIds
  <2>4. "unlock" \in Where \ {"idle"} /\ "unlock" \notin Driver BY DEF Where, Driver
  <2> QED BY <2>1, <2>2, <2>3, <2>4 DEF OwnStep, Goto
<1> QED BY <1>1, <1>2

LEMMA ComparesOwn ==
    ASSUME TypeInv, OwnInv, NEW p \in Proc, CompareAfter(p) \/ CompareBefore(p) \/ CompareAgain(p)
    PROVE  OwnStep(p)
<1>1. pc[p] \in Settling BY DEF CompareAfter, CompareBefore, CompareAgain, Settling
<1>2. \/ \E e : Decide(p, e)
      \/ /\ \E b : Set(p, [loc[p] EXCEPT !.after = b]) \/ Set(p, [loc[p] EXCEPT !.before = b])
         /\ \E to \in {"compareBefore", "compareAgain"} : Goto(p, to)
         /\ Quiet
  BY DEF CompareAfter, CompareBefore, CompareAgain
<1>3. CASE /\ \E b : Set(p, [loc[p] EXCEPT !.after = b]) \/ Set(p, [loc[p] EXCEPT !.before = b])
           /\ \E to \in {"compareBefore", "compareAgain"} : Goto(p, to)
           /\ Quiet
  <2>1. \A b : /\ [loc[p] EXCEPT !.after = b].id = loc[p].id
               /\ [loc[p] EXCEPT !.before = b].id = loc[p].id
    BY Parts, IdKept
  <2>2. loc'[p].id = loc[p].id /\ \A q \in Proc \ {p} : loc'[q].id = loc[q].id
    BY <1>3, <2>1, SetIds
  <2>3. UNCHANGED lock /\ UNCHANGED rec BY <1>3 DEF Quiet, files
  <2>4. {"compareBefore", "compareAgain"} \subseteq Where \ ({"idle", "reconcile", "lock"} \cup Driver)
    BY DEF Where, Driver
  <2>5. loc[p].id = p => lock = p BY <1>1 DEF OwnInv
  <2> QED BY <1>3, <2>2, <2>3, <2>4, <2>5 DEF OwnStep, Goto
<1> QED BY <1>1, <1>2, <1>3, DecideOwn

\* LockDevice: the process that gets the lock is the one that works under it.
LEMMA TakeLockOwn == ASSUME TypeInv, OwnInv, NEW p \in Proc, TakeLock(p) PROVE OwnStep(p)
<1>1. CASE Refused(p) BY <1>1, RefusedOwn
<1>2. CASE Stop(p, "failed")
  <2>1. Goto(p, "unlock") /\ UNCHANGED lock /\ UNCHANGED rec /\ UNCHANGED loc
    BY <1>2 DEF Stop, Finish, files
  <2>2. loc[p].id # p BY DEF OwnInv, TakeLock
  <2>3. "unlock" \in Where \ {"idle"} /\ "unlock" \notin Driver BY DEF Where, Driver
  <2> QED BY <2>1, <2>2, <2>3 DEF OwnStep, Goto
<1>3. CASE ~Refused(p) /\ ~Stop(p, "failed")
  <2> DEFINE l == [Fresh EXCEPT !.id = p]
  <2>1. l.id = p BY FreshType, IdKept
  <2>2. lock = NoOne /\ lock' = p /\ Set(p, l) /\ Goto(p, "preflight") /\ UNCHANGED rec
    BY <1>3 DEF TakeLock
  <2> HIDE DEF l
  <2>3. loc'[p].id = p /\ \A q \in Proc \ {p} : loc'[q].id = loc[q].id BY <2>1, <2>2, SetIds
  <2>4. "preflight" \in Where \ {"idle"} BY DEF Where
  <2> QED BY <2>2, <2>3, <2>4 DEF OwnStep, Goto
<1> QED BY <1>1, <1>2, <1>3

LEMMA EndOwn ==
    ASSUME TypeInv, OwnInv, NEW p \in Proc, Unlock(p) \/ Close(p) \/ Keep(p) \/ Crash(p)
    PROVE  OwnStep(p)
<1> DEFINE l == [Fresh EXCEPT !.id = loc[p].id, !.until = loc[p].until]
<1>1. l.id = loc[p].id BY FreshType, IdKept
<1>2. \E to \in {"close", "keep", "done", "dead"} : Goto(p, to) BY DEF Unlock, Close, Keep, Crash
<1>3. Set(p, l) \/ Set(p, Fresh) \/ UNCHANGED loc BY DEF Unlock, Close, Keep, Crash
<1>4. rec'.id \in {rec.id, loc[p].id} BY DEF Unlock, Close, Keep, AppliedOf, Crash, files
<1>5. lock' = lock \/ (lock = p /\ lock' = NoOne) BY DEF Unlock, Close, Keep, Crash, files
<1> HIDE DEF l
<1>6. loc'[p].id \in {loc[p].id, NoOne} /\ \A q \in Proc \ {p} : loc'[q].id = loc[q].id
  BY <1>1, <1>3, SetIds, FreshType
<1>7. {"close", "keep", "done", "dead"} \subseteq
          Where \ ({"idle", "reconcile", "lock", "unlock"} \cup Driver \cup Settling)
  BY DEF Where, Driver, Settling
<1> QED BY <1>2, <1>4, <1>5, <1>6, <1>7 DEF OwnStep, Goto

LEMMA PanicOwn == ASSUME TypeInv, OwnInv, NEW p \in Proc, Panic(p) PROVE OwnStep(p)
<1>1. lock = p /\ Goto(p, "unlock") /\ UNCHANGED lock /\ UNCHANGED rec
  BY DEF Panic, Finish, Discard, files
<1>2. (\E t : Set(p, [loc[p] EXCEPT !.until = t])) \/ UNCHANGED loc
  <2>1. loc[p] \in LocType BY Parts
  <2> QED BY <2>1 DEF Panic, Discard, LocType
<1>3. \A t : [loc[p] EXCEPT !.until = t].id = loc[p].id BY Parts, IdKept
<1>4. loc'[p].id = loc[p].id /\ \A q \in Proc \ {p} : loc'[q].id = loc[q].id
  BY <1>2, <1>3, SetIds
<1>5. "unlock" \in Where \ {"idle"} /\ "unlock" \notin Driver BY DEF Where, Driver
<1> QED BY <1>1, <1>4, <1>5 DEF OwnStep, Goto

\* The exits of the driver's steps.
LEMMA StopOwn ==
    ASSUME NEW p \in Proc, NEW e, pc[p] \in Driver, Stop(p, e) \/ Discard(p, e)
    PROVE  DriverStep(p)
BY DEF Stop, Discard, Finish, DriverStep, files

LEMMA SettleReadOwn ==
    ASSUME TypeInv, NEW p \in Proc, NEW b \in BOOLEAN, pc[p] \in Driver, SettleRead(p, p, b)
    PROVE  DriverStep(p)
<1>1. /\ \E l : Set(p, l) /\ l.id = p
      /\ Goto(p, "compareAfter") \/ Goto(p, "unlock")
      /\ UNCHANGED lock /\ UNCHANGED rec
  BY SettleReadIs DEF Who
<1> QED BY <1>1 DEF DriverStep

\* A quiet step within the driver that keeps the process's id.
LEMMA QuietOwn ==
    ASSUME NEW p \in Proc, pc[p] \in Driver, NEW to \in Driver, Goto(p, to),
           UNCHANGED files, (\E l : Set(p, l) /\ l.id = p) \/ UNCHANGED loc
    PROVE  DriverStep(p)
BY DEF DriverStep, files

LEMMA DriverOwn ==
    ASSUME TypeInv, OwnInv, NEW p \in Proc,
           \/ Preflight(p) \/ Read(p) \/ OpenLoad(p) \/ Compare(p) \/ CheckState(p) \/ Check(p)
           \/ TypeCommit(p) \/ Land(p) \/ Answer(p)
           \/ FreshLogin(p) \/ Landed(p) \/ Converged(p) \/ ConfirmedByOther(p)
           \/ WindowCheck(p) \/ Confirm(p) \/ ReadState(p)
           \/ Cancel(p) \/ Undo(p) \/ UndoCompare(p) \/ UndoCommit(p)
    PROVE  DriverStep(p)
<1>1. pc[p] \in Driver
  BY DEF Preflight, Read, OpenLoad, Compare, CheckState, Check, TypeCommit, Land, Answer, FreshLogin,
         Landed, Converged, ConfirmedByOther, WindowCheck, Confirm, ReadState, Cancel, Undo,
         UndoCompare, UndoCommit, Driver
<1>2. loc[p].id = p BY <1>1 DEF OwnInv
<1>3. \A x, y, z :
         /\ [loc[p] EXCEPT !.pre = x].id = p /\ [loc[p] EXCEPT !.until = x].id = p
         /\ [loc[p] EXCEPT !.cand = x].id = p /\ [loc[p] EXCEPT !.until = x, !.cand = y].id = p
         /\ [loc[p] EXCEPT !.bann = x].id = p /\ [loc[p] EXCEPT !.noBanner = x].id = p
         /\ [loc[p] EXCEPT !.ok = x].id = p /\ [loc[p] EXCEPT !.pending = x].id = p
         /\ [loc[p] EXCEPT !.verified = x].id = p
         /\ [loc[p] EXCEPT !.pre = x, !.committing = y, !.win = z].id = p
  BY <1>2, Parts, IdKept
<1>4. CASE Preflight(p) \/ Read(p) \/ OpenLoad(p)
  <2>1. \/ \E e : Stop(p, e)
        \/ /\ \E to \in Driver : Goto(p, to)
           /\ UNCHANGED files
           /\ \/ \E x : Set(p, [loc[p] EXCEPT !.pre = x]) \/ Set(p, [loc[p] EXCEPT !.cand = x])
              \/ UNCHANGED loc
    BY <1>4 DEF Enter, Preflight, Read, OpenLoad, Quiet, Driver
  <2> QED BY <2>1, <1>1, <1>3, StopOwn, QuietOwn
<1>5. CASE Compare(p) \/ CheckState(p) \/ TypeCommit(p)
  <2>1. \/ \E e : Discard(p, e)
        \/ /\ \E to \in Driver : Goto(p, to)
           /\ UNCHANGED files
           /\ \/ \E x : Set(p, [loc[p] EXCEPT !.bann = x])
              \/ \E x, y, z : Set(p, [loc[p] EXCEPT !.pre = x, !.committing = y, !.win = z])
              \/ UNCHANGED loc
    BY <1>5 DEF Compare, CheckState, TypeCommit, Quiet, Driver
  <2>2. ASSUME NEW x, NEW y, NEW z, Set(p, [loc[p] EXCEPT !.pre = x, !.committing = y, !.win = z])
        PROVE  \E l : Set(p, l) /\ l.id = p
    <3>1. [loc[p] EXCEPT !.pre = x, !.committing = y, !.win = z].id = p BY <1>2, Parts, IdKept
    <3> QED BY <2>2, <3>1
  <2>3. ASSUME NEW x, Set(p, [loc[p] EXCEPT !.bann = x]) PROVE \E l : Set(p, l) /\ l.id = p
    BY <2>3, <1>3
  <2>4. (\E e : Discard(p, e)) \/
        (/\ \E to \in Driver : Goto(p, to)
         /\ UNCHANGED files
         /\ (\E l : Set(p, l) /\ l.id = p) \/ UNCHANGED loc)
    BY <2>1, <2>2, <2>3
  <2> QED BY <2>4, <1>1, StopOwn, QuietOwn
<1>6. CASE Check(p)
  <2>1. \/ \E e : Discard(p, e)
        \/ /\ Goto(p, "commit") \/ Goto(p, "unlock")
           /\ UNCHANGED files /\ UNCHANGED loc
    BY <1>6 DEF Check, Finish
  <2> QED BY <2>1, <1>1, StopOwn DEF DriverStep, Driver, files
<1>7. CASE Land(p)
  <2>1. /\ Goto(p, "answer") /\ UNCHANGED files
        /\ (\E x : Set(p, [loc[p] EXCEPT !.ok = x])) \/ UNCHANGED loc
    BY <1>7 DEF Land
  <2> QED BY <2>1, <1>1, <1>3, QuietOwn DEF Driver
<1>8. CASE Answer(p)
  <2>1. /\ \E to \in Driver : Goto(p, to)
        /\ \E x, y : Set(p, [loc[p] EXCEPT !.until = x, !.cand = y])
        /\ UNCHANGED lock
        /\ rec' = rec \/ rec'.id = p
    <3>1. Goto(p, "freshLogin") \/ Goto(p, "readState") BY <1>8 DEF Answer
    <3>2. Set(p, [loc[p] EXCEPT !.until = Window + SettleSlack, !.cand = {}]) /\ UNCHANGED lock
      BY <1>8 DEF Answer
    <3>3. rec' = rec \/ rec'.id = p BY <1>8 DEF Answer, PendingRecord
    <3> QED BY <3>1, <3>2, <3>3 DEF Driver
  <2>2. PICK x, y : Set(p, [loc[p] EXCEPT !.until = x, !.cand = y]) BY <2>1
  <2>3. [loc[p] EXCEPT !.until = x, !.cand = y].id = p BY <1>2, Parts, IdKept
  <2>4. \E l : Set(p, l) /\ l.id = p BY <2>2, <2>3
  <2> QED BY <2>1, <2>4, <1>1 DEF DriverStep
<1>9. CASE FreshLogin(p) \/ Landed(p) \/ Converged(p)
  <2>1. /\ \E to \in Driver : Goto(p, to)
        /\ UNCHANGED files
        /\ \/ \E x : Set(p, [loc[p] EXCEPT !.noBanner = x]) \/ Set(p, [loc[p] EXCEPT !.verified = x])
           \/ UNCHANGED loc
    BY <1>9 DEF FreshLogin, Landed, Converged, Quiet, Driver
  <2> QED BY <2>1, <1>1, <1>3, QuietOwn
<1>10. CASE ConfirmedByOther(p)
  <2>1. \/ /\ Goto(p, "cancel") \/ Goto(p, "unlock")
           /\ (\E x : Set(p, [loc[p] EXCEPT !.until = x])) \/ UNCHANGED loc
           /\ UNCHANGED lock /\ UNCHANGED rec
        \/ SettleRead(p, p, pend.on)
    BY <1>10 DEF ConfirmedByOther, Finish, Quiet, files
  <2>2. pend.on \in BOOLEAN BY Parts
  <2> QED BY <2>1, <2>2, <1>1, <1>3, SettleReadOwn DEF DriverStep, Driver
<1>11. CASE WindowCheck(p) \/ ReadState(p) \/ Cancel(p)
  <2>1. \/ \E e : Stop(p, e)
        \/ /\ \E to \in {"cancel", "confirm", "name", "undo"} : Goto(p, to)
           /\ UNCHANGED files
           /\ (\E x : Set(p, [loc[p] EXCEPT !.pending = x])) \/ UNCHANGED loc
        \/ \E b \in BOOLEAN : SettleRead(p, p, b)
    <3>1. CASE WindowCheck(p) BY <3>1 DEF WindowCheck, Quiet
    <3>2. CASE ReadState(p) BY <3>2, BannerType DEF ReadState, Quiet
    <3>3. CASE Cancel(p) BY <3>3, BannerType DEF Cancel, Quiet
    <3> QED BY <1>11, <3>1, <3>2, <3>3
  <2>2. {"cancel", "confirm", "name", "undo"} \subseteq Driver BY DEF Driver
  <2> QED BY <2>1, <2>2, <1>1, <1>3, StopOwn, QuietOwn, SettleReadOwn
<1>12. CASE Confirm(p) \/ Undo(p) \/ UndoCompare(p) \/ UndoCommit(p)
  <2>1. /\ \E to \in Driver : Goto(p, to)
        /\ UNCHANGED files
        /\ (\E x : Set(p, [loc[p] EXCEPT !.cand = x])) \/ UNCHANGED loc
    BY <1>12 DEF Confirm, Undo, UndoCompare, UndoCommit, Driver
  <2> QED BY <2>1, <1>1, <1>3, QuietOwn
<1> QED BY <1>4, <1>5, <1>6, <1>7, <1>8, <1>9, <1>10, <1>11, <1>12

\* The steps of the world around the processes leave ids, places and the lock.
LEMMA WorldOwn ==
    ASSUME OwnInv, UNCHANGED <<pc, lock>>, rec'.id = rec.id, \A p \in Proc : loc'[p].id = loc[p].id
    PROVE  OwnInv'
BY DEF OwnInv

LEMMA NextOwn == ASSUME TypeInv, OwnInv, [Next]_vars PROVE OwnInv'
<1>1. ASSUME NEW p \in Proc, Begin(p) \/ Step(p) \/ Panic(p) \/ Crash(p) PROVE OwnInv'
  <2>1. CASE DriverStep(p) BY <2>1, DriverStepOwn, OwnStepKeeps
  <2>2. CASE ~DriverStep(p)
    <3>1. OwnStep(p)
      BY <1>1, <2>2, DriverOwn, BeginOwn, ReconcileOwn, ComparesOwn, TakeLockOwn, EndOwn, PanicOwn
      DEF Step
    <3> QED BY <3>1, OwnStepKeeps
  <2> QED BY <2>1, <2>2
<1>2. CASE (\E p \in Proc : Interrupt(p) \/ SessionLost(p)) \/ UNCHANGED vars
  BY <1>2, WorldOwn DEF Interrupt, SessionLost, vars, files
<1>3. CASE Expire \/ StrangerCommit \/ StrangerConfirmed \/ StrangerCheck
  BY <1>3, WorldOwn DEF Expire, StrangerCommit, StrangerConfirmed, StrangerCheck, Stranger
<1>4. CASE Tick
  <2>1. rec \in RecType /\ \A p \in Proc : loc[p] \in LocType BY Parts
  <2>2. rec'.id = rec.id BY <1>4, <2>1 DEF Tick, RecType
  <2>3. \A p \in Proc : loc'[p].id = loc[p].id BY <1>4, <2>1 DEF Tick, LocType
  <2> QED BY <1>4, <2>2, <2>3, WorldOwn DEF Tick
<1> QED BY <1>1, <1>2, <1>3, <1>4 DEF Next, Fault

LEMMA InitOwn == Init => OwnInv
<1> SUFFICES ASSUME Init PROVE OwnInv OBVIOUS
<1>1. \A p \in Proc : pc[p] = "idle" /\ loc[p].id = NoOne BY FreshType DEF Init
<1>2. rec.id = NoOne BY DEF Init
<1>3. "idle" \notin Driver \cup Settling BY DEF Driver, Settling
<1> QED BY <1>1, <1>2, <1>3, ProcAssumption DEF OwnInv

LEMMA OneAtATime == TypeInv /\ OwnInv => OneTransaction
<1>1. ASSUME NEW p \in Proc, OwnInv, InTransaction(p), loc[p].id = p PROVE lock = p
  <2>1. pc[p] \in Driver \cup {"unlock"} BY <1>1 DEF InTransaction, Driver
  <2> QED BY <1>1, <2>1 DEF OwnInv
<1> QED BY <1>1 DEF OneTransaction

\* Two transactions on the device never overlap: however many commands run,
\* are killed, panic or settle each other's records, at most one is between
\* LockDevice and its release (lock.go).
THEOREM TransactionsExclude == Spec => []OneTransaction
<1>1. TypeInv /\ OwnInv /\ [Next]_vars => OwnInv' BY NextOwn
<1> QED BY <1>1, InitOwn, Typed, OneAtATime, PTL DEF Spec

----------------------------------------------------------------------------
(* A window under an exclusive session.  Before the session's first look at *)
(* the device there may be a stranger's window; after it there is none but   *)
(* the one this command's own commit started.                               *)

Early == {"preflight", "read", "open", "compare", "checkState"}
Looking == {"compare", "checkState"}

WinInv ==
    \A p \in Proc :
        /\ pc[p] \in Early => ~loc[p].committing
        /\ excl = p /\ pend.on /\ pc[p] \notin Looking => OursOnTop(p)

\* A step of process p as the invariant sees it: the device is left alone, or
\* the process commits in its own session.
WinStep(p) ==
    \E to \in Where :
        /\ pc' = [pc EXCEPT ![p] = to]
        /\ \A q \in Proc \ {p} : loc'[q] = loc[q]
        /\ to \in Early => ~loc'[p].committing
        /\ \/ /\ UNCHANGED <<hist, pend>>
              /\ excl' \in {excl, NoOne, p}
              /\ excl' = p /\ pend.on /\ to \notin Looking => OursOnTop(p)
           \/ /\ excl = p /\ pc[p] \notin Looking
              /\ ~pend'.on \/ (excl' \in {p, NoOne} /\ OursOnTop(p)')

LEMMA WinStepKeeps ==
    ASSUME TypeInv, WinInv, NEW p \in Proc, WinStep(p) PROVE WinInv'
<1> PICK to \in Where :
        /\ pc' = [pc EXCEPT ![p] = to]
        /\ \A q \in Proc \ {p} : loc'[q] = loc[q]
        /\ to \in Early => ~loc'[p].committing
        /\ \/ /\ UNCHANGED <<hist, pend>>
              /\ excl' \in {excl, NoOne, p}
              /\ excl' = p /\ pend.on /\ to \notin Looking => OursOnTop(p)
           \/ /\ excl = p /\ pc[p] \notin Looking
              /\ ~pend'.on \/ (excl' \in {p, NoOne} /\ OursOnTop(p)')
  BY DEF WinStep
<1>1. pc'[p] = to /\ \A q \in Proc \ {p} : pc'[q] = pc[q] BY Parts
<1>2. ASSUME NEW q \in Proc PROVE pc'[q] \in Early => ~loc'[q].committing
  BY <1>1 DEF WinInv
<1>3. ASSUME NEW q \in Proc, excl' = q, pend'.on, pc'[q] \notin Looking PROVE OursOnTop(q)'
  <2>1. CASE /\ UNCHANGED <<hist, pend>>
             /\ excl' \in {excl, NoOne, p}
             /\ excl' = p /\ pend.on /\ to \notin Looking => OursOnTop(p)
    <3>1. OursOnTop(q)
      <4>1. CASE q = p BY <1>1, <1>3, <2>1, <4>1
      <4>2. CASE q # p BY <1>1, <1>3, <2>1, <4>2, ProcAssumption DEF WinInv
      <4> QED BY <4>1, <4>2
    <3> QED BY <2>1, <3>1 DEF OursOnTop, Top
  <2>2. CASE ~pend'.on \/ (excl' \in {p, NoOne} /\ OursOnTop(p)') BY <1>3, <2>2, ProcAssumption
  <2> QED BY <2>1, <2>2
<1> QED BY <1>2, <1>3 DEF WinInv

LEMMA WinStepOwn ==
    ASSUME WinInv, NEW p \in Proc, WinStep(p), pend.on, pend' # pend PROVE OursOnTop(p)
BY DEF WinInv, WinStep

\* A step that leaves the device, and at most drops the session.
Onward(p) ==
    /\ \E to \in Where \ Early : Goto(p, to)
    /\ UNCHANGED <<hist, pend, ground>> /\ excl' \in {excl, NoOne}
    /\ (\E l : Set(p, l)) \/ UNCHANGED loc

\* Where something is known of the candidate or of the verification.
Marked == {"check", "commit", "landing", "byOther", "window", "confirm", "undoCommit"}

\* Such a step that gets nowhere in particular.
Calm(p) ==
    /\ \E to \in Where \ (Early \cup Marked) : Goto(p, to)
    /\ UNCHANGED <<hist, pend, ground>> /\ excl' \in {excl, NoOne}
    /\ (\E l : Set(p, l)) \/ UNCHANGED loc

LEMMA CalmOnward == ASSUME NEW p \in Proc, Calm(p) PROVE Onward(p)
BY DEF Calm, Onward

LEMMA CalmWin ==
    ASSUME TypeInv, WinInv, NEW p \in Proc, Onward(p), pc[p] \notin Looking \/ excl' # p
    PROVE  WinStep(p)
<1>1. PICK to \in Where \ Early : pc' = [pc EXCEPT ![p] = to] BY DEF Onward, Goto
<1>2. \A q \in Proc \ {p} : loc'[q] = loc[q] BY SetIds DEF Onward
<1>3. excl' = p /\ pend.on => OursOnTop(p) BY ProcAssumption DEF Onward, WinInv
<1> QED BY <1>1, <1>2, <1>3 DEF WinStep, Onward

LEMMA DropCalm ==
    ASSUME NEW p \in Proc, DropHeld(p) PROVE excl' \in {excl, NoOne} /\ excl' # p
BY ProcAssumption DEF DropHeld

LEMMA ExitsCalm ==
    ASSUME NEW p \in Proc
    PROVE  /\ \A e : Stop(p, e) => Calm(p)
           /\ \A e : Discard(p, e) => Calm(p) /\ excl' # p
           /\ Refused(p) => Calm(p)
           /\ \A e : Reconciled(p, e) => Calm(p)
           /\ \A e, l : Named(p, e, l) => Calm(p)
<1>1. {"unlock", "done", "lock"} \subseteq Where \ (Early \cup Marked) BY DEF Where, Early, Marked
<1>2. ASSUME NEW e, Stop(p, e) PROVE Calm(p) BY <1>1, <1>2 DEF Stop, Finish, device, Calm
<1>3. ASSUME NEW e, Discard(p, e) PROVE Calm(p) /\ excl' # p
  BY <1>1, <1>3, DropCalm DEF Discard, Finish, Calm
<1>4. Refused(p) => Calm(p) BY <1>1 DEF Refused, device, Calm
<1>5. ASSUME NEW e, Reconciled(p, e) PROVE Calm(p)
  BY <1>1, <1>4, <1>5 DEF Reconciled, device, Calm
<1>6. ASSUME NEW e, NEW l, Named(p, e, l) PROVE Calm(p)
  BY <1>1, <1>6, DropCalm DEF Named, Finish, Calm
<1> QED BY <1>2, <1>3, <1>4, <1>5, <1>6

LEMMA SettleCalm ==
    ASSUME NEW p \in Proc
    PROVE  /\ \A id, b : SettleRead(p, id, b) => Calm(p)
           /\ \A e : Decide(p, e) => Calm(p)
<1>1. ASSUME NEW id, NEW b, SettleRead(p, id, b) PROVE Calm(p)
  <2>1. \/ \E e, l : Named(p, e, l)
        \/ \E e : Reconciled(p, e)
        \/ (\E l : Set(p, l)) /\ Goto(p, "compareAfter") /\ Quiet
    BY <1>1 DEF SettleRead
  <2>2. CASE (\E l : Set(p, l)) /\ Goto(p, "compareAfter") /\ Quiet
    BY <2>2 DEF Quiet, device, Calm, Where, Early, Marked
  <2> QED BY <2>1, <2>2, ExitsCalm
<1>2. ASSUME NEW e, Decide(p, e) PROVE Calm(p) BY <1>2, ExitsCalm DEF Decide
<1> QED BY <1>1, <1>2

\* Most steps read, decide, or give the session up.
LEMMA MostCalm ==
    ASSUME NEW p \in Proc,
           \/ Begin(p) \/ Reconcile(p) \/ CompareAfter(p) \/ CompareBefore(p) \/ CompareAgain(p)
           \/ Answer(p) \/ FreshLogin(p) \/ Landed(p)
           \/ ConfirmedByOther(p) \/ ReadState(p) \/ Cancel(p) \/ Undo(p)
           \/ Unlock(p) \/ Close(p) \/ Keep(p)
    PROVE  Calm(p) /\ pc[p] \notin Looking
<1> DEFINE Still == UNCHANGED <<hist, pend, ground>> /\ excl' \in {excl, NoOne}
           Own == (\E l : Set(p, l)) \/ UNCHANGED loc
<1>1. CASE Begin(p) \/ Reconcile(p) \/ CompareAfter(p) \/ CompareBefore(p) \/ CompareAgain(p)
  <2>1. \/ /\ \E to \in {"reconcile", "lock", "compareBefore", "compareAgain"} : Goto(p, to)
           /\ Quiet /\ \E l : Set(p, l)
        \/ Refused(p) \/ (\E e : Decide(p, e)) \/ (\E id, b : SettleRead(p, id, b))
    BY <1>1 DEF Begin, Reconcile, CompareAfter, CompareBefore, CompareAgain
  <2>2. pc[p] \notin Looking
    BY <1>1 DEF Begin, Reconcile, CompareAfter, CompareBefore, CompareAgain, Looking
  <2>3. {"reconcile", "lock", "compareBefore", "compareAgain"} \subseteq Where \ (Early \cup Marked)
    BY DEF Where, Early, Marked
  <2>4. Quiet => Still BY DEF Quiet, device
  <2> QED BY <2>1, <2>2, <2>3, <2>4, ExitsCalm, SettleCalm DEF Calm
<1>2. CASE Answer(p) \/ FreshLogin(p) \/ Landed(p)
  <2>1. /\ \E to \in {"readState", "freshLogin", "cancel", "landed", "converged"} : Goto(p, to)
        /\ UNCHANGED device /\ Own
    BY <1>2 DEF Answer, FreshLogin, Landed, Quiet
  <2>2. pc[p] \notin Looking BY <1>2 DEF Answer, FreshLogin, Landed, Looking
  <2>3. {"readState", "freshLogin", "cancel", "landed", "converged"} \subseteq Where \ (Early \cup Marked)
    BY DEF Where, Early, Marked
  <2>4. UNCHANGED device => Still BY DEF device
  <2> QED BY <2>1, <2>2, <2>3, <2>4, ExitsCalm DEF Calm
<1>3. CASE ConfirmedByOther(p) \/ ReadState(p) \/ Cancel(p)
  <2>1. \/ /\ \E to \in {"cancel", "unlock", "name", "undo"} : Goto(p, to)
           /\ Still /\ Own
        \/ (\E e : Stop(p, e)) \/ (\E id, b : SettleRead(p, id, b))
    <3>1. Quiet => Still BY DEF Quiet, device
    <3>2. DropHeld(p) => excl' \in {excl, NoOne} BY DropCalm
    <3>3. CASE ConfirmedByOther(p) BY <3>1, <3>2, <3>3 DEF ConfirmedByOther, Finish
    <3>5. CASE ReadState(p) BY <3>1, <3>5 DEF ReadState
    <3>6. CASE Cancel(p) BY <3>1, <3>6 DEF Cancel
    <3> QED BY <1>3, <3>3, <3>5, <3>6
  <2>2. pc[p] \notin Looking
    BY <1>3 DEF ConfirmedByOther, ReadState, Cancel, Looking
  <2>3. {"cancel", "unlock", "name", "undo"} \subseteq Where \ (Early \cup Marked)
    BY DEF Where, Early, Marked
  <2> QED BY <2>1, <2>2, <2>3, ExitsCalm, SettleCalm DEF Calm
<1>4. CASE Undo(p) \/ Unlock(p) \/ Close(p) \/ Keep(p)
  <2>1. /\ \E to \in {"undoCompare", "name", "close", "keep", "done"} : Goto(p, to)
        /\ Own
    BY <1>4 DEF Undo, Unlock, Close, Keep
  <2>2. Still BY <1>4, DropCalm DEF Undo, Unlock, Close, Keep, device
  <2>3. pc[p] \notin Looking BY <1>4 DEF Undo, Unlock, Close, Keep, Looking
  <2>4. {"undoCompare", "name", "close", "keep", "done"} \subseteq Where \ (Early \cup Marked)
    BY DEF Where, Early, Marked
  <2> QED BY <2>1, <2>2, <2>3, <2>4 DEF Calm
<1> QED BY <1>1, <1>2, <1>3, <1>4

\* The steps of the driver that go on to what they have just found out.
LEMMA FoundOnward ==
    ASSUME NEW p \in Proc, TypeCommit(p) \/ Converged(p) \/ WindowCheck(p) \/ UndoCompare(p)
    PROVE  Onward(p) /\ pc[p] \notin Looking
<1>1. CASE Calm(p)
  BY <1>1, CalmOnward DEF TypeCommit, Converged, WindowCheck, UndoCompare, Looking
<1>2. CASE ~Calm(p)
  <2>1. /\ \E to \in {"landing", "byOther", "window", "cancel", "confirm", "undoCommit", "name"} : Goto(p, to)
        /\ (\E l : Set(p, l)) \/ UNCHANGED loc
    BY <1>2, ExitsCalm DEF TypeCommit, Converged, WindowCheck, UndoCompare
  <2>2. UNCHANGED <<hist, pend, ground>> /\ excl' \in {excl, NoOne}
    BY <1>2, ExitsCalm, DropCalm DEF TypeCommit, Converged, WindowCheck, UndoCompare, Quiet, device
  <2>3. pc[p] \notin Looking BY DEF TypeCommit, Converged, WindowCheck, UndoCompare, Looking
  <2>4. {"landing", "byOther", "window", "cancel", "confirm", "undoCommit", "name"} \subseteq Where \ Early
    BY DEF Where, Early
  <2> QED BY <2>1, <2>2, <2>3, <2>4 DEF Onward
<1> QED BY <1>1, <1>2

\* The steps up to the session's look at the device.
LEMMA NotCommitting ==
    ASSUME NEW l \in LocType, ~l.committing, NEW x
    PROVE  /\ ~[l EXCEPT !.pre = x].committing
           /\ ~[l EXCEPT !.cand = x].committing
           /\ ~[l EXCEPT !.bann = x].committing
BY DEF LocType

LEMMA FreshNotCommitting == ASSUME NEW x PROVE ~[Fresh EXCEPT !.id = x].committing
BY DEF Fresh

LEMMA SetNotCommitting ==
    ASSUME TypeInv, NEW p \in Proc, NEW l, Set(p, l), ~l.committing
    PROVE  ~loc'[p].committing /\ \A q \in Proc \ {p} : loc'[q] = loc[q]
BY SetIds

LEMMA EarlyWin ==
    ASSUME TypeInv, WinInv, NEW p \in Proc,
           TakeLock(p) \/ Preflight(p) \/ Read(p) \/ OpenLoad(p) \/ Compare(p) \/ CheckState(p)
    PROVE  WinStep(p)
<1>1. loc[p] \in LocType BY Parts
<1>2. \A x : ~loc[p].committing => /\ ~[loc[p] EXCEPT !.pre = x].committing
                                   /\ ~[loc[p] EXCEPT !.cand = x].committing
                                   /\ ~[loc[p] EXCEPT !.bann = x].committing
  BY <1>1, NotCommitting
<1>3. CASE TakeLock(p) \/ Preflight(p) \/ Read(p)
  <2>1. pc[p] \notin Looking BY <1>3 DEF TakeLock, Preflight, Read, Looking
  <2>2. CASE Calm(p) BY <2>1, <2>2, CalmOnward, CalmWin
  <2>3. CASE ~Calm(p)
    <3>1. /\ \E to \in {"preflight", "read", "open"} : Goto(p, to)
          /\ \/ \E x : Set(p, [Fresh EXCEPT !.id = x])
             \/ ~loc[p].committing /\ \E x : Set(p, [loc[p] EXCEPT !.pre = x])
             \/ ~loc[p].committing /\ UNCHANGED loc
          /\ UNCHANGED device
      BY <1>3, <2>3, ExitsCalm DEF TakeLock, Preflight, Read, Quiet, WinInv, Early
    <3>2. ~loc'[p].committing /\ \A q \in Proc \ {p} : loc'[q] = loc[q]
      <4>1. CASE \E x : Set(p, [Fresh EXCEPT !.id = x])
        BY <4>1, FreshNotCommitting, SetNotCommitting
      <4>2. CASE ~loc[p].committing /\ \E x : Set(p, [loc[p] EXCEPT !.pre = x])
        BY <4>2, <1>2, SetNotCommitting
      <4>3. CASE ~loc[p].committing /\ UNCHANGED loc BY <4>3
      <4> QED BY <3>1, <4>1, <4>2, <4>3
    <3>3. excl' = p /\ pend.on => OursOnTop(p) BY <2>1, <3>1 DEF device, WinInv
    <3>4. UNCHANGED <<hist, pend>> /\ excl' = excl BY <3>1 DEF device
    <3>5. \E to \in Where : pc' = [pc EXCEPT ![p] = to] BY <3>1 DEF Goto, Where
    <3> QED BY <3>2, <3>3, <3>4, <3>5 DEF WinStep
  <2> QED BY <2>2, <2>3
<1>4. CASE OpenLoad(p)
  <2>1. CASE Stop(p, "failed")
    <3>1. pc[p] \notin Looking BY <1>4 DEF OpenLoad, Looking
    <3> QED BY <2>1, <3>1, ExitsCalm, CalmOnward, CalmWin
  <2>2. CASE ~Stop(p, "failed")
    <3>1. /\ excl' = p /\ Goto(p, "compare") /\ UNCHANGED <<hist, pend>>
          /\ \E x : Set(p, [loc[p] EXCEPT !.cand = x])
      BY <1>4, <2>2 DEF OpenLoad, Enter
    <3>2. ~loc[p].committing BY <1>4 DEF OpenLoad, WinInv, Early
    <3>3. ~loc'[p].committing /\ \A q \in Proc \ {p} : loc'[q] = loc[q]
      BY <3>1, <3>2, <1>2, SetNotCommitting
    <3>4. "compare" \in Where /\ "compare" \in Looking BY DEF Where, Looking
    <3> QED BY <3>1, <3>3, <3>4 DEF WinStep, Goto
  <2> QED BY <2>1, <2>2
<1>5. CASE Compare(p) \/ CheckState(p)
  <2>1. CASE \E e : Discard(p, e)
    <3>1. Calm(p) /\ excl' # p BY <2>1, ExitsCalm
    <3> QED BY <3>1, CalmOnward, CalmWin
  <2>2. CASE ~\E e : Discard(p, e)
    <3>1. /\ \/ Goto(p, "checkState") /\ \E x : Set(p, [loc[p] EXCEPT !.bann = x])
             \/ Goto(p, "check") /\ UNCHANGED loc /\ ~pend.on
          /\ UNCHANGED device
      BY <1>5, <2>2 DEF Compare, CheckState, Quiet
    <3>2. ~loc[p].committing BY <1>5 DEF Compare, CheckState, WinInv, Early
    <3>3. ~loc'[p].committing /\ \A q \in Proc \ {p} : loc'[q] = loc[q]
      BY <3>1, <3>2, <1>2, SetNotCommitting
    <3>4. UNCHANGED <<hist, pend>> /\ excl' = excl BY <3>1 DEF device
    <3>5. {"checkState", "check"} \subseteq Where /\ "checkState" \in Looking
      BY DEF Where, Looking
    <3> QED BY <3>1, <3>3, <3>4, <3>5 DEF WinStep, Goto
  <2> QED BY <2>1, <2>2
<1> QED BY <1>3, <1>4, <1>5

\* The check and the three commits: typed in the held session, past its look.
LEMMA CommitWin ==
    ASSUME TypeInv, WinInv, NEW p \in Proc, Check(p) \/ Land(p) \/ Confirm(p) \/ UndoCommit(p)
    PROVE  WinStep(p)
<1>1. pc[p] \notin Looking BY DEF Check, Land, Confirm, UndoCommit, Looking
<1>2. {"commit", "unlock", "answer", "name"} \subseteq Where \ Early BY DEF Where, Early
<1>3. CASE Onward(p) BY <1>1, <1>3, CalmWin
<1>4. CASE ~Onward(p)
  <2>1. /\ \E to \in {"commit", "unlock", "answer", "name"} : Goto(p, to)
        /\ (\E l : Set(p, l)) \/ UNCHANGED loc
    <3>1. CASE Check(p) BY <1>4, <3>1, ExitsCalm, CalmOnward DEF Check, Finish
    <3>2. CASE Land(p) \/ Confirm(p) \/ UndoCommit(p) BY <3>2 DEF Land, Confirm, UndoCommit
    <3> QED BY <3>1, <3>2
  <2>2. /\ excl = p
        /\ ~pend'.on \/ (excl' \in {p, NoOne} /\ OursOnTop(p)')
    <3>1. CASE Check(p)
      BY <1>4, <3>1, ExitsCalm, CalmOnward DEF Check, CommitCheck, NoPending
    <3>2. CASE Confirm(p) \/ UndoCommit(p)
      <4>1. DropHeld(p) /\ UNCHANGED <<hist, pend, ground>> => Onward(p)
        BY <1>2, <2>1, DropCalm DEF Onward
      <4> QED BY <1>4, <3>2, <4>1 DEF Confirm, UndoCommit, Commit, NoPending
    <3>3. CASE Land(p)
      <4> DEFINE e == [by |-> p, kind |-> "commit", cfg |-> loc[p].cand]
      <4>1. UNCHANGED <<hist, pend, ground>> /\ excl' \in {excl, NoOne} => Onward(p)
        BY <1>2, <2>1 DEF Onward
      <4>2. excl = p /\ excl' \in {p, NoOne} /\ hist' = Append(hist, e)
        BY <1>4, <3>3, <4>1, DropCalm DEF Land, CommitUnderTimer
      <4>3. e \in Entry
        <5>1. loc[p].cand \in Config BY Parts, LocFacts
        <5> QED BY <5>1 DEF Entry
      <4>4. e.kind = "commit" /\ e.by = p OBVIOUS
      <4> HIDE DEF e
      <4>5. hist'[Len(hist')] = e
        BY <4>2, <4>3, Parts, AppendFacts DEF DeviceOK
      <4> QED BY <4>2, <4>4, <4>5 DEF OursOnTop, Top
    <3> QED BY <3>1, <3>2, <3>3
  <2>3. \A q \in Proc \ {p} : loc'[q] = loc[q] BY <2>1, SetIds
  <2>4. \E to \in Where \ Early : pc' = [pc EXCEPT ![p] = to] BY <1>2, <2>1 DEF Goto
  <2> QED BY <1>1, <2>2, <2>3, <2>4 DEF WinStep
<1> QED BY <1>3, <1>4

\* A panic while the session still looks drops it: nothing was committed.
LEMMA StoppedWin ==
    ASSUME TypeInv, WinInv, NEW p \in Proc, Panic(p) \/ Crash(p) PROVE WinStep(p)
<1>1. {"unlock", "dead"} \subseteq Where \ (Early \cup Marked) BY DEF Where, Early, Marked
<1>2. CASE Crash(p)
  <2>1. excl' \in {excl, NoOne} /\ excl' # p BY <1>2, DropCalm DEF Crash
  <2>2. Calm(p) BY <1>1, <1>2, <2>1 DEF Crash, Calm
  <2> QED BY <2>1, <2>2, CalmOnward, CalmWin
<1>3. CASE Panic(p)
  <2>1. CASE Discard(p, "failed") BY <2>1, ExitsCalm, CalmOnward, CalmWin
  <2>2. CASE ~Discard(p, "failed")
    <3>1. loc[p].committing /\ Calm(p) BY <1>1, <1>3, <2>2 DEF Panic, Finish, device, Calm
    <3>2. pc[p] \notin Looking BY <3>1 DEF WinInv, Early, Looking
    <3> QED BY <3>1, <3>2, CalmOnward, CalmWin
  <2> QED BY <2>1, <2>2
<1> QED BY <1>2, <1>3

LEMMA ProcessWin ==
    ASSUME TypeInv, WinInv, NEW p \in Proc, Begin(p) \/ Step(p) \/ Panic(p) \/ Crash(p)
    PROVE  WinStep(p)
<1>1. CASE Onward(p) /\ pc[p] \notin Looking BY <1>1, CalmWin
<1>2. CASE ~(Onward(p) /\ pc[p] \notin Looking)
  BY <1>2, MostCalm, CalmOnward, FoundOnward, EarlyWin, CommitWin, StoppedWin DEF Step
<1> QED BY <1>1, <1>2

\* The rest of the world: it stops windows, or starts one outside any session.
LEMMA WorldWin ==
    ASSUME TypeInv, WinInv,
           \/ \E p \in Proc : Interrupt(p) \/ SessionLost(p)
           \/ Expire \/ StrangerCommit \/ StrangerConfirmed \/ StrangerCheck \/ Tick
           \/ UNCHANGED vars
    PROVE  WinInv' /\ UNCHANGED pc
<1>1. UNCHANGED pc
  BY DEF Interrupt, SessionLost, Expire, StrangerCommit, StrangerConfirmed, StrangerCheck, Stranger,
         Tick, vars
<1>2. \A p \in Proc : loc'[p].committing => loc[p].committing
  <2>1. CASE Tick
    <3>1. \A p \in Proc : loc[p] \in LocType BY Parts
    <3> QED BY <2>1, <3>1 DEF Tick, LocType
  <2>2. CASE ~Tick
    BY <2>2 DEF Interrupt, SessionLost, Expire, StrangerCommit, StrangerConfirmed, StrangerCheck,
           Stranger, vars
  <2> QED BY <2>1, <2>2
<1>3. \/ ~pend'.on
      \/ excl' = NoOne
      \/ UNCHANGED hist /\ excl' = excl /\ (pend'.on => pend.on)
  <2>1. CASE Tick
    <3>1. pend \in PendType BY Parts DEF DeviceOK
    <3>2. pend'.on => pend.on BY <2>1, <3>1 DEF Tick, PendType
    <3> QED BY <2>1, <3>2 DEF Tick
  <2>2. CASE (\E p \in Proc : Interrupt(p) \/ SessionLost(p)) \/ UNCHANGED vars
    BY <2>2 DEF Interrupt, SessionLost, device, vars
  <2>3. CASE Expire \/ StrangerCommit \/ StrangerConfirmed \/ StrangerCheck
    BY <2>3 DEF Expire, StrangerCommit, StrangerConfirmed, StrangerCheck, Stranger, Commit,
                CommitCheck, NoPending
  <2> QED BY <2>1, <2>2, <2>3
<1>4. ASSUME NEW p \in Proc, excl' = p, pend'.on, pc'[p] \notin Looking PROVE OursOnTop(p)'
  <2>1. UNCHANGED hist /\ excl = p /\ pend.on BY <1>3, <1>4, ProcAssumption
  <2>2. OursOnTop(p) BY <1>1, <1>4, <2>1 DEF WinInv
  <2> QED BY <2>1, <2>2 DEF OursOnTop, Top
<1> QED BY <1>1, <1>2, <1>4 DEF WinInv

LEMMA NextWin ==
    ASSUME TypeInv, WinInv, [Next]_vars
    PROVE  /\ WinInv'
           /\ \A p \in Proc : pc'[p] # pc[p] /\ pend.on /\ pend' # pend => OursOnTop(p)
<1>1. ASSUME NEW p \in Proc, Begin(p) \/ Step(p) \/ Panic(p) \/ Crash(p)
      PROVE  /\ WinInv'
             /\ \A q \in Proc : pc'[q] # pc[q] /\ pend.on /\ pend' # pend => OursOnTop(q)
  <2>1. WinStep(p) BY <1>1, ProcessWin
  <2>2. \A q \in Proc : pc'[q] # pc[q] => q = p BY <2>1, Parts DEF WinStep
  <2> QED BY <2>1, <2>2, WinStepKeeps, WinStepOwn
<1>2. CASE \/ \E p \in Proc : Interrupt(p) \/ SessionLost(p)
           \/ Expire \/ StrangerCommit \/ StrangerConfirmed \/ StrangerCheck \/ Tick
           \/ UNCHANGED vars
  BY <1>2, WorldWin
<1> QED BY <1>1, <1>2 DEF Next, Fault

\* tacctl never ends a window it did not start: a check confirms whatever is
\* pending, and so does any commit, so each is typed only over this apply's own
\* confirmed commit, or when there is no window; whoever else commits, checks,
\* is killed or loses a session meanwhile (driver.go, run and cancel).
THEOREM WindowsOfOthersStand == Spec => EndsOnlyItsOwnWindow
<1>1. Init => WinInv
  <2> SUFFICES ASSUME Init PROVE WinInv OBVIOUS
  <2>1. \A p \in Proc : pc[p] = "idle" BY DEF Init
  <2>2. excl = NoOne /\ "idle" \notin Early BY DEF Init, Early
  <2> QED BY <2>1, <2>2, ProcAssumption DEF WinInv
<1>2. TypeInv /\ WinInv /\ [Next]_vars => WinInv' BY NextWin
<1>3. TypeInv /\ WinInv /\ [Next]_vars =>
          [\A p \in Proc : pc'[p] # pc[p] /\ pend.on /\ pend' # pend => OursOnTop(p)]_vars
  BY NextWin
<1> QED BY <1>1, <1>2, <1>3, Typed, PTL DEF Spec, EndsOnlyItsOwnWindow

----------------------------------------------------------------------------
(* What tacctl commits.  While a session holds the candidate only the       *)
(* device's own timer can change the configuration under it, and that goes   *)
(* back to what this command found: so the candidate differs from what runs  *)
(* in the change at most, from the compare to the commit, and again from the *)
(* compare of the undo to the cancel.                                        *)

Alike(a, b) == a \ {"c"} = b \ {"c"}

\* What a command knows where it goes on.
Noted(p) ==
    /\ pc[p] \in {"commit", "landing"} => ~loc[p].bann
    /\ pc[p] \in {"byOther", "window", "confirm"} => loc[p].verified
    /\ pc[p] = "undoCommit" => "c" \notin loc[p].cand

\* Its candidate, once it was compared with a device without a window.
Exact(p) ==
    /\ excl = p /\ pc[p] \in {"checkState", "check", "commit", "landing"} /\ ~loc[p].bann =>
          ~pend.on /\ ShowsChange(Running, loc[p].cand)
    /\ excl = p /\ pc[p] = "undoCommit" => Alike(loc[p].cand, Running)

\* A window under its session is its own, over what it found.
Guarded(p) ==
    excl = p /\ pend.on /\ pc[p] \notin Looking =>
        Alike(pend.before, Running) /\ \A q \in Proc : ground[q] = "pending" => q = p

\* Without a window nothing waits for one to end.
NoStray == pend.on \/ \A q \in Proc : ground[q] # "pending"

ChangeInv == NoStray /\ \A p \in Proc : Noted(p) /\ Exact(p) /\ Guarded(p)

\* What a step of process p makes permanent (PermanentOnlyProven).
Permanent(p) ==
    ("c" \in Running /\ ~pend.on)' /\ ("c" \notin Running \/ pend.on) =>
        pend.on /\ loc[p].verified /\ Running' = pend.before \cup {"c"}

\* A step of process p, and what it may do to the device.
ChangeStep(p) ==
    /\ \E to \in Where : Goto(p, to)
    /\ \A q \in Proc \ {p} : loc'[q] = loc[q]
    /\ \/ UNCHANGED <<hist, pend, ground>> /\ excl' \in {excl, NoOne, p}
       \/ excl = p /\ excl' \in {p, NoOne}
    /\ NoStray' /\ Noted(p)' /\ Exact(p)' /\ Guarded(p)'
    /\ hist' # hist => Alike(Running', Running)
    /\ Permanent(p)

LEMMA ChangeStepKeeps ==
    ASSUME TypeInv, ChangeInv, NEW p \in Proc, ChangeStep(p) PROVE ChangeInv'
<1>1. ASSUME NEW q \in Proc \ {p} PROVE Noted(q)' /\ Exact(q)' /\ Guarded(q)'
  <2>1. pc'[q] = pc[q] /\ loc'[q] = loc[q] BY Parts DEF ChangeStep, Goto
  <2>2. Noted(q) /\ Exact(q) /\ Guarded(q) BY DEF ChangeInv
  <2>3. Noted(q)' BY <2>1, <2>2 DEF Noted
  <2>4. CASE excl' # q BY <2>3, <2>4 DEF Exact, Guarded
  <2>5. CASE excl' = q
    <3>1. excl = q /\ UNCHANGED <<hist, pend, ground>> BY <2>5, ProcAssumption DEF ChangeStep
    <3> QED BY <2>1, <2>2, <2>3, <3>1 DEF Exact, Guarded, Running, Top
  <2> QED BY <2>4, <2>5
<1>2. Noted(p)' /\ Exact(p)' /\ Guarded(p)' /\ NoStray' BY DEF ChangeStep
<1> QED BY <1>1, <1>2 DEF ChangeInv

\* A step that leaves the device and gets to a place of its own.
Leaves(p) ==
    /\ UNCHANGED <<hist, pend, ground>> /\ excl' \in {excl, NoOne, p}
    /\ (\E l : Set(p, l)) \/ UNCHANGED loc

LEMMA LeavesChange ==
    ASSUME TypeInv, ChangeInv, NEW p \in Proc, Leaves(p), NEW to \in Where, Goto(p, to),
           Noted(p)', Exact(p)', Guarded(p)'
    PROVE  ChangeStep(p)
<1>1. \A q \in Proc \ {p} : loc'[q] = loc[q] BY SetIds DEF Leaves
<1>2. NoStray' BY DEF Leaves, ChangeInv, NoStray
<1>3. Permanent(p) BY DEF Leaves, Permanent, Running, Top
<1> QED BY <1>1, <1>2, <1>3 DEF Leaves, ChangeStep

LEMMA GuardedStays ==
    ASSUME NEW p \in Proc, Guarded(p), UNCHANGED <<hist, pend, ground>>, excl' \in {excl, NoOne},
           pc[p] \notin Looking \/ excl' # p
    PROVE  Guarded(p)'
BY ProcAssumption DEF Guarded, Running, Top

LEMMA CalmChange ==
    ASSUME TypeInv, ChangeInv, NEW p \in Proc, Calm(p), pc[p] \notin Looking \/ excl' # p
    PROVE  ChangeStep(p)
<1>1. PICK to \in Where \ (Early \cup Marked) : Goto(p, to) BY DEF Calm
<1>2. pc'[p] = to BY <1>1, Parts DEF Goto
<1>3. Noted(p)' /\ Exact(p)' BY <1>1, <1>2 DEF Noted, Exact, Early, Marked
<1>4. Guarded(p)' BY GuardedStays DEF ChangeInv, Calm
<1> QED BY <1>1, <1>3, <1>4, LeavesChange DEF Leaves, Calm

\* What the assignments leave of what the candidate is known by.
LEMMA CandKept ==
    ASSUME NEW l \in LocType, NEW x, NEW y, NEW z
    PROVE  /\ [l EXCEPT !.bann = x].cand = l.cand /\ [l EXCEPT !.bann = x].bann = x
           /\ [l EXCEPT !.pre = x, !.committing = y, !.win = z].cand = l.cand
           /\ [l EXCEPT !.pre = x, !.committing = y, !.win = z].bann = l.bann
           /\ [l EXCEPT !.verified = x].verified = x
           /\ [l EXCEPT !.win = x, !.until = y].cand = l.cand
           /\ [l EXCEPT !.win = x, !.until = y].bann = l.bann
           /\ [l EXCEPT !.win = x, !.until = y].verified = l.verified
BY DEF LocType

LEMMA FoundChange ==
    ASSUME TypeInv, ChangeInv, NEW p \in Proc,
           TypeCommit(p) \/ Converged(p) \/ WindowCheck(p) \/ UndoCompare(p)
    PROVE  ChangeStep(p)
<1>1. Onward(p) /\ pc[p] \notin Looking BY FoundOnward
<1>2. Guarded(p)' BY <1>1, GuardedStays DEF ChangeInv, Onward
<1>3. CASE Calm(p) BY <1>1, <1>3, CalmChange
<1>4. CASE ~Calm(p)
  <2>1. Leaves(p) BY <1>1 DEF Onward, Leaves
  <2>2. loc[p] \in LocType /\ Noted(p) /\ Exact(p) BY Parts DEF ChangeInv
  <2>3. SUFFICES ASSUME TRUE
                 PROVE  \E to \in Where : Goto(p, to) /\ Noted(p)' /\ Exact(p)'
    BY <1>2, <2>1, LeavesChange
  <2>4. CASE TypeCommit(p)
    <3>1. /\ ~pend.on /\ pc[p] = "commit" /\ Goto(p, "landing") /\ UNCHANGED device
          /\ \E x, y, z : Set(p, [loc[p] EXCEPT !.pre = x, !.committing = y, !.win = z])
      BY <1>4, <2>4, ExitsCalm DEF TypeCommit, Quiet
    <3>2. loc'[p].cand = loc[p].cand /\ loc'[p].bann = loc[p].bann
      <4>1. PICK x, y, z : Set(p, [loc[p] EXCEPT !.pre = x, !.committing = y, !.win = z]) BY <3>1
      <4>2. loc'[p] = [loc[p] EXCEPT !.pre = x, !.committing = y, !.win = z] BY <4>1, SetIds
      <4> QED BY <2>2, <4>2, CandKept
    <3>3. pc'[p] = "landing" BY <3>1, Parts DEF Goto
    <3>4. Noted(p)' BY <2>2, <3>1, <3>2, <3>3 DEF Noted
    <3>5. Exact(p)' BY <2>2, <3>1, <3>2, <3>3 DEF Noted, Exact, device, Running, Top
    <3> QED BY <3>1, <3>4, <3>5 DEF Where
  <2>5. CASE Converged(p)
    <3>1. \/ Goto(p, "cancel")
          \/ /\ \E to \in {"byOther", "window"} : Goto(p, to)
             /\ Set(p, [loc[p] EXCEPT !.verified = TRUE])
      BY <2>5 DEF Converged
    <3>2. CASE Goto(p, "cancel")
      <4>1. pc'[p] = "cancel" BY <3>2, Parts DEF Goto
      <4> QED BY <3>2, <4>1 DEF Noted, Exact, Where
    <3>3. CASE /\ \E to \in {"byOther", "window"} : Goto(p, to)
               /\ Set(p, [loc[p] EXCEPT !.verified = TRUE])
      <4>1. pc'[p] \in {"byOther", "window"} BY <3>3, Parts DEF Goto
      <4>2. loc'[p].verified
        <5>1. loc'[p] = [loc[p] EXCEPT !.verified = TRUE] BY <3>3, SetIds
        <5> QED BY <2>2, <5>1 DEF LocType
      <4> QED BY <3>3, <4>1, <4>2 DEF Noted, Exact, Where
    <3> QED BY <3>1, <3>2, <3>3
  <2>6. CASE WindowCheck(p)
    <3>1. pc[p] = "window" /\ (\E to \in {"cancel", "confirm"} : Goto(p, to)) /\ UNCHANGED loc
      BY <1>4, <2>6, ExitsCalm DEF WindowCheck
    <3>2. pc'[p] \in {"cancel", "confirm"} BY <3>1, Parts DEF Goto
    <3>3. loc'[p].verified BY <2>2, <3>1 DEF Noted
    <3> QED BY <3>1, <3>2, <3>3 DEF Noted, Exact, Where
  <2>7. CASE UndoCompare(p)
    <3>1. \/ Goto(p, "name")
          \/ /\ Goto(p, "undoCommit") /\ ShowsChange(loc[p].cand, Running)
             /\ UNCHANGED <<loc, hist>>
      BY <2>7 DEF UndoCompare
    <3>2. CASE Goto(p, "name")
      <4>1. pc'[p] = "name" BY <3>2, Parts DEF Goto
      <4> QED BY <3>2, <4>1 DEF Noted, Exact, Where
    <3>3. CASE /\ Goto(p, "undoCommit") /\ ShowsChange(loc[p].cand, Running)
               /\ UNCHANGED <<loc, hist>>
      <4>1. pc'[p] = "undoCommit" BY <3>3, Parts DEF Goto
      <4>2. "c" \notin loc[p].cand /\ Alike(loc[p].cand, Running)
        BY <3>3 DEF ShowsChange, Alike
      <4> QED BY <3>3, <4>1, <4>2 DEF Noted, Exact, Where, Running, Top
    <3> QED BY <3>1, <3>2, <3>3
  <2> QED BY <2>4, <2>5, <2>6, <2>7
<1> QED BY <1>3, <1>4

\* The steps up to the check: the compare is what makes the candidate exact.
LEMMA EarlyChange ==
    ASSUME TypeInv, ChangeInv, NEW p \in Proc,
           TakeLock(p) \/ Preflight(p) \/ Read(p) \/ OpenLoad(p) \/ Compare(p) \/ CheckState(p)
    PROVE  ChangeStep(p)
<1>1. loc[p] \in LocType /\ Noted(p) /\ Exact(p) /\ Guarded(p) BY Parts DEF ChangeInv
<1>2. CASE TakeLock(p) \/ Preflight(p) \/ Read(p)
  <2>1. pc[p] \notin Looking BY <1>2 DEF TakeLock, Preflight, Read, Looking
  <2>2. CASE Calm(p) BY <2>1, <2>2, CalmChange
  <2>3. CASE ~Calm(p)
    <3>1. /\ \E to \in {"preflight", "read", "open"} : Goto(p, to)
          /\ (\E l : Set(p, l)) \/ UNCHANGED loc
          /\ UNCHANGED device
      BY <1>2, <2>3, ExitsCalm DEF TakeLock, Preflight, Read, Quiet
    <3>2. pc'[p] \in {"preflight", "read", "open"} BY <3>1, Parts DEF Goto
    <3>3. Noted(p)' /\ Exact(p)' BY <3>2 DEF Noted, Exact
    <3>4. Guarded(p)' BY <1>1, <2>1, <3>1, GuardedStays DEF device
    <3>5. Leaves(p) BY <3>1 DEF Leaves, device
    <3>6. {"preflight", "read", "open"} \subseteq Where BY DEF Where
    <3> QED BY <3>1, <3>3, <3>4, <3>5, <3>6, LeavesChange
  <2> QED BY <2>2, <2>3
<1>3. CASE OpenLoad(p)
  <2>1. CASE Stop(p, "failed")
    <3>1. pc[p] \notin Looking BY <1>3 DEF OpenLoad, Looking
    <3> QED BY <2>1, <3>1, ExitsCalm, CalmChange
  <2>2. CASE ~Stop(p, "failed")
    <3>1. Goto(p, "compare") /\ Leaves(p) BY <1>3, <2>2 DEF OpenLoad, Enter, Leaves
    <3>2. pc'[p] = "compare" BY <3>1, Parts DEF Goto
    <3>3. Noted(p)' /\ Exact(p)' /\ Guarded(p)' BY <3>2 DEF Noted, Exact, Guarded, Looking
    <3>4. "compare" \in Where BY DEF Where
    <3> QED BY <3>1, <3>3, <3>4, LeavesChange
  <2> QED BY <2>1, <2>2
<1>4. CASE Compare(p) \/ CheckState(p)
  <2>1. CASE \E e : Discard(p, e) BY <2>1, ExitsCalm, CalmChange
  <2>2. CASE ~\E e : Discard(p, e)
    <3>1. CASE Compare(p)
      <4>1. /\ Goto(p, "checkState") /\ Set(p, [loc[p] EXCEPT !.bann = pend.on])
            /\ ShowsChange(Running, loc[p].cand) /\ UNCHANGED device
        BY <2>2, <3>1 DEF Compare, Quiet
      <4>2. pc'[p] = "checkState" BY <4>1, Parts DEF Goto
      <4>3. loc'[p].bann = pend.on /\ loc'[p].cand = loc[p].cand
        <5>1. loc'[p] = [loc[p] EXCEPT !.bann = pend.on] BY <4>1, SetIds
        <5> QED BY <1>1, <5>1, CandKept
      <4>5. Exact(p)' BY <4>1, <4>2, <4>3 DEF Exact, device, Running, Top
      <4>6. Noted(p)' /\ Guarded(p)' BY <4>2 DEF Noted, Guarded, Looking
      <4>7. Leaves(p) /\ "checkState" \in Where BY <4>1 DEF Leaves, device, Where
      <4> QED BY <4>1, <4>5, <4>6, <4>7, LeavesChange
    <3>2. CASE CheckState(p)
      <4>1. pc[p] = "checkState" /\ Goto(p, "check") /\ ~pend.on /\ UNCHANGED device /\ UNCHANGED loc
        BY <2>2, <3>2 DEF CheckState, Quiet
      <4>2. pc'[p] = "check" BY <4>1, Parts DEF Goto
      <4>3. Exact(p)' BY <1>1, <4>1, <4>2 DEF Exact, device, Running, Top
      <4>4. Noted(p)' /\ Guarded(p)' BY <4>1, <4>2 DEF Noted, Guarded, device
      <4>5. Leaves(p) /\ "check" \in Where BY <4>1 DEF Leaves, device, Where
      <4> QED BY <4>1, <4>3, <4>4, <4>5, LeavesChange
    <3> QED BY <1>4, <3>1, <3>2
  <2> QED BY <2>1, <2>2
<1> QED BY <1>2, <1>3, <1>4

\* What the end of a window leaves of those that waited for it.
LEMMA FatesOver ==
    ASSUME NEW cfg, NEW c, ground' = Fates(cfg, c)
    PROVE  /\ \A q \in Proc : ground[q] # "pending" \/ ground'[q] # "pending"
           /\ \A q \in Proc : ground'[q] # "pending"
           /\ "c" \notin cfg => \A q \in Proc : ground[q] = "pending" => ground'[q] = "undone"
BY DEF Fates

LEMMA TopAfter ==
    ASSUME TypeInv, NEW e \in Entry, hist' = Append(hist, e) PROVE Running' = e.cfg
<1>1. hist \in Seq(Entry) /\ hist # <<>> BY Parts DEF DeviceOK
<1>2. hist'[Len(hist')] = e BY <1>1, AppendFacts
<1> QED BY <1>2 DEF Running, Top

\* The check and the three commits.
LEMMA CheckChange == ASSUME TypeInv, ChangeInv, NEW p \in Proc, Check(p) PROVE ChangeStep(p)
<1>1. CASE \E e : Discard(p, e) BY <1>1, ExitsCalm, CalmChange
<1>2. CASE ~\E e : Discard(p, e)
  <2>1. /\ pc[p] = "check" /\ excl = p /\ ~loc[p].bann /\ CommitCheck /\ UNCHANGED loc
        /\ \/ Goto(p, "commit") /\ excl' = excl
           \/ Goto(p, "unlock") /\ excl' \in {excl, NoOne}
    BY <1>2, DropCalm DEF Check, Finish
  <2>2. ~pend'.on /\ UNCHANGED hist /\ ground' = Fates(Running, NoOne)
    BY <2>1 DEF CommitCheck, NoPending
  <2>3. NoStray' /\ Guarded(p)' BY <2>2, FatesOver DEF NoStray, Guarded
  <2>4. ~pend.on /\ ShowsChange(Running, loc[p].cand) BY <2>1 DEF ChangeInv, Exact
  <2>5. \A q \in Proc : ground[q] # "pending" BY <2>4 DEF ChangeInv, NoStray
  <2>6. pc'[p] \in {"commit", "unlock"} BY <2>1, Parts DEF Goto
  <2>7. Noted(p)' BY <2>1, <2>6 DEF Noted
  <2>8. Exact(p)' BY <2>1, <2>2, <2>4, <2>6 DEF Exact, Running, Top
  <2>9. {"commit", "unlock"} \subseteq Where BY DEF Where
  <2>10. Permanent(p) BY <2>2, <2>4 DEF Permanent, Running, Top
  <2> QED BY <2>1, <2>2, <2>3, <2>5, <2>7, <2>8, <2>9, <2>10 DEF ChangeStep
<1> QED BY <1>1, <1>2

LEMMA LandChange == ASSUME TypeInv, ChangeInv, NEW p \in Proc, Land(p) PROVE ChangeStep(p)
<1>1. "answer" \in Where \ (Early \cup Marked) BY DEF Where, Early, Marked
<1>2. pc[p] = "landing" /\ Goto(p, "answer") /\ ((\E l : Set(p, l)) \/ UNCHANGED loc)
  BY DEF Land
<1>3. CASE UNCHANGED <<hist, pend, ground>> /\ excl' \in {excl, NoOne}
  <2>1. Calm(p) /\ pc[p] \notin Looking BY <1>1, <1>2, <1>3 DEF Calm, Looking
  <2> QED BY <2>1, CalmChange
<1>4. CASE ~(UNCHANGED <<hist, pend, ground>> /\ excl' \in {excl, NoOne})
  <2> DEFINE e == [by |-> p, kind |-> "commit", cfg |-> loc[p].cand]
  <2>1. excl = p /\ excl' \in {p, NoOne} /\ CommitUnderTimer(p, e)
    BY <1>4, DropCalm DEF Land
  <2>2. e \in Entry /\ e.cfg = loc[p].cand
    <3>1. loc[p].cand \in Config BY Parts, LocFacts
    <3> QED BY <3>1 DEF Entry
  <2>3. ~loc[p].bann /\ ~pend.on /\ Alike(loc[p].cand, Running)
    <3>1. ~loc[p].bann BY <1>2 DEF ChangeInv, Noted
    <3>2. ~pend.on /\ ShowsChange(Running, loc[p].cand) BY <1>2, <2>1, <3>1 DEF ChangeInv, Exact
    <3> QED BY <3>1, <3>2 DEF ShowsChange, Alike
  <2>4. \A q \in Proc : ground[q] # "pending" BY <2>3 DEF ChangeInv, NoStray
  <2> HIDE DEF e
  <2>5. Running' = loc[p].cand BY <2>1, <2>2, TopAfter DEF CommitUnderTimer
  <2>6. /\ pend'.on /\ pend'.before = Running
        /\ ground' = [ground EXCEPT ![p] = "pending"]
    BY <2>1, <2>3 DEF CommitUnderTimer
  <2>7. \A q \in Proc : ground'[q] = "pending" => q = p
    BY <2>4, <2>6, Parts DEF DeviceOK
  <2>8. pc'[p] = "answer" BY <1>2, Parts DEF Goto
  <2>9. Noted(p)' /\ Exact(p)' BY <2>8 DEF Noted, Exact
  <2>10. Alike(pend'.before, Running') BY <2>3, <2>5, <2>6 DEF Alike
  <2>11. NoStray' /\ Guarded(p)' BY <2>6, <2>7, <2>10 DEF NoStray, Guarded
  <2>12. Alike(Running', Running) BY <2>3, <2>5
  <2>13. \A q \in Proc \ {p} : loc'[q] = loc[q] BY <1>2, SetIds
  <2>14. \E to \in Where : Goto(p, to) BY <1>1, <1>2
  <2>15. Permanent(p) BY <2>6 DEF Permanent
  <2> QED BY <2>1, <2>9, <2>11, <2>12, <2>13, <2>14, <2>15 DEF ChangeStep
<1> QED BY <1>3, <1>4

LEMMA EndChange ==
    ASSUME TypeInv, ChangeInv, NEW p \in Proc, Confirm(p) \/ UndoCommit(p) PROVE ChangeStep(p)
<1>1. "name" \in Where \ (Early \cup Marked) BY DEF Where, Early, Marked
<1>2. Goto(p, "name") /\ UNCHANGED loc /\ pc[p] \notin Looking BY DEF Confirm, UndoCommit, Looking
<1>3. CASE DropHeld(p) /\ UNCHANGED <<hist, pend, ground>>
  <2>1. Calm(p) BY <1>1, <1>2, <1>3, DropCalm DEF Calm
  <2> QED BY <1>2, <2>1, CalmChange
<1>4. CASE ~(DropHeld(p) /\ UNCHANGED <<hist, pend, ground>>)
  <2>1. loc[p].cand \in Config /\ Running \in Config BY Parts, LocFacts
  <2>2. /\ excl = p /\ excl' = p
        /\ \E e \in Entry :
              /\ hist' = Append(hist, e) /\ pend' = NoPending /\ \E c : ground' = Fates(e.cfg, c)
              /\ Alike(e.cfg, Running)
              /\ "c" \notin e.cfg \/ (loc[p].verified /\ e.cfg = Running)
    <3>1. CASE Confirm(p)
      <4> DEFINE e == [by |-> p, kind |-> "confirm", cfg |-> Running]
      <4>1. e \in Entry /\ e.cfg = Running BY <2>1 DEF Entry
      <4>2. pc[p] = "confirm" /\ excl = p /\ excl' = p /\ Commit(e) BY <1>4, <3>1 DEF Confirm
      <4>3. loc[p].verified BY <4>2 DEF ChangeInv, Noted
      <4>4. Alike(Running, Running) BY DEF Alike
      <4> HIDE DEF e
      <4> QED BY <4>1, <4>2, <4>3, <4>4 DEF Commit
    <3>2. CASE UndoCommit(p)
      <4> DEFINE e == [by |-> p, kind |-> "cancel", cfg |-> loc[p].cand]
      <4>1. e \in Entry /\ e.cfg = loc[p].cand BY <2>1 DEF Entry
      <4>2. pc[p] = "undoCommit" /\ excl = p /\ excl' = p /\ Commit(e) BY <1>4, <3>2 DEF UndoCommit
      <4>3. "c" \notin loc[p].cand /\ Alike(loc[p].cand, Running)
        BY <4>2 DEF ChangeInv, Noted, Exact
      <4> HIDE DEF e
      <4> QED BY <4>1, <4>2, <4>3 DEF Commit
    <3> QED BY <3>1, <3>2
  <2>3. PICK e \in Entry :
              /\ hist' = Append(hist, e) /\ pend' = NoPending /\ \E c : ground' = Fates(e.cfg, c)
              /\ Alike(e.cfg, Running)
              /\ "c" \notin e.cfg \/ (loc[p].verified /\ e.cfg = Running)
    BY <2>2
  <2>4. Alike(Running', Running) BY <2>3, TopAfter
  <2>5. ~pend'.on BY <2>3 DEF NoPending
  <2>6. \A q \in Proc : ground'[q] # "pending" BY <2>3, FatesOver
  <2>7. NoStray' /\ Guarded(p)' BY <2>5, <2>6 DEF NoStray, Guarded
  <2>8. pc'[p] = "name" BY <1>2, Parts DEF Goto
  <2>9. Noted(p)' /\ Exact(p)' BY <2>8 DEF Noted, Exact
  <2>10. Permanent(p)
    <3>1. Running' = e.cfg BY <2>3, TopAfter
    <3>2. CASE "c" \notin e.cfg BY <3>1, <3>2 DEF Permanent
    <3>3. CASE "c" \in e.cfg /\ pend.on
      <4>1. loc[p].verified /\ e.cfg = Running BY <2>3, <3>3
      <4>2. Alike(pend.before, Running) BY <1>2, <2>2, <3>3 DEF ChangeInv, Guarded
      <4> QED BY <3>1, <3>3, <4>1, <4>2 DEF Permanent, Alike
    <3>4. CASE "c" \in e.cfg /\ ~pend.on BY <2>3, <3>4 DEF Permanent
    <3> QED BY <3>2, <3>3, <3>4
  <2>11. \E to \in Where : Goto(p, to) BY <1>1, <1>2
  <2> QED BY <1>2, <2>2, <2>4, <2>7, <2>9, <2>10, <2>11 DEF ChangeStep
<1> QED BY <1>3, <1>4

LEMMA StoppedChange ==
    ASSUME TypeInv, WinInv, ChangeInv, NEW p \in Proc, Panic(p) \/ Crash(p) PROVE ChangeStep(p)
<1>1. {"unlock", "dead"} \subseteq Where \ (Early \cup Marked) BY DEF Where, Early, Marked
<1>2. CASE Crash(p)
  <2>1. excl' \in {excl, NoOne} /\ excl' # p BY <1>2, DropCalm DEF Crash
  <2>2. Calm(p) BY <1>1, <1>2, <2>1 DEF Crash, Calm
  <2> QED BY <2>1, <2>2, CalmChange
<1>3. CASE Panic(p)
  <2>1. CASE Discard(p, "failed") BY <2>1, ExitsCalm, CalmChange
  <2>2. CASE ~Discard(p, "failed")
    <3>1. loc[p].committing /\ Calm(p) BY <1>1, <1>3, <2>2 DEF Panic, Finish, device, Calm
    <3>2. pc[p] \notin Looking BY <3>1 DEF WinInv, Early, Looking
    <3> QED BY <3>1, <3>2, CalmChange
  <2> QED BY <2>1, <2>2
<1> QED BY <1>2, <1>3

LEMMA ProcessChange ==
    ASSUME TypeInv, WinInv, ChangeInv, NEW p \in Proc, Begin(p) \/ Step(p) \/ Panic(p) \/ Crash(p)
    PROVE  ChangeStep(p)
<1>1. CASE Calm(p) /\ pc[p] \notin Looking BY <1>1, CalmChange
<1>2. CASE ~(Calm(p) /\ pc[p] \notin Looking)
  BY <1>2, MostCalm, FoundChange, EarlyChange, CheckChange, LandChange, EndChange, StoppedChange
     DEF Step
<1> QED BY <1>1, <1>2

\* The rest of the world: under a session it can end a window, not start one,
\* and changes what runs only by the timer.
LEMMA WorldChange ==
    ASSUME TypeInv, ChangeInv,
           \/ \E p \in Proc : Interrupt(p) \/ SessionLost(p)
           \/ Expire \/ StrangerCommit \/ StrangerConfirmed \/ StrangerCheck \/ Tick
           \/ UNCHANGED vars
    PROVE  ChangeInv' /\ UNCHANGED pc
<1>1. UNCHANGED pc
  BY DEF Interrupt, SessionLost, Expire, StrangerCommit, StrangerConfirmed, StrangerCheck, Stranger,
         Tick, vars
<1>2. \A p \in Proc : /\ loc'[p].cand = loc[p].cand /\ loc'[p].bann = loc[p].bann
                      /\ loc'[p].verified = loc[p].verified
  <2>1. CASE Tick
    <3>1. \A p \in Proc : loc[p] \in LocType BY Parts
    <3>2. TAKE p \in Proc
    <3>3. loc'[p] = [loc[p] EXCEPT !.win = Left(@), !.until = Left(@)] BY <2>1 DEF Tick
    <3>4. PICK x, y : loc'[p] = [loc[p] EXCEPT !.win = x, !.until = y] BY <3>3
    <3> QED BY <3>1, <3>4, CandKept
  <2>2. CASE ~Tick
    BY <2>2 DEF Interrupt, SessionLost, Expire, StrangerCommit, StrangerConfirmed, StrangerCheck,
           Stranger, vars
  <2> QED BY <2>1, <2>2
<1>3. \A p \in Proc : Noted(p)' BY <1>1, <1>2 DEF ChangeInv, Noted
<1>4. CASE /\ UNCHANGED <<hist, ground>> /\ excl' \in {excl, NoOne}
           /\ pend'.on = pend.on /\ pend'.before = pend.before
  <2>1. \A p \in Proc : Exact(p)' /\ Guarded(p)'
    BY <1>1, <1>2, <1>4, ProcAssumption DEF ChangeInv, Exact, Guarded, Running, Top
  <2>2. NoStray' BY <1>4 DEF ChangeInv, NoStray
  <2> QED BY <1>1, <1>3, <2>1, <2>2 DEF ChangeInv
<1>5. CASE Tick
  <2>1. pend \in PendType BY Parts DEF DeviceOK
  <2>2. pend'.on = pend.on /\ pend'.before = pend.before BY <1>5, <2>1 DEF Tick, PendType
  <2> QED BY <1>4, <1>5, <2>2 DEF Tick
<1>6. CASE (\E p \in Proc : Interrupt(p) \/ SessionLost(p)) \/ UNCHANGED vars
  BY <1>4, <1>6 DEF Interrupt, SessionLost, device, vars
<1>7. CASE StrangerCommit \/ StrangerConfirmed
  <2>1. excl' = NoOne BY <1>7 DEF StrangerCommit, StrangerConfirmed, Stranger
  <2>2. \A p \in Proc : Exact(p)' /\ Guarded(p)' BY <2>1, ProcAssumption DEF Exact, Guarded
  <2>3. NoStray'
    <3>1. CASE StrangerCommit
      <4>1. \E cfg, c : ground' = Fates(cfg, c) BY <3>1 DEF StrangerCommit, Commit
      <4> QED BY <4>1, FatesOver DEF NoStray
    <3>2. CASE StrangerConfirmed
      <4>1. pend'.on BY <3>2 DEF StrangerConfirmed, CommitUnderTimer
      <4> QED BY <4>1 DEF NoStray
    <3> QED BY <1>7, <3>1, <3>2
  <2> QED BY <1>1, <1>3, <2>2, <2>3 DEF ChangeInv
<1>8. CASE StrangerCheck
  <2>1. excl' = excl /\ UNCHANGED hist /\ ~pend'.on /\ ground' = Fates(Running, NoOne)
    BY <1>8 DEF StrangerCheck, Stranger, CommitCheck, NoPending
  <2>2. NoStray' BY <2>1, FatesOver DEF NoStray
  <2>3. \A p \in Proc : Exact(p)' /\ Guarded(p)'
    BY <1>1, <1>2, <2>1 DEF ChangeInv, Exact, Guarded, Running, Top
  <2> QED BY <1>1, <1>3, <2>2, <2>3 DEF ChangeInv
<1>9. CASE Expire
  <2> DEFINE e == [by |-> NoOne, kind |-> "root", cfg |-> pend.before]
  <2>1. e \in Entry /\ e.cfg = pend.before
    <3>1. pend.before \in Config BY Parts DEF DeviceOK, PendType
    <3> QED BY <3>1 DEF Entry
  <2>2. pend.on /\ excl' = excl /\ Commit(e) BY <1>9 DEF Expire
  <2> HIDE DEF e
  <2>3. /\ ~pend'.on /\ \E c : ground' = Fates(e.cfg, c) BY <2>2 DEF Commit, NoPending
  <2>4. Running' = pend.before BY <2>1, <2>2, TopAfter DEF Commit
  <2>5. NoStray' BY <2>3, FatesOver DEF NoStray
  <2>6. ASSUME NEW p \in Proc PROVE Exact(p)' /\ Guarded(p)'
    <3>1. Guarded(p)' BY <2>3 DEF Guarded
    <3>2. Exact(p) /\ Guarded(p) BY DEF ChangeInv
    <3>3. CASE excl = p /\ pc[p] = "undoCommit"
      <4>1. Alike(loc[p].cand, Running) /\ Alike(pend.before, Running)
        BY <2>2, <3>2, <3>3 DEF Exact, Guarded, Looking
      <4>2. Alike(loc[p].cand, Running') BY <2>4, <4>1 DEF Alike
      <4> QED BY <1>1, <1>2, <2>3, <3>1, <3>3, <4>2 DEF Exact
    <3>4. CASE ~(excl = p /\ pc[p] = "undoCommit")
      BY <1>1, <1>2, <2>2, <3>1, <3>2, <3>4 DEF Exact
    <3> QED BY <3>3, <3>4
  <2> QED BY <1>1, <1>3, <2>5, <2>6 DEF ChangeInv
<1> QED BY <1>5, <1>6, <1>7, <1>8, <1>9

LEMMA NextChange ==
    ASSUME TypeInv, WinInv, ChangeInv, [Next]_vars
    PROVE  /\ ChangeInv'
           /\ \A p \in Proc :
                 pc'[p] # pc[p] /\ hist' # hist => hist'[Top'].cfg \ {"c"} = Running \ {"c"}
           /\ \A p \in Proc : pc'[p] # pc[p] => Permanent(p)
<1>1. ASSUME NEW p \in Proc, Begin(p) \/ Step(p) \/ Panic(p) \/ Crash(p)
      PROVE  /\ ChangeInv'
             /\ hist' # hist => Alike(Running', Running)
             /\ \A q \in Proc : pc'[q] # pc[q] => q = p
             /\ Permanent(p)
  <2>1. ChangeStep(p) BY <1>1, ProcessChange
  <2>2. \A q \in Proc : pc'[q] # pc[q] => q = p BY <2>1, Parts DEF ChangeStep, Goto
  <2>3. ChangeInv' BY <2>1, ChangeStepKeeps
  <2> QED BY <2>1, <2>2, <2>3 DEF ChangeStep
<1>2. CASE \E p \in Proc : Begin(p) \/ Step(p) \/ Panic(p) \/ Crash(p)
  BY <1>1, <1>2 DEF Alike, Running
<1>3. CASE \/ \E p \in Proc : Interrupt(p) \/ SessionLost(p)
           \/ Expire \/ StrangerCommit \/ StrangerConfirmed \/ StrangerCheck \/ Tick
           \/ UNCHANGED vars
  BY <1>3, WorldChange
<1> QED BY <1>2, <1>3 DEF Next, Fault

LEMMA Changed == Spec => [](TypeInv /\ WinInv /\ ChangeInv)
<1>1. Init => WinInv /\ ChangeInv
  <2> SUFFICES ASSUME Init PROVE WinInv /\ ChangeInv OBVIOUS
  <2>1. \A p \in Proc : pc[p] = "idle" /\ ground[p] = "none" BY DEF Init
  <2>2. excl = NoOne /\ "idle" \notin Early BY DEF Init, Early
  <2>3. WinInv BY <2>1, <2>2, ProcAssumption DEF WinInv
  <2>4. ChangeInv
    BY <2>1, <2>2, ProcAssumption DEF ChangeInv, NoStray, Noted, Exact, Guarded
  <2> QED BY <2>3, <2>4
<1>2. TypeInv /\ WinInv /\ ChangeInv /\ [Next]_vars => WinInv' /\ ChangeInv'
  BY NextWin, NextChange
<1> QED BY <1>1, <1>2, Typed, PTL DEF Spec

\* Whatever tacctl commits, the confirmed commit, the confirm and the cancel,
\* leaves the rest of the device's configuration as it ran right before: other
\* people's commits and the device's own rollbacks since the candidate was
\* loaded included (driver.go, run, confirm and cancel; undo).
THEOREM OnlyTheChangeIsCommitted == Spec => OnlyTheReviewedChange
<1>1. TypeInv /\ WinInv /\ ChangeInv /\ [Next]_vars =>
          [\A p \in Proc :
              pc'[p] # pc[p] /\ hist' # hist => hist'[Top'].cfg \ {"c"} = Running \ {"c"}]_vars
  BY NextChange
<1> QED BY <1>1, Changed, PTL DEF Spec, OnlyTheReviewedChange

\* What tacctl makes permanent is what stood before its window and the reviewed
\* change, by a command that has verified it on the fresh login: no cancel typed
\* as the window ends brings an undone change back, and no check, and no confirm
\* without the proof, keeps one.
THEOREM OnlyProvenIsPermanent == Spec => PermanentOnlyProven
<1>1. TypeInv /\ WinInv /\ ChangeInv /\ [Next]_vars =>
          [\A p \in Proc :
              pc'[p] # pc[p] /\ ("c" \in Running /\ ~pend.on)' /\ ("c" \notin Running \/ pend.on) =>
                 pend.on /\ loc[p].verified /\ Running' = pend.before \cup {"c"}]_vars
  BY NextChange DEF Permanent
<1> QED BY <1>1, Changed, PTL DEF Spec, PermanentOnlyProven

----------------------------------------------------------------------------
(* What the history says.  A process commits once, over a configuration     *)
(* without the change; the commit directly after it tells a confirm from a   *)
(* cancel of its own; and while its fate is open only other people's         *)
(* confirmed commits can stand over it.                                      *)

Ours(q, i) == hist[i].kind = "commit" /\ hist[i].by = q
Acts(q, i) == hist[i].kind \in {"confirm", "cancel"} /\ hist[i].by = q

\* What the history holds of process q, and the fate that goes with it.
Ledger(q) ==
    /\ \A i \in 1..Top : Ours(q, i) => i >= 2 /\ "c" \in hist[i].cfg /\ "c" \notin hist[i - 1].cfg
    /\ \A i, j \in 1..Top : Ours(q, i) /\ Ours(q, j) => i = j
    /\ ground[q] = "none" <=> \A i \in 1..Top : ~Ours(q, i)
    /\ \A i \in 1..Top : Ours(q, i) =>
          /\ i = Top => ground[q] \in {"pending", "kept"}
          /\ i < Top /\ hist[i + 1].by = q /\ hist[i + 1].kind = "confirm" => ground[q] = "kept"
          /\ i < Top /\ hist[i + 1].by = q /\ hist[i + 1].kind = "cancel" => ground[q] = "undone"
          /\ ground[q] = "pending" =>
                \A j \in (i + 1)..Top : hist[j].kind = "plain" /\ "confirmed" \in StrangerOps

LedgerInv == \A q \in Proc : Ledger(q)

\* The history with one more commit.
Longer(e) ==
    /\ Top \in Nat \ {0} /\ Top' = Top + 1 /\ hist'[Top + 1] = e
    /\ \A i \in 1..Top : hist'[i] = hist[i]

LEMMA Appended == ASSUME TypeInv, NEW e \in Entry, hist' = Append(hist, e) PROVE Longer(e)
<1>1. hist \in Seq(Entry) /\ hist # <<>> /\ Top \in Nat \ {0} BY Parts DEF DeviceOK
<1>2. Len(hist) \in Nat BY <1>1
<1> QED BY <1>1, <1>2 DEF Top, Longer

LEMMA LongerFacts ==
    ASSUME NEW e, Longer(e)
    PROVE  /\ Top \in Nat \ {0} /\ Top' = Top + 1 /\ hist'[Top + 1] = e
           /\ \A i \in 1..Top : hist'[i] = hist[i] /\ i \in 1..Top'
           /\ \A i \in 1..Top' : i \in 1..Top \/ i = Top + 1
           /\ Top \in 1..Top /\ Top + 1 \in 1..Top' /\ (Top + 1) - 1 = Top
           /\ \A i \in 1..Top : (i < Top /\ i + 1 \in 1..Top) \/ i = Top
BY DEF Longer

\* A commit that is not q's.
LEMMA OthersCommit ==
    ASSUME TypeInv, NEW e \in Entry, Longer(e), NEW q \in Proc, Ledger(q), e.by # q,
           \/ ground'[q] = ground[q]
           \/ ground[q] = "pending" /\ ground'[q] \in {"kept", "undone"},
           ground'[q] = "pending" => e.kind = "plain" /\ "confirmed" \in StrangerOps
    PROVE  Ledger(q)'
<1>1. Top \in Nat \ {0} /\ Top' = Top + 1 /\ hist'[Top + 1] = e /\ \A i \in 1..Top : hist'[i] = hist[i]
  BY LongerFacts
<1>2. ASSUME NEW i \in 1..Top', Ours(q, i)' PROVE i \in 1..Top /\ Ours(q, i)
  <2>1. CASE i = Top + 1 BY <1>1, <1>2, <2>1 DEF Ours
  <2>2. CASE i \in 1..Top BY <1>1, <1>2, <2>2 DEF Ours
  <2> QED BY <2>1, <2>2, LongerFacts
<1>3. \A i \in 1..Top : Ours(q, i) => Ours(q, i)' BY <1>1 DEF Ours
<1>4. \A i \in 1..Top' : Ours(q, i)' => i >= 2 /\ "c" \in hist'[i].cfg /\ "c" \notin hist'[i - 1].cfg
  <2> SUFFICES ASSUME NEW i \in 1..Top, Ours(q, i)
               PROVE  i >= 2 /\ "c" \in hist'[i].cfg /\ "c" \notin hist'[i - 1].cfg
    BY <1>2
  <2>1. i >= 2 /\ "c" \in hist[i].cfg /\ "c" \notin hist[i - 1].cfg BY DEF Ledger
  <2>2. i - 1 \in 1..Top BY <1>1, <2>1
  <2> QED BY <1>1, <2>1, <2>2
<1>5. \A i, j \in 1..Top' : Ours(q, i)' /\ Ours(q, j)' => i = j BY <1>2 DEF Ledger
<1>6. ground'[q] = "none" <=> \A i \in 1..Top' : ~Ours(q, i)'
  <2>1. ground'[q] = "none" <=> ground[q] = "none" OBVIOUS
  <2>2. (\A i \in 1..Top' : ~Ours(q, i)') <=> (\A i \in 1..Top : ~Ours(q, i)) BY <1>1, <1>2, <1>3
  <2>3. ground[q] = "none" <=> \A i \in 1..Top : ~Ours(q, i) BY DEF Ledger
  <2> QED BY <2>1, <2>2, <2>3
<1>7. ASSUME NEW i \in 1..Top', Ours(q, i)'
      PROVE  /\ i # Top'
             /\ i < Top' /\ hist'[i + 1].by = q /\ hist'[i + 1].kind = "confirm" => ground'[q] = "kept"
             /\ i < Top' /\ hist'[i + 1].by = q /\ hist'[i + 1].kind = "cancel" => ground'[q] = "undone"
             /\ ground'[q] = "pending" =>
                   \A j \in (i + 1)..Top' : hist'[j].kind = "plain" /\ "confirmed" \in StrangerOps
  <2>1. i \in 1..Top /\ Ours(q, i) BY <1>2, <1>7
  <2>2. hist'[i + 1].by = q => i < Top /\ hist'[i + 1] = hist[i + 1]
    <3>1. i = Top => hist'[i + 1] = e BY <1>1
    <3> QED BY <1>1, <2>1, <3>1, LongerFacts
  <2>3. /\ i < Top /\ hist[i + 1].by = q /\ hist[i + 1].kind = "confirm" => ground[q] = "kept"
        /\ i < Top /\ hist[i + 1].by = q /\ hist[i + 1].kind = "cancel" => ground[q] = "undone"
        /\ ground[q] = "pending" =>
              \A j \in (i + 1)..Top : hist[j].kind = "plain" /\ "confirmed" \in StrangerOps
    BY <2>1 DEF Ledger
  <2>4. ASSUME ground'[q] = "pending", NEW j \in (i + 1)..Top'
        PROVE  hist'[j].kind = "plain" /\ "confirmed" \in StrangerOps
    <3>1. ground[q] = "pending" BY <2>4
    <3>2. CASE j = Top + 1 BY <1>1, <2>4, <3>2
    <3>3. CASE j # Top + 1
      <4>1. j \in (i + 1)..Top /\ j \in 1..Top BY <1>1, <2>1, <3>3
      <4> QED BY <1>1, <2>3, <3>1, <4>1
    <3> QED BY <3>2, <3>3
  <2>5. i # Top' BY <1>1, <2>1
  <2> QED BY <2>2, <2>3, <2>4, <2>5
<1> QED BY <1>4, <1>5, <1>6, <1>7 DEF Ledger

\* The fates a commit decides, for those it is not the cancel of.
LEMMA FateOf ==
    ASSUME NEW cfg, NEW c, ground' = Fates(cfg, c), NEW q \in Proc
    PROVE  /\ ground[q] # "pending" /\ q # c => ground'[q] = ground[q]
           /\ ground[q] = "pending" => ground'[q] = IF "c" \in cfg THEN "kept" ELSE "undone"
           /\ q = c => ground'[q] = IF "c" \in cfg THEN "kept" ELSE "undone"
           /\ ground'[q] # "pending"
BY DEF Fates

\* A check: what waits is decided by what runs.
LEMMA CheckLedger ==
    ASSUME TypeInv, NEW q \in Proc, Ledger(q), CommitCheck PROVE Ledger(q)'
<1>1. hist' = hist /\ ground' = Fates(Running, NoOne) /\ q # NoOne
  BY ProcAssumption DEF CommitCheck
<1>2. /\ ground[q] # "pending" => ground'[q] = ground[q]
      /\ ground[q] = "pending" => ground'[q] = IF "c" \in Running THEN "kept" ELSE "undone"
      /\ ground'[q] # "pending"
  BY <1>1, FateOf
<1>3. Top' = Top /\ \A i \in 1..Top : Ours(q, i)' <=> Ours(q, i) BY <1>1 DEF Top, Ours
<1>4. ground'[q] = "none" <=> ground[q] = "none" BY <1>2
<1>5. ASSUME NEW i \in 1..Top, Ours(q, i), i = Top PROVE ground'[q] = "kept"
  <2>1. ground[q] \in {"pending", "kept"} /\ "c" \in Running BY <1>5 DEF Ledger, Running
  <2> QED BY <1>2, <2>1
<1>6. ground[q] # "none" /\ ground[q] # "pending" => ground'[q] = ground[q] BY <1>2
<1> QED
  <2>1. \A i \in 1..Top : Ours(q, i) =>
          /\ i = Top => ground'[q] \in {"pending", "kept"}
          /\ i < Top /\ hist[i + 1].by = q /\ hist[i + 1].kind = "confirm" => ground'[q] = "kept"
          /\ i < Top /\ hist[i + 1].by = q /\ hist[i + 1].kind = "cancel" => ground'[q] = "undone"
    BY <1>2, <1>5, <1>6 DEF Ledger
  <2> QED BY <1>1, <1>2, <1>3, <1>4, <2>1 DEF Ledger

\* Process p's own confirmed commit: its first, over a device without the change.
LEMMA LandLedger ==
    ASSUME TypeInv, LedgerInv, NEW p \in Proc, NEW e \in Entry, Longer(e),
           e.kind = "commit", e.by = p, "c" \in e.cfg, "c" \notin Running,
           ground[p] = "none", ground' = [ground EXCEPT ![p] = "pending"],
           \A q \in Proc : ground[q] # "pending"
    PROVE  LedgerInv'
<1>1. Top \in Nat \ {0} /\ Top' = Top + 1 /\ hist'[Top + 1] = e /\ \A i \in 1..Top : hist'[i] = hist[i]
  BY LongerFacts
<1>2. ground'[p] = "pending" /\ \A q \in Proc \ {p} : ground'[q] = ground[q]
  BY Parts DEF DeviceOK
<1>3. ASSUME NEW q \in Proc \ {p} PROVE Ledger(q)'
  BY <1>2, OthersCommit DEF LedgerInv
<1>4. Ledger(p)'
  <2>1. \A i \in 1..Top : ~Ours(p, i) BY DEF LedgerInv, Ledger
  <2>2. ASSUME NEW i \in 1..Top', Ours(p, i)' PROVE i = Top + 1
    <3>1. CASE i \in 1..Top BY <1>1, <2>1, <2>2, <3>1 DEF Ours
    <3> QED BY <3>1, LongerFacts
  <2>3. \E k \in 1..Top' : Ours(p, k)'
    <3>1. PICK k : k = Top + 1 OBVIOUS
    <3>2. k \in 1..Top' /\ hist'[k] = e BY <1>1, <3>1, LongerFacts
    <3> QED BY <3>2 DEF Ours
  <2>4. hist'[(Top + 1) - 1] = hist[Top] BY <1>1, LongerFacts
  <2>5. "c" \notin hist'[(Top + 1) - 1].cfg BY <2>4 DEF Running
  <2>6. ASSUME NEW i \in 1..Top', Ours(p, i)'
        PROVE  i >= 2 /\ "c" \in hist'[i].cfg /\ "c" \notin hist'[i - 1].cfg
    <3>1. i = Top + 1 BY <2>2, <2>6
    <3>2. i >= 2 BY <1>1, <3>1
    <3> QED BY <1>1, <2>5, <3>1, <3>2
  <2>7. \A i \in 1..Top' : Ours(p, i)' =>
          i = Top' /\ \A j \in (i + 1)..Top' : hist'[j].kind = "plain" /\ "confirmed" \in StrangerOps
    BY <1>1, <2>2
  <2>8. \A i, j \in 1..Top' : Ours(p, i)' /\ Ours(p, j)' => i = j BY <2>2
  <2>9. ground'[p] = "none" <=> \A i \in 1..Top' : ~Ours(p, i)' BY <1>2, <2>3
  <2>10. \A i \in 1..Top' : i = Top' => ~(i < Top') BY <1>1
  <2> QED BY <1>2, <2>6, <2>7, <2>8, <2>9, <2>10 DEF Ledger
<1> QED BY <1>3, <1>4 DEF LedgerInv

\* Process p's own confirm or cancel, its first.
LEMMA EndLedger ==
    ASSUME TypeInv, LedgerInv, NEW p \in Proc, NEW e \in Entry, Longer(e), e.by = p,
           \/ e.kind = "confirm" /\ e.cfg = Running /\ ground' = Fates(e.cfg, NoOne)
           \/ e.kind = "cancel" /\ "c" \notin e.cfg /\ ground' = Fates(e.cfg, p),
           ground[p] # "none", \A i \in 1..Top : ~Acts(p, i),
           \A q \in Proc : ground[q] = "pending" => q = p
    PROVE  LedgerInv'
<1>1. Top \in Nat \ {0} /\ Top' = Top + 1 /\ hist'[Top + 1] = e /\ \A i \in 1..Top : hist'[i] = hist[i]
  BY LongerFacts
<1>2. NoOne \notin Proc BY ProcAssumption
<1>3. ASSUME NEW q \in Proc \ {p} PROVE Ledger(q)'
  <2>1. ground[q] # "pending" OBVIOUS
  <2>2. ground'[q] = ground[q] BY <1>2, <2>1, FateOf
  <2> QED BY <2>1, <2>2, OthersCommit DEF LedgerInv
<1>4. Ledger(p)'
  <2>0. Ledger(p) BY DEF LedgerInv
  <2>1. ASSUME NEW i \in 1..Top', Ours(p, i)' PROVE i \in 1..Top /\ Ours(p, i)
    <3>1. CASE i = Top + 1
      <4>1. e.kind # "commit" OBVIOUS
      <4> QED BY <1>1, <2>1, <3>1, <4>1 DEF Ours
    <3>2. CASE i \in 1..Top BY <1>1, <2>1, <3>2 DEF Ours
    <3> QED BY <3>1, <3>2, LongerFacts
  <2>2. \A i \in 1..Top : Ours(p, i) => Ours(p, i)' BY <1>1 DEF Ours
  <2>3. \A i \in 1..Top' : Ours(p, i)' => i >= 2 /\ "c" \in hist'[i].cfg /\ "c" \notin hist'[i - 1].cfg
    <3> SUFFICES ASSUME NEW i \in 1..Top, Ours(p, i)
                 PROVE  i >= 2 /\ "c" \in hist'[i].cfg /\ "c" \notin hist'[i - 1].cfg
      BY <2>1
    <3>1. i >= 2 /\ "c" \in hist[i].cfg /\ "c" \notin hist[i - 1].cfg BY <2>0 DEF Ledger
    <3>2. i - 1 \in 1..Top BY <1>1, <3>1
    <3> QED BY <1>1, <3>1, <3>2
  <2>4. \A i, j \in 1..Top' : Ours(p, i)' /\ Ours(p, j)' => i = j BY <2>0, <2>1 DEF Ledger
  <2>5. ground'[p] \in {"kept", "undone"}
    <3>1. ground[p] \in Fate4 BY Parts DEF DeviceOK
    <3>2. CASE e.kind = "cancel" /\ "c" \notin e.cfg /\ ground' = Fates(e.cfg, p) BY <3>2, FateOf
    <3>3. CASE ground' = Fates(e.cfg, NoOne) BY <1>2, <3>1, <3>3, FateOf DEF Fate4
    <3> QED BY <3>2, <3>3
  <2>6. ground'[p] = "none" <=> \A i \in 1..Top' : ~Ours(p, i)'
    <3>1. \E i \in 1..Top : Ours(p, i) BY <2>0 DEF Ledger
    <3> QED BY <1>1, <2>2, <2>5, <3>1
  <2>7. ASSUME NEW i \in 1..Top', Ours(p, i)'
        PROVE  /\ i # Top' /\ hist'[i + 1].by = p
               => /\ hist'[i + 1].kind = "confirm" => ground'[p] = "kept"
                  /\ hist'[i + 1].kind = "cancel" => ground'[p] = "undone"
    <3>1. i \in 1..Top /\ Ours(p, i) BY <2>1, <2>7
    <3>2. CASE i < Top
      <4>1. i + 1 \in 1..Top /\ ~Acts(p, i + 1) BY <1>1, <3>1, <3>2
      <4> QED BY <1>1, <4>1 DEF Acts
    <3>3. CASE i = Top
      <4>1. hist'[i + 1] = e BY <1>1, <3>3
      <4>2. "c" \in Running /\ ground[p] \in {"pending", "kept"}
        BY <2>0, <3>1, <3>3 DEF Ledger, Running
      <4>3. CASE e.kind = "confirm"
        <5>1. ground' = Fates(Running, NoOne) BY <4>3
        <5>2. ground'[p] = "kept" BY <1>2, <4>2, <5>1, FateOf
        <5> QED BY <4>1, <4>3, <5>2
      <4>4. CASE e.kind = "cancel"
        <5>1. "c" \notin e.cfg /\ ground' = Fates(e.cfg, p) BY <4>4
        <5>2. ground'[p] = "undone" BY <5>1, FateOf
        <5> QED BY <4>1, <4>4, <5>2
      <4> QED BY <4>3, <4>4
    <3>4. i < Top \/ i = Top BY <1>1, <3>1
    <3> QED BY <3>2, <3>3, <3>4
  <2>8. \A i \in 1..Top' : Ours(p, i)' => i # Top' BY <1>1, <2>1
  <2> QED BY <2>3, <2>4, <2>5, <2>6, <2>7, <2>8 DEF Ledger
<1> QED BY <1>3, <1>4 DEF LedgerInv

----------------------------------------------------------------------------
(* What settle says.  A fate that the history tells is the fate, and where   *)
(* settle goes on to compare rollbacks the fate is decided already.           *)

\* A fresh login that prints no banner over a window would also hide another
\* person's confirmed commit over tacctl's.
Told == Silent => "confirmed" \notin StrangerOps

\* The end of a window as a process or the record has it, not before the real one.
Covers(u) == u = ZeroTime \/ "confirmed" \in StrangerOps \/ pend.left + SettleSlack <= u

LEMMA OursAtIs ==
    ASSUME TypeInv, NEW q \in Proc, Ledger(q), NEW n \in 1..Top
    PROVE  /\ OursAt(q, n) \in 0..n
           /\ OursAt(q, n) # 0 =>
                 Ours(q, OursAt(q, n)) /\ OursAt(q, n) \in 1..n /\ OursAt(q, n) > n - HistKeep
           /\ \A i \in 1..n : i > n - HistKeep /\ Ours(q, i) => OursAt(q, n) = i
<1> DEFINE S == {i \in 1..n : i > n - HistKeep /\ hist[i].kind = "commit" /\ hist[i].by = q}
<1>1. Top \in Nat \ {0} BY Parts
<1>2. \A i, j \in S : i = j
  <2>1. \A i \in S : i \in 1..Top /\ Ours(q, i) BY <1>1 DEF Ours
  <2> QED BY <2>1 DEF Ledger
<1>3. OursAt(q, n) = IF S = {} THEN 0 ELSE CHOOSE i \in S : \A j \in S : j <= i BY DEF OursAt
<1>4. CASE S = {}
  <2>1. OursAt(q, n) = 0 BY <1>3, <1>4
  <2>2. \A i \in 1..n : ~(i > n - HistKeep /\ Ours(q, i)) BY <1>4 DEF Ours
  <2> QED BY <1>1, <2>1, <2>2
<1>5. CASE S # {}
  <2>1. PICK k : k \in S BY <1>5
  <2>2. k \in 1..n /\ k > n - HistKeep /\ Ours(q, k) BY <2>1 DEF Ours
  <2>3. \A j \in S : j = k BY <1>2, <2>1
  <2>4. \E i \in S : \A j \in S : j <= i
    <3>1. k <= k BY <2>2
    <3> QED BY <2>1, <2>3, <3>1
  <2>5. (CHOOSE i \in S : \A j \in S : j <= i) \in S BY <2>4
  <2>6. OursAt(q, n) = k BY <1>3, <1>5, <2>3, <2>5
  <2>7. \A i \in 1..n : i > n - HistKeep /\ Ours(q, i) => i \in S BY DEF Ours
  <2> HIDE DEF S
  <2> QED BY <1>1, <2>2, <2>3, <2>6, <2>7
<1> QED BY <1>4, <1>5

\* The commit after ours tells the truth when it tells anything.
LEMMA FateTells ==
    ASSUME TypeInv, NEW q \in Proc, Ledger(q), NEW i \in 1..Top, i < Top, Ours(q, i)
    PROVE  /\ Fate(i, q).e = "applied" => ground[q] = "kept"
           /\ Fate(i, q).e = "rolled-back" => ground[q] = "undone"
           /\ Fate(i, q).e \in {"applied", "rolled-back", "unknown"}
           /\ Fate(i, q).facts => Fate(i, q).e = "unknown"
           /\ [Fate(i, q) EXCEPT !.over = TRUE].e = Fate(i, q).e
           /\ [Fate(i, q) EXCEPT !.over = TRUE].facts = Fate(i, q).facts
<1>1. /\ hist[i + 1].by = q /\ hist[i + 1].kind = "confirm" => ground[q] = "kept"
      /\ hist[i + 1].by = q /\ hist[i + 1].kind = "cancel" => ground[q] = "undone"
  BY DEF Ledger
<1> QED BY <1>1 DEF Fate, Verdict

\* A window's banner that is not there means no window, for what settle reads.
LEMMA OpenMeans ==
    ASSUME TypeInv, NoStray, Told, NEW q \in Proc, Ledger(q), NEW b \in FreshBanner,
           ground[q] = "pending"
    PROVE  /\ pend.on /\ pend.left >= -ExpiryLag
           /\ b \/ "confirmed" \notin StrangerOps
<1>1. pend.on BY DEF NoStray
<1>2. pend.left \in -ExpiryLag..Window BY <1>1, Parts DEF DeviceOK
<1>3. b = TRUE \/ Silent BY <1>1 DEF FreshBanner
<1> QED BY <1>1, <1>2, <1>3, TimeFacts DEF Told

LEMMA SettleTells ==
    ASSUME TypeInv, NoStray, Told, NEW q \in Proc, Ledger(q), NEW b \in FreshBanner,
           NEW pre \in Nat, NEW until \in Int,
           ground[q] = "pending" => Covers(until),
           pre # 0 => \A i \in 1..Top : Ours(q, i) => pre < i
    PROVE  LET v == Settle(q, Top, b, pre, until)
           IN  /\ ~v.facts => TrueOf(q, v.e)
               /\ v.facts => ground[q] \notin {"none", "pending"}
<1> DEFINE i == OursAt(q, Top)
           f == Fate(i, q)
           v == Settle(q, Top, b, pre, until)
           Good(w) == /\ ~w.facts => TrueOf(q, w.e)
                      /\ w.facts => ground[q] \notin {"none", "pending"}
<1>0. Top \in Nat \ {0} /\ Top \in 1..Top BY Parts
<1>1. /\ i \in 0..Top
      /\ i # 0 => Ours(q, i) /\ i \in 1..Top
  BY <1>0, OursAtIs
<1>2. v = IF b
          THEN CASE i = Top -> Verdict("pending", FALSE, FALSE)
                 [] i \in {0, Top - 1} -> Verdict("unknown", FALSE, FALSE)
                 [] i \notin {0, Top - 1, Top} /\ f.e = "unknown" /\ hist[i + 1].kind # "root" ->
                       Verdict("unknown", FALSE, FALSE)
                 [] OTHER -> [f EXCEPT !.over = TRUE]
          ELSE CASE i = 0 /\ pre = Top -> Verdict("nothing-committed", FALSE, FALSE)
                 [] i = 0 /\ pre # Top -> Verdict("unknown", FALSE, FALSE)
                 [] i = Top /\ until = ZeroTime -> Verdict("unknown", FALSE, FALSE)
                 [] i = Top /\ until > 0 -> Verdict("pending", FALSE, FALSE)
                 [] i = Top /\ until # ZeroTime /\ until <= 0 -> Verdict("applied-by-other", TRUE, FALSE)
                 [] OTHER -> f
  BY DEF Settle
<1>3. /\ Good(Verdict("unknown", FALSE, FALSE)) /\ Good(Verdict("pending", FALSE, FALSE))
      /\ ground[q] = "none" => Good(Verdict("nothing-committed", FALSE, FALSE))
      /\ ground[q] \notin {"none", "pending"} => Good(Verdict("applied-by-other", TRUE, FALSE))
  BY DEF Verdict, TrueOf
<1>4. i # 0 => ground[q] # "none" BY <1>1 DEF Ledger
<1>5. i # 0 /\ i # Top =>
         /\ f.e = "applied" => ground[q] = "kept"
         /\ f.e = "rolled-back" => ground[q] = "undone"
         /\ f.e \in {"applied", "rolled-back", "unknown"}
         /\ f.facts => f.e = "unknown"
         /\ [f EXCEPT !.over = TRUE].e = f.e
         /\ [f EXCEPT !.over = TRUE].facts = f.facts
  <2>1. i # 0 /\ i # Top => i < Top BY <1>0, <1>1
  <2> QED BY <1>1, <2>1, FateTells
<1>6. ASSUME i # 0, i # Top, ground[q] = "pending"
      PROVE  hist[i + 1].kind = "plain" /\ b
  <2>1. i + 1 \in (i + 1)..Top BY <1>0, <1>1, <1>6
  <2>2. hist[i + 1].kind = "plain" /\ "confirmed" \in StrangerOps BY <1>1, <1>6, <2>1 DEF Ledger
  <2> QED BY <1>6, <2>2, OpenMeans
<1> HIDE DEF i, f, v
<1>7. i # 0 /\ i # Top /\ f.e = "unknown" => TrueOf(q, f.e) BY DEF TrueOf
<1>8. i # 0 /\ i # Top => TrueOf(q, f.e) BY <1>5, <1>7 DEF TrueOf
<1>9. CASE b
  <2>1. CASE i = 0 \/ i = Top \/ i = Top - 1 \/ (f.e = "unknown" /\ hist[i + 1].kind # "root")
    <3>1. v \in {Verdict("unknown", FALSE, FALSE), Verdict("pending", FALSE, FALSE)}
      BY <1>2, <1>9, <2>1
    <3> QED BY <1>3, <3>1 DEF v
  <2>2. CASE ~(i = 0 \/ i = Top \/ i = Top - 1 \/ (f.e = "unknown" /\ hist[i + 1].kind # "root"))
    <3>1. v = [f EXCEPT !.over = TRUE] BY <1>2, <1>9, <2>2
    <3>2. v.e = f.e /\ v.facts = f.facts BY <1>5, <2>2, <3>1
    <3>3. f.facts => ground[q] # "pending" BY <1>5, <1>6, <2>2
    <3> QED BY <1>4, <1>8, <2>2, <3>2, <3>3 DEF v
  <2> QED BY <2>1, <2>2
<1>10. CASE ~b
  <2>1. CASE i = 0 /\ pre = Top
    <3>1. v = Verdict("nothing-committed", FALSE, FALSE) BY <1>0, <1>2, <1>10, <2>1
    <3>2. \A j \in 1..Top : ~Ours(q, j) BY <1>0, <2>1
    <3>3. ground[q] = "none" BY <3>2 DEF Ledger
    <3> QED BY <1>3, <3>1, <3>3 DEF v
  <2>2. CASE \/ i = 0 /\ pre # Top
             \/ i = Top /\ (until = ZeroTime \/ until > 0)
    <3>0. until = ZeroTime => ~(until > 0) BY DEF ZeroTime
    <3>1. CASE i = 0 /\ pre # Top
      <4>1. v = Verdict("unknown", FALSE, FALSE) BY <1>0, <1>2, <1>10, <3>1
      <4> QED BY <1>3, <4>1 DEF v
    <3>2. CASE i = Top /\ until = ZeroTime
      <4>1. v = Verdict("unknown", FALSE, FALSE) BY <1>0, <1>2, <1>10, <3>0, <3>2
      <4> QED BY <1>3, <4>1 DEF v
    <3>3. CASE i = Top /\ until > 0
      <4>1. until # ZeroTime /\ ~(until <= 0) BY <3>0, <3>3
      <4>2. v = Verdict("pending", FALSE, FALSE) BY <1>0, <1>2, <1>10, <3>3, <4>1
      <4> QED BY <1>3, <4>2 DEF v
    <3> QED BY <2>2, <3>1, <3>2, <3>3
  <2>3. CASE i = Top /\ until # ZeroTime /\ ~(until > 0)
    <3>0. until <= 0 BY <2>3
    <3>1. v = Verdict("applied-by-other", TRUE, FALSE) BY <1>0, <1>2, <1>10, <2>3, <3>0
    <3>2. ASSUME ground[q] = "pending" PROVE FALSE
      <4>1. "confirmed" \notin StrangerOps /\ pend.left >= -ExpiryLag BY <1>10, <3>2, OpenMeans
      <4>2. pend.left + SettleSlack <= until BY <2>3, <3>2, <4>1 DEF Covers
      <4>3. ExpiryLag < SettleSlack /\ pend.left \in Int /\ SettleSlack \in Nat /\ ExpiryLag \in Nat
        BY TimeAssumption, Parts
      <4> QED BY <2>3, <4>1, <4>2, <4>3
    <3>3. ground[q] \notin {"none", "pending"} BY <1>0, <1>4, <2>3, <3>2
    <3> QED BY <1>3, <3>1, <3>3 DEF v
  <2>4. CASE i # 0 /\ i # Top
    <3>1. v = f BY <1>2, <1>10, <2>4
    <3>2. ground[q] \notin {"none", "pending"} BY <1>4, <1>6, <1>10, <2>4
    <3> QED BY <1>8, <2>4, <3>1, <3>2 DEF v
  <2> QED BY <2>1, <2>2, <2>3, <2>4
<1> QED BY <1>9, <1>10 DEF v

----------------------------------------------------------------------------
(* The truth of the exits and of the record.  Up to its commit a command has *)
(* no fate and nobody names it; it confirms or cancels once; a settle that   *)
(* goes on to compare rollbacks is about a fate that is decided; and no       *)
(* command and no record takes a window for over before the device does.      *)

\* The driver's places up to the commit, and those it reaches only over it.
Unsent == {"preflight", "read", "open", "compare", "checkState", "check", "commit", "landing"}
Proven == {"landed", "converged", "byOther", "window", "confirm", "undo", "undoCompare", "undoCommit"}

NotYet(p) ==
    pc[p] \in {"idle", "reconcile", "lock"} \cup Unsent \/ (pc[p] \in Settling /\ loc[p].id # p)
ByNow(p) ==
    \/ pc[p] \in {"name", "unlock", "close", "keep", "done", "dead"}
    \/ pc[p] \in Settling /\ loc[p].id = p

\* How far a command is, and what of it the device has.
Course(p) ==
    /\ NotYet(p) => ground[p] = "none"
    /\ pc[p] \in Unsent => loc[p].until = ZeroTime
    /\ (\E i \in 1..Top : Acts(p, i)) => ByNow(p)
    /\ pc[p] \in Driver => loc[p].pre <= Top /\ \A i \in 1..Top : Ours(p, i) => loc[p].pre < i
    /\ pc[p] \in Proven => ground[p] # "none"
    /\ pc[p] = "landing" \/ (pc[p] \in Driver \cup Settling /\ loc[p].id = p /\ ground[p] # "none") =>
          loc[p].committing
    /\ lock = p => pc[p] \in Driver \cup Settling \cup {"unlock"} /\ loc[p].id = p

\* The compares of a settle, for a history that has not moved since it was read.
Weighed(p, i) ==
    /\ i \in 2..loc[p].len /\ i > loc[p].len - HistKeep /\ Ours(loc[p].id, i)
    /\ Top = loc[p].len => loc[p].after = (Running = hist[i].cfg)
    /\ pc[p] = "compareAgain" /\ Top = loc[p].len => loc[p].before = (Running = hist[i - 1].cfg)

Weighs(p) ==
    pc[p] \in Settling =>
        /\ loc[p].id \in Proc /\ ground[loc[p].id] \notin {"none", "pending"}
        /\ loc[p].len \in 1..Top
        /\ pc[p] # "compareAfter" => \E i \in 1..Top : Weighed(p, i)

Open == {"pending", "unknown", "window-short"}

\* Whose apply a command settles, and what its exit says of its own.
Ends(p) ==
    /\ pc[p] = "reconcile" => loc[p].id \in Proc
    /\ pc[p] = "lock" => loc[p].id = NoOne
    /\ pc[p] \in {"unlock", "close", "keep"} =>
          /\ loc[p].id \in {p, NoOne}
          /\ out[p] \notin Open => loc[p].id = NoOne \/ ground[p] # "pending"
          /\ loc[p].id = NoOne => out[p] = "failed"

Tale(p) == Course(p) /\ Weighs(p) /\ Ends(p)

\* A command that has not committed is in nobody's hands but its own.
Unnamed(q) == NotYet(q) => rec.id # q /\ \A p \in Proc \ {q} : loc[p].id # q

\* The end of the window of an apply that is still under it.
Bounded(id, u) == id \in Proc /\ ground[id] = "pending" => Covers(u)

RecOK(r) ==
    /\ r.res \in {"pending", "unknown"} => r.id \in Proc
    /\ r.id \in Proc /\ r.res \notin {"pending", "unknown"} => ground[r.id] # "pending"

TaleInv ==
    /\ LedgerInv
    /\ \A p \in Proc : Tale(p) /\ Unnamed(p) /\ Bounded(loc[p].id, loc[p].until)
    /\ Bounded(rec.id, rec.until) /\ RecOK(rec)

\* What a step of p may do to the device, as the others see it: the history
\* grows by p's commits or other people's, and a fate that is decided stays so.
Drift(p) ==
    /\ Top \in Nat \ {0} /\ Top' \in Nat /\ Top <= Top' /\ \A i \in 1..Top : hist'[i] = hist[i]
    /\ \A i \in 1..Top' : i \in 1..Top \/ hist'[i].by \in {p, NoOne}
    /\ \A q \in Proc : ground[q] \notin {"none", "pending"} => ground'[q] \notin {"none", "pending"}
    /\ \A q \in Proc \ {p} : /\ ground'[q] = "none" <=> ground[q] = "none"
                             /\ ground'[q] = "pending" => ground[q] = "pending"

\* A process that does not move, the clock apart.
Steady(q) ==
    /\ pc'[q] = pc[q] /\ out'[q] = out[q] /\ loc'[q].id = loc[q].id /\ loc'[q].pre = loc[q].pre
    /\ loc'[q].committing = loc[q].committing /\ loc'[q].len = loc[q].len
    /\ loc'[q].after = loc[q].after /\ loc'[q].before = loc[q].before
    /\ loc[q].until = ZeroTime => loc'[q].until = ZeroTime

LEMMA DriftRuns == ASSUME NEW p, Drift(p), Top' = Top PROVE Running' = Running
<1>1. Top \in 1..Top BY DEF Drift
<1>2. hist'[Top'] = hist[Top] BY <1>1 DEF Drift
<1> QED BY <1>2 DEF Running

LEMMA Bystander ==
    ASSUME TypeInv, NEW p \in Who, Drift(p), NEW q \in Proc, q # p, Steady(q),
           lock' = q => lock = q, Tale(q)
    PROVE  Tale(q)'
<1>0. /\ Top \in Nat \ {0} /\ Top' \in Nat /\ Top <= Top' /\ (\A i \in 1..Top : hist'[i] = hist[i])
      /\ \A i \in 1..Top' : i \in 1..Top \/ hist'[i].by \in {p, NoOne}
  BY DEF Drift
<1>1. NotYet(q)' <=> NotYet(q) BY DEF NotYet, Steady
<1>2. ByNow(q)' <=> ByNow(q) BY DEF ByNow, Steady
<1>3. \A i \in 1..Top' : Ours(q, i)' => i \in 1..Top /\ Ours(q, i)
  BY <1>0, ProcAssumption DEF Ours
<1>4. \A i \in 1..Top' : Acts(q, i)' => i \in 1..Top /\ Acts(q, i)
  BY <1>0, ProcAssumption DEF Acts
<1>5. /\ ground'[q] = "none" <=> ground[q] = "none"
      /\ ground'[q] = "pending" => ground[q] = "pending"
  BY DEF Drift
<1>6. Course(q)'
  <2>1. loc[q].pre \in Nat BY Parts, LocFacts
  <2>2. NotYet(q)' => ground'[q] = "none" BY <1>1, <1>5 DEF Tale, Course
  <2>3. pc'[q] \in Unsent => loc'[q].until = ZeroTime BY DEF Steady, Tale, Course
  <2>4. (\E i \in 1..Top' : Acts(q, i)') => ByNow(q)' BY <1>2, <1>4 DEF Tale, Course
  <2>5. pc'[q] \in Driver => loc'[q].pre <= Top' /\ \A i \in 1..Top' : Ours(q, i)' => loc'[q].pre < i
    <3>1. pc'[q] \in Driver => loc[q].pre <= Top /\ \A i \in 1..Top : Ours(q, i) => loc[q].pre < i
      BY DEF Steady, Tale, Course
    <3>2. loc'[q].pre = loc[q].pre BY DEF Steady
    <3> QED BY <1>0, <1>3, <2>1, <3>1, <3>2
  <2>6. pc'[q] \in Proven => ground'[q] # "none" BY <1>5 DEF Steady, Tale, Course
  <2>7. pc'[q] = "landing" \/ (pc'[q] \in Driver \cup Settling /\ loc'[q].id = q /\ ground'[q] # "none") =>
          loc'[q].committing
    BY <1>5 DEF Steady, Tale, Course
  <2>8. lock' = q => pc'[q] \in Driver \cup Settling \cup {"unlock"} /\ loc'[q].id = q
    BY DEF Steady, Tale, Course
  <2> QED BY <2>2, <2>3, <2>4, <2>5, <2>6, <2>7, <2>8 DEF Course
<1>7. Weighs(q)'
  <2> SUFFICES ASSUME pc'[q] \in Settling
               PROVE  /\ loc'[q].id \in Proc /\ ground'[loc'[q].id] \notin {"none", "pending"}
                      /\ loc'[q].len \in 1..Top'
                      /\ pc'[q] # "compareAfter" => \E i \in 1..Top' : Weighed(q, i)'
    BY DEF Weighs
  <2>1. /\ loc[q].id \in Proc /\ ground[loc[q].id] \notin {"none", "pending"}
        /\ loc[q].len \in 1..Top
        /\ pc[q] # "compareAfter" => \E i \in 1..Top : Weighed(q, i)
    BY DEF Tale, Weighs, Steady
  <2>2. ground'[loc[q].id] \notin {"none", "pending"} BY <2>1 DEF Drift
  <2>3. loc[q].len \in 1..Top' BY <1>0, <2>1
  <2>4. ASSUME pc[q] # "compareAfter" PROVE \E i \in 1..Top' : Weighed(q, i)'
    <3>1. PICK i \in 1..Top : Weighed(q, i) BY <2>1, <2>4
    <3>2. i \in 1..Top' /\ hist'[i] = hist[i] BY <1>0
    <3>3. Ours(loc[q].id, i)' <=> hist'[i].kind = "commit" /\ hist'[i].by = loc'[q].id
      BY DEF Ours
    <3>4. hist'[i].kind = "commit" /\ hist'[i].by = loc'[q].id
      BY <3>1, <3>2 DEF Weighed, Ours, Steady
    <3>5. Top' = loc'[q].len => Top' = Top /\ Top = loc[q].len /\ Running' = Running
      BY <1>0, <2>1, DriftRuns DEF Steady
    <3>6. Top' = loc'[q].len => loc'[q].after = (Running' = hist'[i].cfg)
      BY <3>1, <3>2, <3>5 DEF Weighed, Steady
    <3>7. pc'[q] = "compareAgain" /\ Top' = loc'[q].len => loc'[q].before = (Running' = hist'[i - 1].cfg)
      <4>1. i - 1 \in 1..Top BY <1>0, <2>1, <3>1 DEF Weighed
      <4>2. hist'[i - 1] = hist[i - 1] BY <1>0, <4>1
      <4> QED BY <3>1, <3>5, <4>2 DEF Weighed, Steady
    <3> QED BY <3>1, <3>2, <3>4, <3>6, <3>7 DEF Weighed, Ours, Steady
  <2> QED BY <2>1, <2>2, <2>3, <2>4 DEF Steady
<1>8. Ends(q)' BY <1>5 DEF Tale, Ends, Steady
<1> QED BY <1>6, <1>7, <1>8 DEF Tale

\* Nobody gets to name a command that has not committed.
LEMMA NamesKept ==
    ASSUME TypeInv, NEW p \in Proc, OwnStep(p), \A q \in Proc : Unnamed(q),
           NotYet(p)' => NotYet(p) /\ rec'.id # p
    PROVE  \A q \in Proc : Unnamed(q)'
<1>0. PICK to \in Where \ {"idle"} :
        /\ pc' = [pc EXCEPT ![p] = to]
        /\ \A q \in Proc \ {p} : loc'[q].id = loc[q].id
        /\ loc'[p].id \in {NoOne, rec.id, loc[p].id, p}
        /\ rec'.id \in {rec.id, loc[p].id, p}
  BY DEF OwnStep
<1>1. \A q \in Proc \ {p} : pc'[q] = pc[q] /\ loc'[q].id = loc[q].id BY <1>0, Parts
<1>2. ASSUME NEW q \in Proc, NotYet(q)' PROVE rec'.id # q /\ \A r \in Proc \ {q} : loc'[r].id # q
  <2>1. CASE q = p
    <3>1. rec'.id # p /\ NotYet(p) BY <1>2, <2>1
    <3>2. \A r \in Proc \ {p} : loc[r].id # p BY <3>1 DEF Unnamed
    <3> QED BY <1>1, <2>1, <3>1, <3>2
  <2>2. CASE q # p
    <3>1. NotYet(q) BY <1>1, <1>2, <2>2 DEF NotYet
    <3>2. rec.id # q /\ (\A r \in Proc \ {q} : loc[r].id # q) /\ loc[p].id # q /\ NoOne # q
      BY <2>2, <3>1, ProcAssumption DEF Unnamed
    <3> QED BY <1>0, <1>1, <2>2, <3>2
  <2> QED BY <2>1, <2>2
<1> QED BY <1>2 DEF Unnamed

----------------------------------------------------------------------------
(* The steps that leave the device alone.                                    *)

\* What the record's word of an apply stands for (SettleIsTrue).
SaysTrue(r) == TrueOf(r.id, IF r.res = "applied" /\ ground[r.id] # "kept" THEN "applied-by-other" ELSE r.res)

\* What such a step of p has to show.
Tells(p) ==
    /\ UNCHANGED <<hist, pend, ground>>
    /\ \A q \in Proc \ {p} : loc'[q] = loc[q] /\ out'[q] = out[q]
    /\ Tale(p)'
    /\ NotYet(p)' => NotYet(p) /\ rec'.id # p
    /\ Bounded(loc'[p].id, loc'[p].until)
    /\ rec' = rec \/ (Bounded(rec'.id, rec'.until) /\ RecOK(rec'))
    /\ out'[p] # out[p] => TrueOf(p, out'[p])
    /\ pc[p] \in {"reconcile", "compareAgain"} /\ rec' # rec => SaysTrue(rec')

\* What any step shows: the invariant, and the truth of what was said in it.
Truthful ==
    /\ TaleInv'
    /\ \A q \in Proc : out'[q] # out[q] => TrueOf(q, out[q])'
    /\ \A q \in Proc : pc[q] \in {"reconcile", "compareAgain"} /\ rec' # rec /\ pc'[q] # pc[q] => SaysTrue(rec)'

LEMMA StillDrift ==
    ASSUME TypeInv, UNCHANGED <<hist, ground>>, NEW p PROVE Drift(p)
<1>1. Top' = Top /\ Top \in Nat \ {0} BY Parts DEF Top
<1> QED BY <1>1 DEF Drift

LEMMA StillTrue ==
    ASSUME UNCHANGED <<hist, pend, ground>>
    PROVE  /\ \A id, e : TrueOf(id, e)' <=> TrueOf(id, e)
           /\ \A id, u : Bounded(id, u)' <=> Bounded(id, u)
           /\ \A q : Ledger(q)' <=> Ledger(q)
           /\ RecOK(rec)' <=> RecOK(rec')
           /\ SaysTrue(rec)' <=> SaysTrue(rec')
<1>1. Top' = Top /\ Running' = Running BY DEF Top, Running
<1>2. \A id, e : TrueOf(id, e)' <=> TrueOf(id, e) BY <1>1 DEF TrueOf
<1>3. \A id, u : Bounded(id, u)' <=> Bounded(id, u) BY DEF Bounded, Covers
<1>4. \A q : Ledger(q)' <=> Ledger(q) BY <1>1 DEF Ledger, Ours
<1>5. RecOK(rec)' <=> RecOK(rec') BY DEF RecOK
<1>6. SaysTrue(rec)' <=> SaysTrue(rec') BY <1>1 DEF SaysTrue, TrueOf
<1> QED BY <1>2, <1>3, <1>4, <1>5, <1>6

\* What a step of p leaves to the others.
LEMMA OthersSteady ==
    ASSUME TypeInv, NEW p \in Proc, OwnStep(p),
           \A q \in Proc \ {p} : loc'[q] = loc[q] /\ out'[q] = out[q]
    PROVE  \A q \in Proc \ {p} : Steady(q) /\ pc'[q] = pc[q] /\ (lock' = q => lock = q)
<1>1. \A q \in Proc \ {p} : pc'[q] = pc[q] /\ (lock' = q => lock = q)
  BY Parts, ProcAssumption DEF OwnStep
<1> QED BY <1>1 DEF Steady

LEMMA TellsKeeps ==
    ASSUME TypeInv, TaleInv, NEW p \in Proc, OwnStep(p), Tells(p) PROVE Truthful
<1>0. /\ UNCHANGED <<hist, pend, ground>>
      /\ \A q \in Proc \ {p} : loc'[q] = loc[q] /\ out'[q] = out[q]
      /\ Tale(p)' /\ (NotYet(p)' => NotYet(p) /\ rec'.id # p)
      /\ Bounded(loc'[p].id, loc'[p].until)
      /\ rec' = rec \/ (Bounded(rec'.id, rec'.until) /\ RecOK(rec'))
      /\ out'[p] # out[p] => TrueOf(p, out'[p])
      /\ pc[p] \in {"reconcile", "compareAgain"} /\ rec' # rec => SaysTrue(rec')
  BY DEF Tells
<1>1. /\ \A id, e : TrueOf(id, e)' <=> TrueOf(id, e)
      /\ \A id, u : Bounded(id, u)' <=> Bounded(id, u)
      /\ \A q : Ledger(q)' <=> Ledger(q)
      /\ RecOK(rec)' <=> RecOK(rec')
      /\ SaysTrue(rec)' <=> SaysTrue(rec')
  BY <1>0, StillTrue
<1>2. \A q \in Proc \ {p} : Steady(q) /\ pc'[q] = pc[q] /\ (lock' = q => lock = q)
  BY <1>0, OthersSteady
<1>3. ASSUME NEW q \in Proc PROVE Tale(q)'
  <2>1. CASE q = p BY <1>0, <2>1
  <2>2. CASE q # p
    <3>1. Drift(p) BY <1>0, StillDrift
    <3> QED BY <1>2, <2>2, <3>1, Bystander DEF TaleInv, Who
  <2> QED BY <2>1, <2>2
<1>4. \A q \in Proc : Unnamed(q)' BY <1>0, NamesKept DEF TaleInv
<1>5. LedgerInv' BY <1>1 DEF TaleInv, LedgerInv
<1>6. \A q \in Proc : Bounded(loc'[q].id, loc'[q].until) BY <1>0 DEF TaleInv
<1>7. \A q \in Proc : Bounded(loc[q].id, loc[q].until)' BY <1>6, <1>0 DEF Bounded, Covers
<1>8. Bounded(rec'.id, rec'.until) /\ RecOK(rec') BY <1>0 DEF TaleInv
<1>9. Bounded(rec.id, rec.until)' BY <1>8, <1>0 DEF Bounded, Covers
<1>10. TaleInv' BY <1>1, <1>3, <1>4, <1>5, <1>7, <1>8, <1>9 DEF TaleInv
<1>11. \A q \in Proc : out'[q] # out[q] => TrueOf(q, out'[q])
  BY <1>0
<1>12. \A q \in Proc : out'[q] # out[q] => TrueOf(q, out[q])'
  <2>1. Running' = Running BY <1>0 DEF Running, Top
  <2> QED BY <1>0, <1>11, <2>1 DEF TrueOf
<1>13. \A q \in Proc : pc[q] \in {"reconcile", "compareAgain"} /\ rec' # rec /\ pc'[q] # pc[q] => SaysTrue(rec)'
  BY <1>0, <1>1, <1>2
<1> QED BY <1>10, <1>12, <1>13 DEF Truthful

\* Where the places of a command lie.
LEMMA Places ==
    /\ \A x \in {"unlock", "close", "keep", "done", "dead", "idle", "reconcile", "lock"} :
          x \notin Driver \cup Settling \cup Unsent \cup Proven /\ x # "landing"
    /\ Unsent \subseteq Driver /\ Proven \subseteq Driver \ Unsent
    /\ Settling \cap (Driver \cup Unsent \cup Proven) = {} /\ "landing" \in Unsent
    /\ Driver \cap {"unlock", "close", "keep", "done", "dead", "idle", "reconcile", "lock"} = {}
    /\ "compareAfter" \in Settling /\ "compareBefore" \in Settling /\ "compareAgain" \in Settling
    /\ "name" \in Driver \ (Unsent \cup Proven)
BY DEF Driver, Settling, Unsent, Proven

Said == Exits \ {"none", "refused"}

\* An exit that is true and not open is one of an apply that is over.
LEMMA TrueIsOver ==
    ASSUME NEW id, NEW e \in Said, TrueOf(id, e), e \notin Open PROVE ground[id] # "pending"
BY DEF TrueOf, Said, Exits, Open

\* The driver's exit.
LEMMA QuitTells ==
    ASSUME TypeInv, TaleInv, NEW p \in Proc, UNCHANGED <<hist, pend, ground, rec, lock>>,
           NEW e \in Said, Finish(p, e), \A q \in Proc \ {p} : loc'[q] = loc[q],
           loc'[p].id \in {p, NoOne}, loc'[p].id = NoOne => e = "failed", lock = p => loc'[p].id = p,
           TrueOf(p, e), Bounded(loc'[p].id, loc'[p].until)
    PROVE  Tells(p)
<1>1. pc'[p] = "unlock" /\ out'[p] = e /\ \A q \in Proc \ {p} : out'[q] = out[q]
  BY Parts DEF Finish, Goto
<1>2. ~NotYet(p)' /\ ByNow(p)' BY <1>1, Places DEF NotYet, ByNow
<1>3. Course(p)' BY <1>1, <1>2, Places DEF Course
<1>4. Weighs(p)' BY <1>1, Places DEF Weighs
<1>5. Ends(p)' BY <1>1, TrueIsOver DEF Ends
<1>6. Tale(p)' BY <1>3, <1>4, <1>5 DEF Tale
<1> QED BY <1>1, <1>2, <1>6 DEF Tells

\* A failure before the commit.
LEMMA EarlyExit ==
    ASSUME NEW p \in Proc, Tale(p), NotYet(p),
           NEW e \in {"failed", "no-change", "interrupted", "failed-load", "failed-check", "checked"}
    PROVE  e \in Said /\ TrueOf(p, e)
<1>1. ground[p] = "none" BY DEF Tale, Course
<1> QED BY <1>1 DEF TrueOf, Said, Exits

LEMMA ExitParts ==
    ASSUME NEW p \in Proc, NEW e, Stop(p, e) \/ Discard(p, e)
    PROVE  UNCHANGED <<hist, pend, ground, rec, lock, loc>> /\ Finish(p, e)
BY DEF Stop, Discard, device, files

LEMMA EarlyExitTells ==
    ASSUME TypeInv, OwnInv, TaleInv, NEW p \in Proc, pc[p] \in Unsent,
           NEW e \in {"failed", "no-change", "interrupted", "failed-load", "failed-check", "checked"},
           Stop(p, e) \/ Discard(p, e)
    PROVE  Tells(p)
<1>1. Tale(p) /\ NotYet(p) /\ loc[p].id = p BY Places DEF TaleInv, NotYet, OwnInv
<1>2. e \in Said /\ TrueOf(p, e) BY <1>1, EarlyExit
<1>3. UNCHANGED <<hist, pend, ground, rec, lock, loc>> /\ Finish(p, e) BY ExitParts
<1>4. Bounded(loc[p].id, loc[p].until) BY DEF TaleInv
<1>5. NoOne # p BY ProcAssumption
<1> QED BY <1>1, <1>2, <1>3, <1>4, <1>5, QuitTells

\* An exit that leaves the fate open.
LEMMA OpenExitTells ==
    ASSUME TypeInv, OwnInv, TaleInv, NEW p \in Proc, pc[p] \in Driver,
           NEW e \in {"unknown", "window-short"}, Stop(p, e)
    PROVE  Tells(p)
<1>1. loc[p].id = p /\ NoOne # p BY ProcAssumption DEF OwnInv
<1>2. e \in Said /\ TrueOf(p, e) BY DEF TrueOf, Said, Exits
<1>3. UNCHANGED <<hist, pend, ground, rec, lock, loc>> /\ Finish(p, e) BY ExitParts
<1>4. Bounded(loc[p].id, loc[p].until) BY DEF TaleInv
<1> QED BY <1>1, <1>2, <1>3, <1>4, QuitTells

\* The command ends without a transaction.
LEMMA RefusedTells ==
    ASSUME TypeInv, TaleInv, NEW p \in Proc, Refused(p), pc[p] \notin Driver,
           pc[p] \in Settling => loc[p].id # p, pc[p] # "unlock"
    PROVE  Tells(p)
<1>1. /\ UNCHANGED <<hist, pend, ground, rec, lock, loc>> /\ pc'[p] = "done"
      /\ out'[p] = "refused" /\ \A q \in Proc \ {p} : out'[q] = out[q]
  BY Parts DEF Refused, device, files, Goto
<1>2. lock # p BY DEF TaleInv, Tale, Course
<1>3. ~NotYet(p)' /\ ByNow(p)' BY <1>1, Places DEF NotYet, ByNow
<1>4. Course(p)' BY <1>1, <1>2, <1>3, Places DEF Course
<1>5. Weighs(p)' /\ Ends(p)' BY <1>1, Places DEF Weighs, Ends
<1>6. TrueOf(p, "refused") BY DEF TrueOf
<1> QED BY <1>1, <1>3, <1>4, <1>5, <1>6 DEF Tells, Tale, TaleInv

\* Fresh, where a command has nobody's apply in hand.
LEMMA FreshBounds == Fresh.id = NoOne /\ \A u : Bounded(NoOne, u)
BY FreshType, ProcAssumption DEF Bounded

\* The record, replaced by a fate that is true.
LEMMA ReconciledTells ==
    ASSUME TypeInv, TaleInv, NEW p \in Proc, NEW e \in Settled, Reconciled(p, e),
           pc[p] \in Settling \cup {"reconcile"}, loc[p].id \in Proc, loc[p].id # p,
           TrueOf(loc[p].id, e), pc[p] \in {"compareAfter", "compareBefore"} => e = "unknown"
    PROVE  Tells(p)
<1>1. CASE e \in {"pending", "unknown"}
  <2>1. Refused(p) /\ pc[p] \notin Driver /\ pc[p] # "unlock" BY <1>1, Places DEF Reconciled
  <2> QED BY <2>1, RefusedTells
<1>2. CASE e \notin {"pending", "unknown"}
  <2>1. /\ UNCHANGED <<hist, pend, ground, lock, out>>
        /\ rec' \in {[id |-> loc[p].id, res |-> ResultOf(e), until |-> ZeroTime], rec}
        /\ Set(p, Fresh) /\ Goto(p, "lock")
    BY <1>2 DEF Reconciled, device
  <2>2. pc'[p] = "lock" /\ loc'[p] = Fresh /\ \A q \in Proc \ {p} : loc'[q] = loc[q]
    BY <2>1, SetIds, Parts DEF Goto
  <2>3. NotYet(p) BY Places DEF NotYet
  <2>4. Tale(p) /\ Unnamed(p) /\ lock # p /\ ground[p] = "none"
    BY <2>3, Places DEF TaleInv, Tale, Course
  <2>5. Course(p)'
    <3>1. ~\E i \in 1..Top' : Acts(p, i)'
      <4>1. ~ByNow(p) BY Places DEF ByNow
      <4>2. ~\E i \in 1..Top : Acts(p, i) BY <2>4, <4>1 DEF Tale, Course
      <4> QED BY <2>1, <4>2 DEF Top, Acts
    <3> QED BY <2>1, <2>2, <2>4, <3>1, Places DEF Course
  <2>6. Weighs(p)' /\ Ends(p)' BY <2>2, Places, FreshBounds DEF Weighs, Ends
  <2>7. Bounded(loc'[p].id, loc'[p].until) BY <2>2, FreshBounds
  <2>8. rec.id # p BY <2>3, <2>4 DEF Unnamed
  <2>9. CASE rec' = rec BY <2>1, <2>2, <2>3, <2>5, <2>6, <2>7, <2>8, <2>9 DEF Tells, Tale
  <2>10. CASE rec' = [id |-> loc[p].id, res |-> ResultOf(e), until |-> ZeroTime]
    <3>1. rec'.id = loc[p].id /\ rec'.res = ResultOf(e) /\ rec'.until = ZeroTime BY <2>10
    <3>2. e \in {"nothing-committed", "applied-by-other", "applied", "rolled-back"}
      BY <1>2 DEF Settled
    <3>3. ground[loc[p].id] # "pending" BY <3>2, TrueIsOver DEF Said, Exits, Open
    <3>4. ResultOf(e) \in {"failed", "applied", "rolled-back"}
      BY <3>2 DEF ResultOf
    <3>5. RecOK(rec') /\ Bounded(rec'.id, rec'.until) BY <3>1, <3>3, <3>4 DEF RecOK, Bounded
    <3>6. SaysTrue(rec')
      <4>1. CASE e = "nothing-committed"
        <5>1. ResultOf(e) = "failed" BY <4>1 DEF ResultOf
        <5> QED BY <3>1, <4>1, <5>1 DEF SaysTrue, TrueOf
      <4>2. CASE e \in {"applied", "applied-by-other"}
        <5>1. ResultOf(e) = "applied" BY <4>2 DEF ResultOf
        <5> QED BY <3>1, <4>2, <5>1 DEF SaysTrue, TrueOf
      <4>3. CASE e = "rolled-back"
        <5>1. ResultOf(e) = "rolled-back" BY <4>3 DEF ResultOf
        <5> QED BY <3>1, <4>3, <5>1 DEF SaysTrue, TrueOf
      <4> QED BY <3>2, <4>1, <4>2, <4>3
    <3> QED BY <2>1, <2>2, <2>3, <2>5, <2>6, <2>7, <3>1, <3>5, <3>6 DEF Tells, Tale
  <2> QED BY <2>1, <2>9, <2>10
<1> QED BY <1>1, <1>2

LEMMA ZeroBounds == \A id : Bounded(id, ZeroTime)
BY DEF Bounded, Covers

\* A window as the device has it now.
LEMMA NowBounds ==
    ASSUME TypeInv, NEW id PROVE Bounded(id, pend.left + 1 + SettleSlack)
<1>1. pend.left + SettleSlack <= pend.left + 1 + SettleSlack BY Parts, TimeFacts
<1> QED BY <1>1 DEF Bounded, Covers

LEMMA NamedTells ==
    ASSUME TypeInv, TaleInv, NEW p \in Proc, NEW e \in Settled, NEW l \in LocType, l.id = p,
           Named(p, e, l), TrueOf(p, e), Bounded(p, l.until)
    PROVE  Tells(p)
<1> DEFINE t == IF e \in {"nothing-committed", "applied", "applied-by-other", "rolled-back"} /\ ~l.over
                THEN ZeroTime ELSE l.until
<1>1. Set(p, [l EXCEPT !.until = t]) BY DEF Named, LocType
<1>2. t \in {ZeroTime, l.until} OBVIOUS
<1> HIDE DEF t
<1>3. loc'[p] = [l EXCEPT !.until = t] /\ \A q \in Proc \ {p} : loc'[q] = loc[q] BY <1>1, SetIds
<1>4. loc'[p].id = p /\ loc'[p].until = t BY <1>3 DEF LocType
<1>5. Bounded(loc'[p].id, loc'[p].until) BY <1>2, <1>4, ZeroBounds
<1>6. UNCHANGED <<hist, pend, ground, rec, lock>> /\ Finish(p, e) BY DEF Named, files
<1>7. e \in Said /\ NoOne # p BY ProcAssumption DEF Settled, Said, Exits
<1> QED BY <1>3, <1>4, <1>5, <1>6, <1>7, QuitTells

\* A command of which the device has nothing yet.
LEMMA NotYetFacts ==
    ASSUME TaleInv, NEW p \in Proc, NotYet(p)
    PROVE  /\ ground[p] = "none" /\ rec.id # p /\ (\A i \in 1..Top : ~Acts(p, i) /\ ~Ours(p, i))
           /\ pc[p] \notin Driver => lock # p
<1>1. ~ByNow(p) BY Places DEF NotYet, ByNow
<1>2. \A i \in 1..Top : ~Acts(p, i) BY <1>1 DEF TaleInv, Tale, Course
<1>3. ground[p] = "none" /\ rec.id # p BY DEF TaleInv, Tale, Course, Unnamed
<1>4. \A i \in 1..Top : ~Ours(p, i) BY <1>3 DEF TaleInv, LedgerInv, Ledger
<1>5. pc[p] \notin Driver => pc[p] # "unlock" /\ (pc[p] \in Settling => loc[p].id # p)
  BY Places DEF NotYet
<1>6. pc[p] \notin Driver => lock # p BY <1>5 DEF TaleInv, Tale, Course
<1> QED BY <1>2, <1>3, <1>4, <1>6

LEMMA SettleReadTells ==
    ASSUME TypeInv, NoStray, Told, OwnInv, TaleInv, NEW p \in Proc, NEW b \in FreshBanner,
           NEW id \in Proc, loc[p].id = id, SettleRead(p, id, b),
           (id = p /\ pc[p] \in Driver) \/ (id # p /\ pc[p] = "reconcile")
    PROVE  Tells(p)
<1> DEFINE pre == IF id = p THEN loc[p].pre ELSE 0
           v == Settle(id, Top, b, pre, loc[p].until)
           t == IF v.over THEN pend.left + 1 + SettleSlack ELSE loc[p].until
           l == [loc[p] EXCEPT !.id = id, !.len = Top, !.pending = b, !.over = v.over, !.until = t]
<1>1. v.e \in Settled /\ v.over \in BOOLEAN BY SettleType
<1>2. loc[p] \in LocType /\ loc[p].until \in Int /\ loc[p].pre \in Nat /\ b \in BOOLEAN
  BY Parts, LocFacts, BannerType
<1>3. Bounded(id, loc[p].until) BY DEF TaleInv
<1>4. /\ ~v.facts => TrueOf(id, v.e)
      /\ v.facts => ground[id] \notin {"none", "pending"}
  <2>1. ground[id] = "pending" => Covers(loc[p].until) BY <1>3 DEF Bounded
  <2>2. pre \in Nat BY <1>2
  <2>3. pre # 0 => \A i \in 1..Top : Ours(id, i) => pre < i BY DEF TaleInv, Tale, Course
  <2>4. Ledger(id) BY DEF TaleInv, LedgerInv
  <2> HIDE DEF pre
  <2> QED BY <1>2, <2>1, <2>2, <2>3, <2>4, SettleTells
<1>5. \/ v.facts /\ Set(p, l) /\ Goto(p, "compareAfter") /\ Quiet
      \/ ~v.facts /\ id = p /\ Named(p, v.e, l)
      \/ ~v.facts /\ id # p /\ Reconciled(p, v.e)
  BY <1>2 DEF SettleRead, LocType
<1> HIDE DEF v
<1>6. t \in Int
  <2>1. pend.left \in Int BY Parts
  <2> QED BY <1>2, <2>1, TimeFacts
<1>7. Bounded(id, t) BY <1>3, NowBounds
<1> HIDE DEF t
<1>8. l \in LocType
  <2>1. Top \in Nat /\ id \in Who BY Parts DEF Who
  <2>2. \A i \in Who, n \in Nat, c, o \in BOOLEAN, u \in Int :
           [loc[p] EXCEPT !.id = i, !.len = n, !.pending = c, !.over = o, !.until = u] \in LocType
    BY <1>2, LocFacts
  <2> QED BY <1>1, <1>2, <1>6, <2>1, <2>2
<1>9. l.id = id /\ l.until = t /\ l.len = Top /\ l.committing = loc[p].committing BY <1>2 DEF LocType
<1> HIDE DEF l
<1>10. CASE v.facts /\ Set(p, l) /\ Goto(p, "compareAfter") /\ Quiet
  <2>1. UNCHANGED <<hist, pend, ground, rec, lock, out>> BY <1>10 DEF Quiet, device, files
  <2>2. loc'[p] = l /\ pc'[p] = "compareAfter" /\ \A q \in Proc \ {p} : loc'[q] = loc[q]
    BY <1>10, SetIds, Parts DEF Goto
  <2>3. ground[id] \notin {"none", "pending"} BY <1>4, <1>10
  <2>4. id # p => NotYet(p) /\ ground[p] = "none" /\ rec.id # p /\ lock # p
                  /\ \A i \in 1..Top : ~Acts(p, i)
    <3>1. id # p => NotYet(p) /\ pc[p] \notin Driver BY Places DEF NotYet
    <3> QED BY <3>1, NotYetFacts
  <2>5. NotYet(p)' <=> id # p BY <1>9, <2>2, Places DEF NotYet
  <2>6. id = p => ByNow(p)' BY <1>9, <2>2, Places DEF ByNow
  <2>7. Course(p)'
    <3>1. (\E i \in 1..Top' : Acts(p, i)') => ByNow(p)' BY <2>1, <2>4, <2>6 DEF Top, Acts
    <3>2. id = p => loc[p].committing BY <2>3, Places DEF TaleInv, Tale, Course
    <3>3. NotYet(p)' => ground'[p] = "none" BY <2>1, <2>4, <2>5
    <3>4. lock' = p => loc'[p].id = p BY <1>9, <2>1, <2>2, <2>4
    <3> QED BY <1>9, <2>2, <3>1, <3>2, <3>3, <3>4, Places DEF Course
  <2>8. Weighs(p)'
    <3>1. Top' = Top /\ Top \in 1..Top BY <2>1, Parts DEF Top
    <3> QED BY <1>9, <2>1, <2>2, <2>3, <3>1 DEF Weighs
  <2>9. Ends(p)' BY <2>2 DEF Ends
  <2>10. Bounded(loc'[p].id, loc'[p].until) BY <1>7, <1>9, <2>2
  <2> QED BY <2>1, <2>2, <2>4, <2>5, <2>7, <2>8, <2>9, <2>10 DEF Tells, Tale
<1>11. CASE ~v.facts /\ id = p /\ Named(p, v.e, l)
  BY <1>1, <1>4, <1>7, <1>8, <1>9, <1>11, NamedTells
<1>12. CASE ~v.facts /\ id # p /\ Reconciled(p, v.e)
  <2>1. pc[p] = "reconcile" BY <1>12
  <2>2. TrueOf(loc[p].id, v.e) BY <1>4, <1>12
  <2> QED BY <1>1, <1>12, <2>1, <2>2, ReconciledTells
<1> QED BY <1>5, <1>10, <1>11, <1>12

\* A settle that stops, or decides by the compares.
LEMMA DecideTells ==
    ASSUME TypeInv, OwnInv, TaleInv, NEW p \in Proc, pc[p] \in Settling,
           NEW e \in {"unknown", "applied-by-other", "rolled-back"}, Decide(p, e),
           TrueOf(loc[p].id, e), e # "unknown" => pc[p] = "compareAgain"
    PROVE  Tells(p)
<1>1. loc[p].id \in Proc /\ loc[p] \in LocType BY Parts DEF TaleInv, Tale, Weighs
<1>2. e \in Settled BY DEF Settled
<1>3. Bounded(loc[p].id, loc[p].until) BY DEF TaleInv
<1>4. CASE loc[p].id = p BY <1>1, <1>2, <1>3, <1>4, NamedTells DEF Decide
<1>5. CASE loc[p].id # p
  <2>1. Reconciled(p, e) BY <1>5 DEF Decide
  <2> QED BY <1>1, <1>2, <1>5, <2>1, ReconciledTells
<1> QED BY <1>4, <1>5

\* A compare of a settle: the command goes on with one more answer.
LEMMA WeighTells ==
    ASSUME TypeInv, OwnInv, TaleInv, NEW p \in Proc, pc[p] \in Settling, Quiet,
           NEW to \in Settling \ {"compareAfter"}, Goto(p, to), NEW l, Set(p, l),
           l.id = loc[p].id, l.until = loc[p].until, l.len = loc[p].len,
           l.committing = loc[p].committing, \E i \in 1..Top : Weighed(p, i)'
    PROVE  Tells(p)
<1>1. UNCHANGED <<hist, pend, ground, rec, lock, out>> BY DEF Quiet, device, files
<1>2. loc'[p] = l /\ pc'[p] = to /\ \A q \in Proc \ {p} : loc'[q] = loc[q]
  BY SetIds, Parts DEF Goto
<1>3. (NotYet(p)' <=> NotYet(p)) /\ (ByNow(p)' <=> ByNow(p)) BY <1>2, Places DEF NotYet, ByNow
<1>4. Top' = Top /\ \A i : Acts(p, i)' <=> Acts(p, i) BY <1>1 DEF Top, Acts
<1>5. Course(p) /\ Weighs(p) BY DEF TaleInv, Tale
<1>6. Course(p)'
  <2>1. NotYet(p)' => ground'[p] = "none" BY <1>1, <1>3, <1>5 DEF Course
  <2>2. (\E i \in 1..Top' : Acts(p, i)') => ByNow(p)' BY <1>3, <1>4, <1>5 DEF Course
  <2>3. loc'[p].id = p /\ ground'[p] # "none" => loc'[p].committing BY <1>1, <1>2, <1>5 DEF Course
  <2>4. lock' = p => loc'[p].id = p BY <1>1, <1>2, <1>5 DEF Course
  <2> QED BY <1>2, <2>1, <2>2, <2>3, <2>4, Places DEF Course
<1>7. Weighs(p)' BY <1>1, <1>2, <1>4, <1>5 DEF Weighs
<1>8. Ends(p)' BY <1>2, Places DEF Ends
<1>9. NotYet(p) => rec.id # p BY NotYetFacts
<1>10. Bounded(loc'[p].id, loc'[p].until) BY <1>2 DEF TaleInv
<1> QED BY <1>1, <1>2, <1>3, <1>6, <1>7, <1>8, <1>9, <1>10 DEF Tells, Tale

LEMMA ComparesTell ==
    ASSUME TypeInv, OwnInv, TaleInv, NEW p \in Proc,
           CompareAfter(p) \/ CompareBefore(p) \/ CompareAgain(p)
    PROVE  Tells(p)
<1>0. pc[p] \in Settling BY DEF CompareAfter, CompareBefore, CompareAgain, Settling
<1>1. /\ loc[p].id \in Proc /\ ground[loc[p].id] \notin {"none", "pending"}
      /\ loc[p].len \in 1..Top /\ Top \in Nat \ {0}
      /\ pc[p] # "compareAfter" => \E i \in 1..Top : Weighed(p, i)
  BY <1>0, Parts DEF TaleInv, Tale, Weighs
<1>2. Ledger(loc[p].id) /\ loc[p] \in LocType BY <1>1, Parts DEF TaleInv, LedgerInv
<1>3. TrueOf(loc[p].id, "unknown") BY DEF TrueOf
<1>4. CASE Decide(p, "unknown") BY <1>0, <1>3, <1>4, DecideTells
<1>5. CASE CompareAfter(p) /\ ~Decide(p, "unknown")
  <2> DEFINE i == OursAt(loc[p].id, loc[p].len)
             a == SameAs(Place(p))
             l == [loc[p] EXCEPT !.after = a]
  <2>1. /\ Comparable(loc[p].id, loc[p].len) /\ Set(p, l) /\ Goto(p, "compareBefore") /\ Quiet
    BY <1>5 DEF CompareAfter
  <2>2. i > 1 BY <2>1 DEF Comparable
  <2>3. Ours(loc[p].id, i) /\ i \in 1..loc[p].len /\ i > loc[p].len - HistKeep
    BY <1>1, <1>2, <2>2, OursAtIs
  <2>4. i \in 2..loc[p].len /\ i \in 1..Top BY <1>1, <2>2, <2>3
  <2>5. Top = loc[p].len => a = (Running = hist[i].cfg)
    <3>1. Top = loc[p].len => Top - Place(p) = i BY <1>1, <2>4 DEF Place
    <3> QED BY <3>1 DEF SameAs, Rollback
  <2> HIDE DEF a, i
  <2>6. /\ l.id = loc[p].id /\ l.until = loc[p].until /\ l.len = loc[p].len
        /\ l.committing = loc[p].committing /\ l.after = a
    BY <1>2 DEF LocType
  <2> HIDE DEF l
  <2>7. loc'[p] = l /\ pc'[p] = "compareBefore" /\ hist' = hist
    BY <2>1, SetIds, Parts DEF Goto, Quiet, device
  <2>8. Top' = Top /\ Running' = Running BY <2>7 DEF Top, Running
  <2>9. \E k \in 1..Top : Weighed(p, k)'
    <3>1. PICK k : k = i OBVIOUS
    <3>2. k \in 1..Top BY <2>4, <3>1
    <3>3. Weighed(p, k)' BY <2>3, <2>4, <2>5, <2>6, <2>7, <2>8, <3>1 DEF Weighed, Ours
    <3> QED BY <3>2, <3>3
  <2> QED BY <1>0, <2>1, <2>6, <2>9, WeighTells, Places
<1>6. CASE CompareBefore(p) /\ ~Decide(p, "unknown")
  <2> DEFINE a == SameAs(Place(p) + 1)
             l == [loc[p] EXCEPT !.before = a]
  <2>1. /\ pc[p] = "compareBefore" /\ Set(p, l) /\ Goto(p, "compareAgain") /\ Quiet
    BY <1>6 DEF CompareBefore
  <2>2. PICK i \in 1..Top : Weighed(p, i) BY <1>1, <2>1
  <2>3. /\ i \in 2..loc[p].len /\ i > loc[p].len - HistKeep /\ Ours(loc[p].id, i)
        /\ Top = loc[p].len => loc[p].after = (Running = hist[i].cfg)
    BY <2>2 DEF Weighed
  <2>4. OursAt(loc[p].id, loc[p].len) = i
    <3>1. i \in 1..loc[p].len BY <1>1, <2>3
    <3> QED BY <1>1, <1>2, <2>3, <3>1, OursAtIs
  <2>5. Top = loc[p].len => a = (Running = hist[i - 1].cfg)
    <3>1. Top = loc[p].len => Top - (Place(p) + 1) = i - 1 BY <1>1, <2>4 DEF Place
    <3> QED BY <3>1 DEF SameAs, Rollback
  <2> HIDE DEF a
  <2>6. /\ l.id = loc[p].id /\ l.until = loc[p].until /\ l.len = loc[p].len
        /\ l.committing = loc[p].committing /\ l.before = a /\ l.after = loc[p].after
    BY <1>2 DEF LocType
  <2> HIDE DEF l
  <2>7. loc'[p] = l /\ pc'[p] = "compareAgain" /\ hist' = hist
    BY <2>1, SetIds, Parts DEF Goto, Quiet, device
  <2>8. Top' = Top /\ Running' = Running BY <2>7 DEF Top, Running
  <2>9. Weighed(p, i)' BY <2>3, <2>5, <2>6, <2>7, <2>8 DEF Weighed, Ours
  <2> QED BY <1>0, <2>1, <2>6, <2>9, WeighTells, Places
<1>7. CASE CompareAgain(p) /\ ~Decide(p, "unknown")
  <2>1. pc[p] = "compareAgain" /\ Top = loc[p].len /\ Decide(p, Compared(p))
    BY <1>7 DEF CompareAgain
  <2>2. PICK i \in 1..Top : Weighed(p, i) BY <1>1, <2>1
  <2>3. /\ Ours(loc[p].id, i)
        /\ loc[p].after = (Running = hist[i].cfg) /\ loc[p].before = (Running = hist[i - 1].cfg)
    BY <2>1, <2>2 DEF Weighed
  <2>4. "c" \in hist[i].cfg /\ "c" \notin hist[i - 1].cfg BY <1>2, <2>3 DEF Ledger
  <2>5. loc[p].after \in BOOLEAN /\ loc[p].before \in BOOLEAN BY <1>2 DEF LocType
  <2>6. /\ Compared(p) \in {"unknown", "applied-by-other", "rolled-back"}
        /\ Compared(p) = "applied-by-other" => Running = hist[i].cfg
        /\ Compared(p) = "rolled-back" => Running = hist[i - 1].cfg
    BY <2>3, <2>5 DEF Compared
  <2>7. TrueOf(loc[p].id, Compared(p)) BY <1>1, <2>4, <2>6 DEF TrueOf
  <2> QED BY <1>0, <2>1, <2>6, <2>7, DecideTells
<1> QED BY <1>4, <1>5, <1>6, <1>7

\* A step within the driver.
LEMMA AheadTale ==
    ASSUME TypeInv, OwnInv, TaleInv, NEW p \in Proc, pc[p] \in Driver \ {"name"},
           NEW to \in Driver, Goto(p, to), UNCHANGED <<hist, ground, lock>>,
           loc'[p].id = p, to \in Unsent => loc'[p].until = loc[p].until /\ pc[p] \in Unsent,
           loc'[p].pre = loc[p].pre \/ (loc'[p].pre = Top /\ pc[p] \in Unsent),
           loc'[p].committing \/ (loc'[p].committing = loc[p].committing /\ to # "landing"),
           to \in Proven => ground[p] # "none"
    PROVE  Tale(p)' /\ (NotYet(p)' => NotYet(p) /\ rec.id # p)
<1>1. pc'[p] = to BY Parts DEF Goto
<1>2. Top' = Top /\ (\A i : Acts(p, i)' <=> Acts(p, i)) /\ \A i : Ours(p, i)' <=> Ours(p, i)
  BY DEF Top, Acts, Ours
<1>3. Course(p) /\ Top \in Nat BY Parts DEF TaleInv, Tale
<1>4. ~ByNow(p) BY Places DEF ByNow
<1>5. NotYet(p)' <=> to \in Unsent BY <1>1, Places DEF NotYet
<1>6. NotYet(p) <=> pc[p] \in Unsent BY Places DEF NotYet
<1>7. NotYet(p) => ground[p] = "none" /\ rec.id # p /\ \A i \in 1..Top : ~Ours(p, i) BY NotYetFacts
<1>8. Course(p)'
  <2>1. NotYet(p)' => ground'[p] = "none" BY <1>5, <1>6, <1>7
  <2>2. pc'[p] \in Unsent => loc'[p].until = ZeroTime BY <1>1, <1>3 DEF Course
  <2>3. ~\E i \in 1..Top' : Acts(p, i)' BY <1>2, <1>3, <1>4 DEF Course
  <2>4. loc'[p].pre <= Top' /\ \A i \in 1..Top' : Ours(p, i)' => loc'[p].pre < i
    <3>1. CASE loc'[p].pre = loc[p].pre BY <1>2, <1>3, <3>1 DEF Course
    <3>2. CASE loc'[p].pre = Top /\ pc[p] \in Unsent BY <1>2, <1>3, <1>6, <1>7, <3>2
    <3> QED BY <3>1, <3>2
  <2>5. pc'[p] \in Proven => ground'[p] # "none" BY <1>1
  <2>6. pc'[p] = "landing" \/ ground'[p] # "none" => loc'[p].committing
    <3>1. ground[p] # "none" => loc[p].committing
      <4>1. loc[p].id = p BY DEF OwnInv
      <4> QED BY <1>3, <4>1 DEF Course
    <3> QED BY <1>1, <3>1
  <2> QED BY <1>1, <2>1, <2>2, <2>3, <2>4, <2>5, <2>6 DEF Course
<1>9. Weighs(p)' /\ Ends(p)' BY <1>1, Places DEF Weighs, Ends
<1> QED BY <1>5, <1>6, <1>7, <1>8, <1>9 DEF Tale

LEMMA AheadTells ==
    ASSUME TypeInv, OwnInv, TaleInv, NEW p \in Proc, pc[p] \in Driver \ {"name"},
           NEW to \in Driver, Goto(p, to), UNCHANGED <<hist, pend, ground, lock, rec, out>>,
           \A q \in Proc \ {p} : loc'[q] = loc[q],
           loc'[p].id = p, loc'[p].until = loc[p].until, to \in Unsent => pc[p] \in Unsent,
           loc'[p].pre = loc[p].pre \/ (loc'[p].pre = Top /\ pc[p] \in Unsent),
           loc'[p].committing \/ (loc'[p].committing = loc[p].committing /\ to # "landing"),
           to \in Proven => ground[p] # "none"
    PROVE  Tells(p)
<1>1. Tale(p)' /\ (NotYet(p)' => NotYet(p) /\ rec.id # p) BY AheadTale
<1>2. loc[p].id = p BY DEF OwnInv
<1>3. Bounded(loc'[p].id, loc'[p].until) BY <1>2 DEF TaleInv
<1> QED BY <1>1, <1>3 DEF Tells

\* A step that changes nothing of its process but what it has just seen.
Carried(p) ==
    /\ \A q \in Proc \ {p} : loc'[q] = loc[q]
    /\ loc'[p].id = loc[p].id /\ loc'[p].until = loc[p].until
    /\ loc'[p].pre = loc[p].pre /\ loc'[p].committing = loc[p].committing

LEMMA Carries ==
    ASSUME TypeInv, NEW p \in Proc,
           \/ UNCHANGED loc
           \/ \E x : \/ Set(p, [loc[p] EXCEPT !.cand = x]) \/ Set(p, [loc[p] EXCEPT !.bann = x])
                     \/ Set(p, [loc[p] EXCEPT !.noBanner = x]) \/ Set(p, [loc[p] EXCEPT !.ok = x])
                     \/ Set(p, [loc[p] EXCEPT !.pending = x]) \/ Set(p, [loc[p] EXCEPT !.verified = x])
    PROVE  Carried(p)
<1>1. loc[p] \in LocType BY Parts
<1> DEFINE Like(l) == /\ l.id = loc[p].id /\ l.until = loc[p].until
                      /\ l.pre = loc[p].pre /\ l.committing = loc[p].committing
<1>2. \A x : /\ Like([loc[p] EXCEPT !.cand = x]) /\ Like([loc[p] EXCEPT !.bann = x])
             /\ Like([loc[p] EXCEPT !.noBanner = x]) /\ Like([loc[p] EXCEPT !.ok = x])
             /\ Like([loc[p] EXCEPT !.pending = x]) /\ Like([loc[p] EXCEPT !.verified = x])
  BY <1>1 DEF LocType
<1>3. CASE UNCHANGED loc BY <1>3 DEF Carried
<1>4. ASSUME NEW l, Set(p, l), Like(l) PROVE Carried(p)
  <2>1. loc'[p] = l /\ \A q \in Proc \ {p} : loc'[q] = loc[q] BY <1>4, SetIds
  <2> QED BY <1>4, <2>1 DEF Carried
<1> HIDE DEF Like
<1> QED BY <1>2, <1>3, <1>4

LEMMA CarriedTells ==
    ASSUME TypeInv, OwnInv, TaleInv, NEW p \in Proc, pc[p] \in Driver \ {"name"},
           NEW to \in Driver \ {"landing"}, Goto(p, to),
           UNCHANGED <<hist, pend, ground, lock, rec, out>>,
           Carried(p), to \in Unsent => pc[p] \in Unsent, to \in Proven => ground[p] # "none"
    PROVE  Tells(p)
<1>1. loc[p].id = p BY DEF OwnInv
<1> QED BY <1>1, AheadTells DEF Carried

\* Ours on top of the history: there is a fate.
LEMMA OnTopHasFate ==
    ASSUME TypeInv, TaleInv, NEW p \in Proc, OursOnTop(p) PROVE ground[p] # "none"
<1>1. Top \in 1..Top /\ Ours(p, Top) BY Parts DEF OursOnTop, Ours
<1> QED BY <1>1 DEF TaleInv, LedgerInv, Ledger

LEMMA QuietParts == ASSUME Quiet PROVE UNCHANGED <<hist, pend, ground, lock, rec, out>>
BY DEF Quiet, device, files

\* The driver up to the check.
LEMMA EarlyTells ==
    ASSUME TypeInv, OwnInv, TaleInv, NEW p \in Proc,
           Preflight(p) \/ Read(p) \/ OpenLoad(p) \/ Compare(p) \/ CheckState(p) \/ TypeCommit(p)
    PROVE  Tells(p)
<1>0. pc[p] \in Unsent BY DEF Preflight, Read, OpenLoad, Compare, CheckState, TypeCommit, Unsent
<1>1. pc[p] \in Driver \ {"name"} /\ loc[p].id = p BY <1>0, Places DEF OwnInv
<1> DEFINE E == {"failed", "no-change", "interrupted", "failed-load", "failed-check", "checked"}
<1>2. CASE \E e \in E : Stop(p, e) \/ Discard(p, e) BY <1>0, <1>2, EarlyExitTells
<1>3. ASSUME NEW to \in {"open", "compare", "checkState", "check"}, Goto(p, to), Carried(p),
             UNCHANGED <<hist, pend, ground, lock, rec, out>>
      PROVE  Tells(p)
  <2>1. to \in Unsent /\ to \in Driver \ {"landing"} /\ to \notin Proven BY DEF Unsent, Driver, Proven
  <2> QED BY <1>0, <1>1, <1>3, <2>1, CarriedTells
<1>4. CASE Preflight(p) /\ ~\E e \in E : Stop(p, e) \/ Discard(p, e)
  <2> DEFINE l == [loc[p] EXCEPT !.pre = Top]
  <2>1. Set(p, l) /\ Goto(p, "read") /\ Quiet BY <1>4 DEF Preflight
  <2>2. l.id = loc[p].id /\ l.until = loc[p].until /\ l.pre = Top /\ l.committing = loc[p].committing
    <3>1. loc[p] \in LocType BY Parts
    <3> QED BY <3>1 DEF LocType
  <2> HIDE DEF l
  <2>3. loc'[p] = l /\ \A q \in Proc \ {p} : loc'[q] = loc[q] BY <2>1, SetIds
  <2>4. "read" \in Driver \ {"landing"} /\ "read" \notin Proven BY DEF Driver, Proven
  <2> QED BY <1>0, <1>1, <2>1, <2>2, <2>3, <2>4, QuietParts, AheadTells
<1>5. CASE Read(p) /\ ~\E e \in E : Stop(p, e) \/ Discard(p, e)
  <2>1. Goto(p, "open") /\ UNCHANGED loc /\ Quiet BY <1>5 DEF Read
  <2> QED BY <1>3, <2>1, QuietParts, Carries
<1>6. CASE OpenLoad(p) /\ ~\E e \in E : Stop(p, e) \/ Discard(p, e)
  <2>1. /\ Goto(p, "compare") /\ \E x : Set(p, [loc[p] EXCEPT !.cand = x])
        /\ UNCHANGED <<hist, pend, ground, lock, rec, out>>
    BY <1>6 DEF OpenLoad, files
  <2> QED BY <1>3, <2>1, Carries
<1>7. CASE Compare(p) /\ ~\E e \in E : Stop(p, e) \/ Discard(p, e)
  <2>1. Goto(p, "checkState") /\ (\E x : Set(p, [loc[p] EXCEPT !.bann = x])) /\ Quiet
    BY <1>7 DEF Compare, FailExit
  <2> QED BY <1>3, <2>1, QuietParts, Carries
<1>8. CASE CheckState(p) /\ ~\E e \in E : Stop(p, e) \/ Discard(p, e)
  <2>1. Goto(p, "check") /\ UNCHANGED loc /\ Quiet BY <1>8 DEF CheckState, FailExit
  <2> QED BY <1>3, <2>1, QuietParts, Carries
<1>9. CASE TypeCommit(p) /\ ~\E e \in E : Stop(p, e) \/ Discard(p, e)
  <2> DEFINE l == [loc[p] EXCEPT !.pre = Top, !.committing = TRUE, !.win = Window]
  <2>1. Set(p, l) /\ Goto(p, "landing") /\ Quiet BY <1>9 DEF TypeCommit, FailExit
  <2>2. l.id = loc[p].id /\ l.until = loc[p].until /\ l.pre = Top /\ l.committing
    <3>1. loc[p] \in LocType BY Parts
    <3> QED BY <3>1 DEF LocType
  <2> HIDE DEF l
  <2>3. loc'[p] = l /\ \A q \in Proc \ {p} : loc'[q] = loc[q] BY <2>1, SetIds
  <2>4. "landing" \in Driver /\ "landing" \notin Proven BY DEF Driver, Proven
  <2> QED BY <1>0, <1>1, <2>1, <2>2, <2>3, <2>4, QuietParts, AheadTells
<1> QED BY <1>2, <1>4, <1>5, <1>6, <1>7, <1>8, <1>9

\* The verification, the confirm's guards, the reads of the state, the cancel.
LEMMA LateTells ==
    ASSUME TypeInv, NoStray, Told, OwnInv, TaleInv, NEW p \in Proc,
           \/ FreshLogin(p) \/ Landed(p) \/ Converged(p) \/ ConfirmedByOther(p) \/ WindowCheck(p)
           \/ ReadState(p) \/ Cancel(p) \/ Undo(p) \/ UndoCompare(p)
    PROVE  Tells(p)
<1> DEFINE Late == {"landed", "converged", "byOther", "window", "confirm", "undo", "undoCompare",
                    "undoCommit", "cancel", "name"}
           Same == UNCHANGED <<hist, pend, ground, lock, rec, out>>
<1>1. pc[p] \in Driver /\ pc[p] \notin Unsent
  BY DEF FreshLogin, Landed, Converged, ConfirmedByOther, WindowCheck, ReadState, Cancel, Undo,
         UndoCompare, Driver, Unsent
<1>2. loc[p].id = p /\ NoOne # p BY <1>1, ProcAssumption DEF OwnInv
<1>3. ASSUME NEW to \in Late, Goto(p, to), Carried(p), Same, pc[p] # "name",
             to \notin {"cancel", "name"} => ground[p] # "none"
      PROVE  Tells(p)
  <2>1. to \in Driver \ {"landing"} /\ to \notin Unsent BY DEF Driver, Unsent
  <2>2. to \in Proven => to \notin {"cancel", "name"} BY DEF Proven
  <2> QED BY <1>1, <1>3, <2>1, <2>2, CarriedTells
<1>4. ASSUME NEW b \in FreshBanner, SettleRead(p, p, b) PROVE Tells(p)
  BY <1>1, <1>2, <1>4, SettleReadTells
<1>5. CASE \E e \in {"unknown", "window-short"} : Stop(p, e) BY <1>1, <1>5, OpenExitTells
<1>6. pc[p] \in Proven => ground[p] # "none" BY DEF TaleInv, Tale, Course
<1>7. OursOnTop(p) => ground[p] # "none" BY OnTopHasFate
<1>8. Quiet => Same BY QuietParts
<1> DEFINE MovesOnLate == \E to \in Late : Goto(p, to) /\ (to \notin {"cancel", "name"} => ground[p] # "none")
<1>9. CASE FreshLogin(p)
  <2>1. /\ Quiet /\ MovesOnLate /\ pc[p] # "name"
        /\ UNCHANGED loc \/ \E x : Set(p, [loc[p] EXCEPT !.noBanner = x])
    BY <1>7, <1>9 DEF FreshLogin
  <2> QED BY <1>3, <1>8, <2>1, Carries
<1>10. CASE Landed(p)
  <2>1. Quiet /\ MovesOnLate /\ UNCHANGED loc /\ pc[p] # "name" BY <1>6, <1>10 DEF Landed, Proven
  <2> QED BY <1>3, <1>8, <2>1, Carries
<1>11. CASE Converged(p)
  <2>1. /\ Quiet /\ MovesOnLate /\ pc[p] # "name"
        /\ UNCHANGED loc \/ \E x : Set(p, [loc[p] EXCEPT !.verified = x])
    BY <1>6, <1>11 DEF Converged, Proven
  <2> QED BY <1>3, <1>8, <2>1, Carries
<1>12. CASE ConfirmedByOther(p)
  <2>1. pend.on \in FreshBanner BY DEF FreshBanner
  <2>2. CASE Goto(p, "cancel") /\ UNCHANGED loc /\ Quiet
    BY <1>3, <1>8, <1>12, <2>2, Carries DEF ConfirmedByOther
  <2>3. CASE /\ ~pend.on /\ OursOnTop(p)
             /\ Set(p, [loc[p] EXCEPT !.until = ZeroTime])
             /\ Finish(p, "applied-by-other")
             /\ UNCHANGED <<hist, pend, ground, files>>
    <3> DEFINE l == [loc[p] EXCEPT !.until = ZeroTime]
    <3>1. l.id = p /\ l.until = ZeroTime
      <4>1. loc[p] \in LocType BY Parts
      <4> QED BY <1>2, <4>1 DEF LocType
    <3> HIDE DEF l
    <3>2. loc'[p] = l /\ \A q \in Proc \ {p} : loc'[q] = loc[q] BY <2>3, SetIds DEF l
    <3>3. ground[p] # "pending" BY <2>3 DEF NoStray
    <3>4. "c" \in Running
      <4>1. Top \in 1..Top /\ Ours(p, Top) BY <2>3, Parts DEF OursOnTop, Ours
      <4> QED BY <4>1 DEF TaleInv, LedgerInv, Ledger, Running
    <3>5. TrueOf(p, "applied-by-other") BY <3>3, <3>4 DEF TrueOf
    <3>6. "applied-by-other" \in Said BY DEF Said, Exits
    <3>7. UNCHANGED <<hist, pend, ground, rec, lock>> BY <2>3 DEF files
    <3>8. Bounded(loc'[p].id, loc'[p].until) BY <3>1, <3>2, ZeroBounds
    <3> QED BY <1>2, <2>3, <3>1, <3>2, <3>5, <3>6, <3>7, <3>8, QuitTells
  <2> QED BY <1>4, <1>12, <2>1, <2>2, <2>3 DEF ConfirmedByOther
<1>13. CASE WindowCheck(p)
  <2>1. \/ Stop(p, "window-short")
        \/ pc[p] = "window" /\ MovesOnLate /\ UNCHANGED loc /\ Quiet
    BY <1>6, <1>13 DEF WindowCheck, Proven
  <2> QED BY <1>3, <1>5, <1>8, <2>1, Carries
<1>14. CASE ReadState(p)
  <2>1. \/ Stop(p, "unknown")
        \/ pc[p] # "name" /\ MovesOnLate /\ UNCHANGED loc /\ Quiet
        \/ \E b \in FreshBanner : SettleRead(p, p, b)
    BY <1>14 DEF ReadState
  <2> QED BY <1>3, <1>4, <1>5, <1>8, <2>1, Carries
<1>15. CASE Cancel(p)
  <2>1. \/ Stop(p, "unknown")
        \/ /\ pc[p] # "name" /\ MovesOnLate /\ Quiet
           /\ UNCHANGED loc \/ \E x : Set(p, [loc[p] EXCEPT !.pending = x])
        \/ \E b \in FreshBanner : SettleRead(p, p, b)
    BY <1>7, <1>15 DEF Cancel
  <2> QED BY <1>3, <1>4, <1>5, <1>8, <2>1, Carries
<1>16. CASE Undo(p) \/ UndoCompare(p)
  <2>1. /\ pc[p] # "name" /\ MovesOnLate
        /\ UNCHANGED loc \/ \E x : Set(p, [loc[p] EXCEPT !.cand = x])
    <3>1. CASE Undo(p) BY <1>6, <3>1 DEF Undo, Proven
    <3>2. CASE UndoCompare(p) BY <1>6, <3>2 DEF UndoCompare, Proven
    <3> QED BY <1>16, <3>1, <3>2
  <2>2. Same BY <1>16 DEF Undo, UndoCompare, files
  <2> QED BY <1>3, <2>1, <2>2, Carries
<1> QED BY <1>9, <1>10, <1>11, <1>12, <1>13, <1>14, <1>15, <1>16

\* The whole window, from now, covers what is left of it.
LEMMA WindowBounds ==
    ASSUME TypeInv, NoStray, NEW id \in Proc PROVE Bounded(id, Window + SettleSlack)
<1> SUFFICES ASSUME ground[id] = "pending" PROVE pend.left + SettleSlack <= Window + SettleSlack
  BY DEF Bounded, Covers
<1>1. pend.on BY DEF NoStray
<1>2. pend.left \in -ExpiryLag..Window BY <1>1, Parts DEF DeviceOK
<1> QED BY <1>2, TimeFacts

\* The answer to the commit: the window's end and the record of it.
LEMMA AnswerTells ==
    ASSUME TypeInv, NoStray, OwnInv, TaleInv, NEW p \in Proc, Answer(p) PROVE Tells(p)
<1> DEFINE l == [loc[p] EXCEPT !.until = Window + SettleSlack, !.cand = {}]
           r == PendingRecord(p)
<1>1. /\ l.id = loc[p].id /\ l.until = Window + SettleSlack /\ l.pre = loc[p].pre
      /\ l.committing = loc[p].committing
  <2>1. loc[p] \in LocType BY Parts
  <2> QED BY <2>1 DEF LocType
<1>2. r.id = p /\ r.until = Window + SettleSlack /\ r.res = "pending" BY DEF PendingRecord
<1>3. /\ pc[p] = "answer" /\ Set(p, l) /\ (rec' = r \/ rec' = rec)
      /\ \E to \in {"freshLogin", "readState"} : Goto(p, to)
      /\ UNCHANGED <<hist, pend, ground, lock, out>>
  BY DEF Answer, device
<1> HIDE DEF l, r
<1>4. loc'[p] = l /\ \A q \in Proc \ {p} : loc'[q] = loc[q] BY <1>3, SetIds
<1>5. PICK to \in {"freshLogin", "readState"} : Goto(p, to) BY <1>3
<1>6. to \in Driver /\ to \notin Unsent /\ to \notin Proven /\ to # "landing"
  BY DEF Driver, Unsent, Proven
<1>7. pc[p] \in Driver \ {"name"} BY <1>3 DEF Driver
<1>8. loc[p].id = p BY <1>7 DEF OwnInv
<1>9. Tale(p)' BY <1>1, <1>3, <1>4, <1>5, <1>6, <1>7, <1>8, AheadTale
<1>10. Bounded(p, Window + SettleSlack) BY WindowBounds
<1>11. RecOK(r) BY <1>2 DEF RecOK
<1>12. ~NotYet(p)'
  <2>1. pc'[p] = to BY <1>5, Parts DEF Goto
  <2> QED BY <1>6, <2>1, Places DEF NotYet
<1> QED BY <1>1, <1>2, <1>3, <1>4, <1>8, <1>9, <1>10, <1>11, <1>12 DEF Tells

\* The command before its transaction.
LEMMA BeginTells == ASSUME TypeInv, TaleInv, NEW p \in Proc, Begin(p) PROVE Tells(p)
<1> DEFINE l == [Fresh EXCEPT !.id = rec.id, !.until = rec.until]
<1>1. UNCHANGED <<hist, pend, ground, lock, rec, out>> BY QuietParts DEF Begin
<1>2. NotYet(p) /\ pc[p] \notin Driver /\ pc[p] = "idle" BY Places DEF NotYet, Begin
<1>3. ground[p] = "none" /\ rec.id # p /\ (\A i \in 1..Top : ~Acts(p, i)) /\ lock # p
  BY <1>2, NotYetFacts
<1>4. l.id = rec.id /\ l.until = rec.until BY DEF Fresh
<1>5. \/ rec.id \in Proc /\ Set(p, l) /\ Goto(p, "reconcile")
      \/ Set(p, Fresh) /\ Goto(p, "lock")
  BY DEF Begin, TaleInv, RecOK
<1> HIDE DEF l
<1>6. \/ rec.id \in Proc /\ loc'[p] = l /\ pc'[p] = "reconcile"
      \/ loc'[p] = Fresh /\ pc'[p] = "lock"
  BY <1>5, SetIds, Parts DEF Goto
<1>7. \A q \in Proc \ {p} : loc'[q] = loc[q] BY <1>5, SetIds
<1>8. Course(p)'
  <2>1. ~\E i \in 1..Top' : Acts(p, i)' BY <1>1, <1>3 DEF Top, Acts
  <2>2. pc'[p] \in {"reconcile", "lock"} BY <1>6
  <2> QED BY <1>1, <1>3, <2>1, <2>2, Places DEF Course
<1>9. Weighs(p)' /\ Ends(p)' BY <1>4, <1>6, Places, FreshBounds DEF Weighs, Ends
<1>10. Bounded(loc'[p].id, loc'[p].until) BY <1>4, <1>6, FreshBounds DEF TaleInv
<1> QED BY <1>1, <1>2, <1>3, <1>7, <1>8, <1>9, <1>10 DEF Tells, Tale

LEMMA ReconcileTells ==
    ASSUME TypeInv, NoStray, Told, OwnInv, TaleInv, NEW p \in Proc, Reconcile(p) PROVE Tells(p)
<1>1. pc[p] = "reconcile" BY DEF Reconcile
<1>2. loc[p].id \in Proc /\ loc[p].id # p BY <1>1 DEF TaleInv, Tale, Ends, OwnInv
<1>3. CASE Refused(p) BY <1>1, <1>3, RefusedTells, Places
<1>4. CASE ~Refused(p)
  <2>1. \E b \in FreshBanner : SettleRead(p, loc[p].id, b) BY <1>4 DEF Reconcile
  <2> QED BY <1>1, <1>2, <2>1, SettleReadTells
<1> QED BY <1>3, <1>4

LEMMA TakeLockTells == ASSUME TypeInv, TaleInv, NEW p \in Proc, TakeLock(p) PROVE Tells(p)
<1>1. pc[p] = "lock" BY DEF TakeLock
<1>2. NotYet(p) /\ pc[p] \notin Driver \cup Settling /\ Tale(p) BY <1>1, Places DEF NotYet, TaleInv
<1>3. /\ ground[p] = "none" /\ rec.id # p /\ (\A i \in 1..Top : ~Acts(p, i) /\ ~Ours(p, i)) /\ lock # p
      /\ loc[p].id = NoOne
  BY <1>1, <1>2, NotYetFacts DEF Tale, Ends
<1>4. CASE Refused(p) BY <1>1, <1>2, <1>4, RefusedTells
<1>5. CASE Stop(p, "failed")
  <2>1. UNCHANGED <<hist, pend, ground, rec, lock, loc>> /\ Finish(p, "failed") BY <1>5, ExitParts
  <2>2. "failed" \in Said /\ TrueOf(p, "failed") BY <1>2, EarlyExit
  <2>3. Bounded(loc[p].id, loc[p].until) BY DEF TaleInv
  <2> QED BY <1>3, <2>1, <2>2, <2>3, QuitTells
<1>6. CASE ~Refused(p) /\ ~Stop(p, "failed")
  <2> DEFINE l == [Fresh EXCEPT !.id = p]
  <2>1. Set(p, l) /\ Goto(p, "preflight") /\ UNCHANGED <<hist, pend, ground, rec, out>>
    BY <1>6 DEF TakeLock, device
  <2>2. l.id = p /\ l.until = ZeroTime /\ l.pre = 0 BY DEF Fresh
  <2> HIDE DEF l
  <2>3. loc'[p] = l /\ pc'[p] = "preflight" /\ \A q \in Proc \ {p} : loc'[q] = loc[q]
    BY <2>1, SetIds, Parts DEF Goto
  <2>4. "preflight" \in Unsent /\ "preflight" \in Driver BY DEF Unsent, Driver
  <2>5. Course(p)'
    <3>1. Top' = Top /\ Top \in Nat /\ (\A i : Acts(p, i)' <=> Acts(p, i)) /\ \A i : Ours(p, i)' <=> Ours(p, i)
      BY <2>1, Parts DEF Top, Acts, Ours
    <3>2. loc'[p].pre <= Top' BY <2>2, <2>3, <3>1
    <3> QED BY <1>3, <2>1, <2>2, <2>3, <2>4, <3>1, <3>2, Places DEF Course
  <2>6. Weighs(p)' /\ Ends(p)' BY <2>3, <2>4, Places DEF Weighs, Ends
  <2>7. Bounded(loc'[p].id, loc'[p].until) BY <2>2, <2>3, ZeroBounds
  <2> QED BY <1>2, <1>3, <2>1, <2>3, <2>5, <2>6, <2>7 DEF Tells, Tale
<1> QED BY <1>4, <1>5, <1>6

\* The end of the command.
LEMMA OverTells ==
    ASSUME TypeInv, NEW p \in Proc, NEW to \in {"close", "keep", "done", "dead"}, Goto(p, to),
           UNCHANGED <<hist, pend, ground, out>>, lock' # p,
           \A q \in Proc \ {p} : loc'[q] = loc[q], Bounded(loc'[p].id, loc'[p].until), Ends(p)',
           rec' = rec \/ (Bounded(rec'.id, rec'.until) /\ RecOK(rec')),
           pc[p] \in {"reconcile", "compareAgain"} => rec' = rec
    PROVE  Tells(p)
<1>1. pc'[p] = to BY Parts DEF Goto
<1>2. ~NotYet(p)' /\ ByNow(p)' BY <1>1, Places DEF NotYet, ByNow
<1>3. Course(p)' BY <1>1, <1>2, Places DEF Course
<1>4. Weighs(p)' BY <1>1, Places DEF Weighs
<1> QED BY <1>2, <1>3, <1>4 DEF Tells, Tale

LEMMA EndTells ==
    ASSUME TypeInv, TaleInv, NEW p \in Proc, Unlock(p) \/ Close(p) \/ Keep(p) \/ Crash(p)
    PROVE  Tells(p)
<1>1. Course(p) /\ Ends(p) /\ Bounded(loc[p].id, loc[p].until) BY DEF TaleInv, Tale
<1>2. NoOne # p BY ProcAssumption
<1>3. CASE Unlock(p)
  <2> DEFINE l == [Fresh EXCEPT !.id = loc[p].id, !.until = loc[p].until]
  <2>1. /\ pc[p] = "unlock" /\ Set(p, l) /\ Goto(p, "close") /\ UNCHANGED <<hist, pend, ground, out, rec>>
        /\ lock' # p
    BY <1>2, <1>3 DEF Unlock, device
  <2>2. l.id = loc[p].id /\ l.until = loc[p].until BY DEF Fresh
  <2> HIDE DEF l
  <2>3. loc'[p] = l /\ pc'[p] = "close" /\ \A q \in Proc \ {p} : loc'[q] = loc[q]
    BY <2>1, SetIds, Parts DEF Goto
  <2>4. Ends(p)' BY <1>1, <2>1, <2>2, <2>3 DEF Ends
  <2> QED BY <1>1, <2>1, <2>2, <2>3, <2>4, OverTells
<1>4. CASE Close(p)
  <2>1. /\ pc[p] = "close" /\ Goto(p, "keep") /\ UNCHANGED <<hist, pend, ground, out, rec, lock, loc>>
    BY <1>4 DEF Close, files
  <2>2. lock # p BY <1>1, <2>1, Places DEF Course
  <2>3. pc'[p] = "keep" BY <2>1, Parts DEF Goto
  <2>4. Ends(p)' BY <1>1, <2>1, <2>3 DEF Ends
  <2> QED BY <1>1, <2>1, <2>2, <2>4, OverTells
<1>5. CASE Keep(p)
  <2> DEFINE r == AppliedOf(p)
  <2>1. /\ pc[p] = "keep" /\ Set(p, Fresh) /\ Goto(p, "done") /\ UNCHANGED <<hist, pend, ground, out, lock>>
        /\ rec' = rec \/ rec' = r
    BY <1>5 DEF Keep, device
  <2>2. r.id = loc[p].id /\ r.res = ResultOf(out[p]) /\ r.until \in {ZeroTime, loc[p].until}
    BY DEF AppliedOf
  <2> HIDE DEF r
  <2>3. lock # p BY <1>1, <2>1, Places DEF Course
  <2>4. loc'[p] = Fresh /\ pc'[p] = "done" /\ \A q \in Proc \ {p} : loc'[q] = loc[q]
    BY <2>1, SetIds, Parts DEF Goto
  <2>5. Ends(p)' BY <2>4 DEF Ends
  <2>6. Bounded(loc'[p].id, loc'[p].until) BY <2>4, FreshBounds
  <2>7. Bounded(r.id, r.until) BY <1>1, <2>2, ZeroBounds
  <2>8. RecOK(r)
    <3>1. /\ loc[p].id \in {p, NoOne}
          /\ out[p] \notin Open => loc[p].id = NoOne \/ ground[p] # "pending"
          /\ loc[p].id = NoOne => out[p] = "failed"
      BY <1>1, <2>1 DEF Ends
    <3>2. ResultOf(out[p]) \in {"pending", "unknown"} <=> out[p] \in Open
      BY DEF ResultOf, Open
    <3>3. "failed" \notin Open BY DEF Open
    <3> QED BY <1>2, <2>2, <3>1, <3>2, <3>3, ProcAssumption DEF RecOK
  <2> QED BY <2>1, <2>3, <2>4, <2>5, <2>6, <2>7, <2>8, OverTells
<1>6. CASE Crash(p)
  <2>1. Set(p, Fresh) /\ Goto(p, "dead") /\ UNCHANGED <<hist, pend, ground, out, rec>> /\ lock' # p
    BY <1>2, <1>6 DEF Crash
  <2>2. loc'[p] = Fresh /\ pc'[p] = "dead" /\ \A q \in Proc \ {p} : loc'[q] = loc[q]
    BY <2>1, SetIds, Parts DEF Goto
  <2>3. Ends(p)' BY <2>2 DEF Ends
  <2>4. Bounded(loc'[p].id, loc'[p].until) BY <2>2, FreshBounds
  <2> QED BY <2>1, <2>2, <2>3, <2>4, OverTells
<1> QED BY <1>3, <1>4, <1>5, <1>6

LEMMA PanicTells ==
    ASSUME TypeInv, NoStray, TaleInv, NEW p \in Proc, Panic(p) PROVE Tells(p)
<1>1. /\ lock = p /\ pc[p] \in Driver \cup Settling /\ loc[p].id = p /\ NoOne # p
      /\ Bounded(loc[p].id, loc[p].until) /\ loc[p] \in LocType
  BY ProcAssumption, Parts DEF Panic, TaleInv, Tale, Course
<1>2. CASE loc[p].committing
  <2> DEFINE t == IF loc[p].until = ZeroTime THEN Window + SettleSlack ELSE loc[p].until
             l == [loc[p] EXCEPT !.until = t]
  <2>1. Set(p, l) /\ Finish(p, "unknown") /\ UNCHANGED <<hist, pend, ground, rec, lock>>
    BY <1>1, <1>2 DEF Panic, device, files, LocType
  <2>2. Bounded(p, t) BY <1>1, WindowBounds
  <2> HIDE DEF t
  <2>3. l.id = p /\ l.until = t BY <1>1 DEF LocType
  <2> HIDE DEF l
  <2>4. loc'[p] = l /\ \A q \in Proc \ {p} : loc'[q] = loc[q] BY <2>1, SetIds
  <2>5. "unknown" \in Said /\ TrueOf(p, "unknown") BY DEF Said, Exits, TrueOf
  <2> QED BY <1>1, <2>1, <2>2, <2>3, <2>4, <2>5, QuitTells
<1>3. CASE ~loc[p].committing
  <2>1. Discard(p, "failed") BY <1>3 DEF Panic
  <2>2. ground[p] = "none" BY <1>1, <1>3 DEF TaleInv, Tale, Course
  <2>3. "failed" \in Said /\ TrueOf(p, "failed") BY <2>2 DEF Said, Exits, TrueOf
  <2>4. UNCHANGED <<hist, pend, ground, rec, lock, loc>> /\ Finish(p, "failed") BY <2>1, ExitParts
  <2> QED BY <1>1, <2>3, <2>4, QuitTells
<1> QED BY <1>2, <1>3

----------------------------------------------------------------------------
(* The steps that change the device: the check and the three commits.        *)

LEMMA DeviceKeeps ==
    ASSUME TypeInv, TaleInv, NEW p \in Proc, OwnStep(p), Drift(p), LedgerInv', Tale(p)',
           \A q \in Proc \ {p} : loc'[q] = loc[q] /\ out'[q] = out[q], rec' = rec,
           NotYet(p)' => NotYet(p) /\ rec.id # p,
           \A q \in Proc : Bounded(loc[q].id, loc[q].until)',
           Bounded(rec.id, rec.until)', RecOK(rec)', out'[p] # out[p] => TrueOf(p, out[p])'
    PROVE  Truthful
<1>1. \A q \in Proc \ {p} : Steady(q) /\ pc'[q] = pc[q] /\ (lock' = q => lock = q) BY OthersSteady
<1>2. ASSUME NEW q \in Proc PROVE Tale(q)'
  <2>1. CASE q = p BY <2>1
  <2>2. CASE q # p BY <1>1, <2>2, Bystander DEF TaleInv, Who
  <2> QED BY <2>1, <2>2
<1>3. \A q \in Proc : Unnamed(q)' BY NamesKept DEF TaleInv
<1>4. TaleInv' BY <1>2, <1>3 DEF TaleInv
<1>5. \A q \in Proc : out'[q] # out[q] => TrueOf(q, out[q])'
  <2>1. TAKE q \in Proc
  <2>2. CASE q = p BY <2>2
  <2>3. CASE q # p BY <2>3
  <2> QED BY <2>2, <2>3
<1> QED BY <1>4, <1>5 DEF Truthful

\* Nothing waits for a window any more.
LEMMA NoneLeft ==
    ASSUME \A q \in Proc : ground'[q] # "pending", RecOK(rec), rec' = rec
    PROVE  /\ \A q \in Proc : Bounded(loc[q].id, loc[q].until)'
           /\ Bounded(rec.id, rec.until)' /\ RecOK(rec)'
BY DEF Bounded, RecOK

LEMMA CheckTruth ==
    ASSUME TypeInv, OwnInv, WinInv, ChangeInv, TaleInv, NEW p \in Proc, OwnStep(p), Check(p)
    PROVE  Truthful
<1>0. pc[p] = "check" /\ pc[p] \in Unsent /\ pc[p] \in Driver \ {"name"} BY DEF Check, Unsent, Driver
<1> DEFINE E == {"failed", "no-change", "interrupted", "failed-load", "failed-check", "checked"}
<1>1. CASE \E e \in E : Discard(p, e) BY <1>0, <1>1, EarlyExitTells, TellsKeeps
<1>2. CASE ~\E e \in E : Discard(p, e)
  <2>1. /\ ~loc[p].bann /\ excl = p /\ CommitCheck /\ UNCHANGED <<rec, lock, loc>>
        /\ \/ \E e \in {"checked", "interrupted"} : Finish(p, e)
           \/ Goto(p, "commit") /\ UNCHANGED out
    BY <1>2 DEF Check, FailExit, files
  <2>2. ~pend.on BY <1>0, <2>1 DEF ChangeInv, Exact
  <2>3. \A q \in Proc : ground[q] # "pending" BY <2>2 DEF ChangeInv, NoStray
  <2>4. hist' = hist /\ ground' = ground
    <3>1. hist' = hist /\ ground' = Fates(Running, NoOne) BY <2>1 DEF CommitCheck
    <3>2. \A q \in Proc : ground'[q] = ground[q] BY <2>3, <3>1, ProcAssumption DEF Fates
    <3>3. ground' \in [Proc -> Fate4] /\ ground \in [Proc -> Fate4] BY <3>1, Parts, GroundType DEF DeviceOK
    <3> QED BY <3>1, <3>2, <3>3
  <2>5. NotYet(p) /\ loc[p].id = p /\ Tale(p) /\ NoOne # p
    BY <1>0, ProcAssumption DEF NotYet, OwnInv, TaleInv
  <2>6. Drift(p) BY <2>4, StillDrift
  <2>7. LedgerInv'
    <3>1. \A q \in Proc : Ledger(q)' BY <2>1, CheckLedger DEF TaleInv, LedgerInv
    <3> QED BY <3>1 DEF LedgerInv
  <2>8. /\ \A q \in Proc : Bounded(loc[q].id, loc[q].until)'
        /\ Bounded(rec.id, rec.until)' /\ RecOK(rec)'
    BY <2>1, <2>3, <2>4, NoneLeft DEF TaleInv
  <2>9. CASE Goto(p, "commit") /\ UNCHANGED out
    <3>1. "commit" \in Driver /\ "commit" \in Unsent /\ "commit" \notin Proven BY DEF Driver, Unsent, Proven
    <3>2. Tale(p)' /\ (NotYet(p)' => NotYet(p) /\ rec.id # p)
      BY <1>0, <2>1, <2>4, <2>5, <2>9, <3>1, AheadTale
    <3> QED BY <2>1, <2>6, <2>7, <2>8, <2>9, <3>2, DeviceKeeps
  <2>10. CASE \E e \in {"checked", "interrupted"} : Finish(p, e)
    <3>1. PICK e \in {"checked", "interrupted"} : Finish(p, e) BY <2>10
    <3>2. pc'[p] = "unlock" /\ out'[p] = e /\ \A q \in Proc \ {p} : out'[q] = out[q]
      BY <3>1, Parts DEF Finish, Goto
    <3>3. ground[p] = "none" BY <2>5, NotYetFacts
    <3>4. ~NotYet(p)' /\ ByNow(p)' BY <3>2, Places DEF NotYet, ByNow
    <3>5. Course(p)' BY <2>1, <2>5, <3>2, <3>4, Places DEF Course
    <3>6. Weighs(p)' BY <3>2, Places DEF Weighs
    <3>7. Ends(p)' BY <2>1, <2>4, <2>5, <3>2, <3>3 DEF Ends
    <3>8. TrueOf(p, out[p])' BY <2>4, <3>2, <3>3 DEF TrueOf
    <3> QED BY <2>1, <2>6, <2>7, <2>8, <3>2, <3>4, <3>5, <3>6, <3>7, <3>8, DeviceKeeps DEF Tale
  <2> QED BY <2>1, <2>9, <2>10
<1> QED BY <1>1, <1>2

LEMMA LongerDrift ==
    ASSUME NEW p, NEW e, Longer(e), e.by \in {p, NoOne},
           \A q \in Proc : ground[q] \notin {"none", "pending"} => ground'[q] \notin {"none", "pending"},
           \A q \in Proc \ {p} : /\ ground'[q] = "none" <=> ground[q] = "none"
                                 /\ ground'[q] = "pending" => ground[q] = "pending"
    PROVE  Drift(p)
<1>1. /\ Top \in Nat \ {0} /\ Top' = Top + 1 /\ hist'[Top + 1] = e
      /\ \A i \in 1..Top : hist'[i] = hist[i]
      /\ \A i \in 1..Top' : i \in 1..Top \/ i = Top + 1
  BY LongerFacts
<1>2. \A i \in 1..Top' : i \in 1..Top \/ hist'[i].by \in {p, NoOne} BY <1>1
<1>3. Top' \in Nat /\ Top <= Top' BY <1>1
<1> QED BY <1>1, <1>2, <1>3 DEF Drift

LEMMA LandTruth ==
    ASSUME TypeInv, OwnInv, ChangeInv, TaleInv, NEW p \in Proc, OwnStep(p), Land(p)
    PROVE  Truthful
<1>0. /\ pc[p] = "landing" /\ pc[p] \in Unsent /\ pc[p] \in Driver \ {"name"}
      /\ Goto(p, "answer") /\ UNCHANGED <<rec, lock, out>>
  BY DEF Land, Unsent, Driver, files
<1>1. NotYet(p) /\ loc[p].id = p /\ Course(p) /\ Unnamed(p)
  BY <1>0 DEF NotYet, OwnInv, TaleInv, Tale
<1>2. ground[p] = "none" /\ rec.id # p /\ \A i \in 1..Top : ~Acts(p, i) /\ ~Ours(p, i)
  BY <1>1, NotYetFacts
<1>3. Carried(p)
  <2>1. UNCHANGED loc \/ \E x : Set(p, [loc[p] EXCEPT !.ok = x]) BY DEF Land
  <2> QED BY <2>1, Carries
<1>4. "answer" \in Driver \ {"landing"} /\ "answer" \notin Unsent /\ "answer" \notin Proven
  BY DEF Driver, Unsent, Proven
<1>5. CASE UNCHANGED <<hist, pend, ground>>
  <2>1. Tells(p) BY <1>0, <1>3, <1>4, <1>5, CarriedTells
  <2> QED BY <2>1, TellsKeeps
<1>6. CASE ~UNCHANGED <<hist, pend, ground>>
  <2> DEFINE e == [by |-> p, kind |-> "commit", cfg |-> loc[p].cand]
  <2>1. excl = p /\ CommitUnderTimer(p, e) BY <1>6 DEF Land
  <2>2. e \in Entry /\ e.by = p /\ e.kind = "commit" /\ e.cfg = loc[p].cand
    <3>1. loc[p].cand \in Config BY Parts, LocFacts
    <3> QED BY <3>1 DEF Entry
  <2> HIDE DEF e
  <2>3. ~pend.on /\ ShowsChange(Running, loc[p].cand)
    <3>1. ~loc[p].bann BY <1>0 DEF ChangeInv, Noted
    <3> QED BY <1>0, <2>1, <3>1 DEF ChangeInv, Exact
  <2>4. \A q \in Proc : ground[q] # "pending" BY <2>3 DEF ChangeInv, NoStray
  <2>5. "c" \in e.cfg /\ "c" \notin Running BY <2>2, <2>3 DEF ShowsChange
  <2>6. Longer(e) BY <2>1, <2>2, Appended DEF CommitUnderTimer
  <2>7. ground' = [ground EXCEPT ![p] = "pending"] BY <2>1 DEF CommitUnderTimer
  <2>8. ground'[p] = "pending" /\ \A q \in Proc \ {p} : ground'[q] = ground[q]
    BY <2>7, Parts DEF DeviceOK
  <2>9. LedgerInv' BY <1>2, <2>2, <2>4, <2>5, <2>6, <2>7, LandLedger DEF TaleInv
  <2>10. Drift(p) BY <1>2, <2>2, <2>6, <2>8, LongerDrift
  <2>11. pc'[p] = "answer" BY <1>0, Parts DEF Goto
  <2>12. Course(p)'
    <3>1. /\ Top \in Nat \ {0} /\ Top' = Top + 1 /\ hist'[Top + 1] = e
          /\ \A i \in 1..Top : hist'[i] = hist[i]
          /\ \A i \in 1..Top' : i \in 1..Top \/ i = Top + 1
      BY <2>6, LongerFacts
    <3>2. \A i \in 1..Top' : ~Acts(p, i)'
      <4>1. TAKE i \in 1..Top'
      <4>2. CASE i \in 1..Top BY <1>2, <3>1, <4>2 DEF Acts
      <4>3. CASE i = Top + 1 BY <2>2, <3>1, <4>3 DEF Acts
      <4> QED BY <3>1, <4>2, <4>3
    <3>3. \A i \in 1..Top' : Ours(p, i)' => i = Top + 1
      <4>1. TAKE i \in 1..Top'
      <4>2. CASE i \in 1..Top BY <1>2, <3>1, <4>2 DEF Ours
      <4> QED BY <3>1, <4>2
    <3>4. loc[p].pre <= Top /\ loc[p].pre \in Nat /\ loc[p].committing
      BY <1>0, <1>1, Parts, LocFacts DEF Course
    <3>5. loc'[p].pre <= Top' /\ \A i \in 1..Top' : Ours(p, i)' => loc'[p].pre < i
      BY <1>3, <3>1, <3>3, <3>4 DEF Carried
    <3>6. loc'[p].committing /\ loc'[p].id = p BY <1>1, <1>3, <3>4 DEF Carried
    <3>7. ~NotYet(p)' BY <1>4, <2>11, Places DEF NotYet
    <3> QED BY <1>4, <2>11, <3>2, <3>5, <3>6, <3>7 DEF Course
  <2>13. Weighs(p)' /\ Ends(p)' BY <1>4, <2>11, Places DEF Weighs, Ends
  <2>14. ASSUME NEW q \in Proc PROVE Bounded(loc[q].id, loc[q].until)'
    <3>1. CASE q # p
      <4>1. loc'[q].id # p BY <1>1, <1>3, <3>1 DEF Unnamed, Carried
      <4> QED BY <2>4, <2>8, <4>1 DEF Bounded
    <3>2. CASE q = p
      <4>1. loc'[p].until = ZeroTime BY <1>0, <1>1, <1>3 DEF Course, Carried
      <4> QED BY <3>2, <4>1 DEF Bounded, Covers
    <3> QED BY <3>1, <3>2
  <2>15. Bounded(rec.id, rec.until)' /\ RecOK(rec)'
    BY <1>0, <1>2, <2>4, <2>8 DEF TaleInv, Bounded, RecOK
  <2>16. ~NotYet(p)' BY <1>4, <2>11, Places DEF NotYet
  <2> QED BY <1>0, <1>3, <2>9, <2>10, <2>12, <2>13, <2>14, <2>15, <2>16, DeviceKeeps DEF Tale, Carried
<1> QED BY <1>5, <1>6

LEMMA EndTruth ==
    ASSUME TypeInv, OwnInv, ChangeInv, TaleInv, NEW p \in Proc, OwnStep(p), Confirm(p) \/ UndoCommit(p)
    PROVE  Truthful
<1>0. /\ pc[p] \in {"confirm", "undoCommit"} /\ pc[p] \in Proven /\ pc[p] \in Driver \ {"name"}
      /\ Goto(p, "name") /\ UNCHANGED <<rec, lock, out, loc>>
  BY DEF Confirm, UndoCommit, Proven, Driver, files
<1>1. loc[p].id = p /\ Course(p) BY <1>0 DEF OwnInv, TaleInv, Tale
<1>2. ground[p] # "none" /\ loc[p].committing /\ \A i \in 1..Top : ~Acts(p, i)
  <2>1. ~ByNow(p) BY <1>0, Places DEF ByNow
  <2> QED BY <1>0, <1>1, <2>1 DEF Course
<1>3. CASE UNCHANGED <<hist, pend, ground>>
  <2>1. Carried(p) BY <1>0 DEF Carried
  <2>2. "name" \in Driver \ {"landing"} /\ "name" \notin Unsent /\ "name" \notin Proven
    BY DEF Driver, Unsent, Proven
  <2>3. Tells(p) BY <1>0, <1>3, <2>1, <2>2, CarriedTells
  <2> QED BY <2>3, TellsKeeps
<1>4. CASE ~UNCHANGED <<hist, pend, ground>>
  <2>1. loc[p].cand \in Config /\ Running \in Config BY Parts, LocFacts
  <2>2. excl = p /\ \E e \in Entry :
           /\ hist' = Append(hist, e) /\ e.by = p
           /\ \/ e.kind = "confirm" /\ e.cfg = Running /\ ground' = Fates(e.cfg, NoOne)
              \/ e.kind = "cancel" /\ "c" \notin e.cfg /\ ground' = Fates(e.cfg, p)
    <3>1. CASE Confirm(p)
      <4> DEFINE e == [by |-> p, kind |-> "confirm", cfg |-> Running]
      <4>1. e \in Entry /\ e.by = p /\ e.kind = "confirm" /\ e.cfg = Running BY <2>1 DEF Entry
      <4>2. excl = p /\ Commit(e) BY <1>4, <3>1 DEF Confirm
      <4> HIDE DEF e
      <4> QED BY <4>1, <4>2 DEF Commit
    <3>2. CASE UndoCommit(p)
      <4> DEFINE e == [by |-> p, kind |-> "cancel", cfg |-> loc[p].cand]
      <4>1. e \in Entry /\ e.by = p /\ e.kind = "cancel" /\ e.cfg = loc[p].cand BY <2>1 DEF Entry
      <4>2. pc[p] = "undoCommit" /\ excl = p /\ Commit(e) BY <1>4, <3>2 DEF UndoCommit
      <4>3. "c" \notin loc[p].cand BY <4>2 DEF ChangeInv, Noted
      <4> HIDE DEF e
      <4> QED BY <4>1, <4>2, <4>3 DEF Commit
    <3> QED BY <3>1, <3>2
  <2>3. PICK e \in Entry :
           /\ hist' = Append(hist, e) /\ e.by = p
           /\ \/ e.kind = "confirm" /\ e.cfg = Running /\ ground' = Fates(e.cfg, NoOne)
              \/ e.kind = "cancel" /\ "c" \notin e.cfg /\ ground' = Fates(e.cfg, p)
    BY <2>2
  <2>4. Longer(e) BY <2>3, Appended
  <2>5. ASSUME NEW q \in Proc, ground[q] = "pending" PROVE q = p
    <3>1. pend.on BY <2>5 DEF ChangeInv, NoStray
    <3>2. pc[p] \notin Looking BY <1>0 DEF Looking
    <3> QED BY <2>2, <2>5, <3>1, <3>2 DEF ChangeInv, Guarded
  <2>6. LedgerInv' BY <1>2, <2>3, <2>4, <2>5, EndLedger DEF TaleInv
  <2>7. \A q \in Proc : ground'[q] # "pending" BY <2>3, FateOf
  <2>8. \A q \in Proc \ {p} : ground'[q] = ground[q] BY <2>3, <2>5, ProcAssumption, FateOf
  <2>9. ground'[p] # "none"
    <3>1. CASE ground' = Fates(e.cfg, NoOne) BY <1>2, <3>1, ProcAssumption, FateOf
    <3>2. CASE ground' = Fates(e.cfg, p) BY <3>2, FateOf
    <3> QED BY <2>3, <3>1, <3>2
  <2>10. Drift(p)
    <3>1. \A q \in Proc : ground[q] \notin {"none", "pending"} => ground'[q] \notin {"none", "pending"}
      BY <2>7, <2>8, <2>9
    <3> QED BY <2>3, <2>4, <2>8, <3>1, LongerDrift
  <2>11. pc'[p] = "name" BY <1>0, Parts DEF Goto
  <2>12. ~NotYet(p)' /\ ByNow(p)' BY <2>11, Places DEF NotYet, ByNow
  <2>13. Course(p)'
    <3>1. /\ Top \in Nat \ {0} /\ Top' = Top + 1 /\ hist'[Top + 1] = e
          /\ \A i \in 1..Top : hist'[i] = hist[i]
          /\ \A i \in 1..Top' : i \in 1..Top \/ i = Top + 1
      BY <2>4, LongerFacts
    <3>2. e.kind # "commit" BY <2>3
    <3>3. \A i \in 1..Top' : Ours(p, i)' => i \in 1..Top /\ Ours(p, i)
      <4>1. TAKE i \in 1..Top'
      <4>2. CASE i \in 1..Top BY <3>1, <4>2 DEF Ours
      <4>3. CASE i = Top + 1 BY <3>1, <3>2, <4>3 DEF Ours
      <4> QED BY <3>1, <4>2, <4>3
    <3>4. loc[p].pre \in Nat /\ loc[p].pre <= Top /\ \A i \in 1..Top : Ours(p, i) => loc[p].pre < i
      BY <1>0, <1>1, Parts, LocFacts DEF Course
    <3>5. loc'[p].pre <= Top' /\ \A i \in 1..Top' : Ours(p, i)' => loc'[p].pre < i
      BY <1>0, <3>1, <3>3, <3>4
    <3> QED BY <1>0, <1>1, <1>2, <2>11, <2>12, <3>5, Places DEF Course
  <2>14. Weighs(p)' /\ Ends(p)' BY <2>11, Places DEF Weighs, Ends
  <2>15. /\ \A q \in Proc : Bounded(loc[q].id, loc[q].until)'
         /\ Bounded(rec.id, rec.until)' /\ RecOK(rec)'
    BY <1>0, <2>7, NoneLeft DEF TaleInv
  <2> QED BY <1>0, <2>6, <2>10, <2>12, <2>13, <2>14, <2>15, DeviceKeeps DEF Tale
<1> QED BY <1>3, <1>4

LEMMA ProcessOwn ==
    ASSUME TypeInv, OwnInv, NEW p \in Proc, Begin(p) \/ Step(p) \/ Panic(p) \/ Crash(p)
    PROVE  OwnStep(p)
<1>1. CASE DriverStep(p) BY <1>1, DriverStepOwn
<1>2. CASE ~DriverStep(p)
  BY <1>2, DriverOwn, BeginOwn, ReconcileOwn, ComparesOwn, TakeLockOwn, EndOwn, PanicOwn DEF Step
<1> QED BY <1>1, <1>2

LEMMA ProcessTruth ==
    ASSUME TypeInv, OwnInv, WinInv, ChangeInv, TaleInv, Told, NEW p \in Proc,
           Begin(p) \/ Step(p) \/ Panic(p) \/ Crash(p)
    PROVE  Truthful
<1>1. OwnStep(p) /\ NoStray BY ProcessOwn DEF ChangeInv
<1>2. CASE Check(p) \/ Land(p) \/ Confirm(p) \/ UndoCommit(p)
  BY <1>1, <1>2, CheckTruth, LandTruth, EndTruth
<1>3. CASE ~(Check(p) \/ Land(p) \/ Confirm(p) \/ UndoCommit(p))
  <2>1. Tells(p)
    BY <1>1, <1>3, BeginTells, ReconcileTells, ComparesTell, TakeLockTells, EarlyTells, LateTells,
       AnswerTells, EndTells, PanicTells
    DEF Step
  <2> QED BY <1>1, <2>1, TellsKeeps
<1> QED BY <1>2, <1>3

----------------------------------------------------------------------------
(* The world around the commands.                                            *)

LEMMA WorldKeeps ==
    ASSUME TypeInv, TaleInv, Drift(NoOne), LedgerInv', UNCHANGED <<pc, lock, out>>,
           \A q \in Proc : Steady(q), rec'.id = rec.id, rec'.res = rec.res,
           \A q \in Proc : Bounded(loc[q].id, loc[q].until)', Bounded(rec.id, rec.until)'
    PROVE  Truthful
<1>1. ASSUME NEW q \in Proc PROVE Tale(q)'
  BY Bystander, ProcAssumption DEF TaleInv, Who
<1>2. \A q \in Proc : Unnamed(q)' BY DEF TaleInv, Unnamed, NotYet, Steady
<1>3. RecOK(rec)' BY ProcAssumption DEF TaleInv, RecOK, Drift
<1>4. TaleInv' BY <1>1, <1>2, <1>3 DEF TaleInv
<1> QED BY <1>4 DEF Truthful

\* A commit of other people or of the device itself.
LEMMA StrangerTruth ==
    ASSUME TypeInv, TaleInv, Expire \/ StrangerCommit \/ StrangerConfirmed \/ StrangerCheck
    PROVE  Truthful
<1>0. UNCHANGED <<rec, lock, pc, loc, out>>
  BY DEF Expire, StrangerCommit, StrangerConfirmed, StrangerCheck, Stranger
<1>1. \A q \in Proc : Steady(q) BY <1>0 DEF Steady
<1>2. ASSUME NEW e \in Entry, e.by = NoOne, e.kind # "cancel", Commit(e) PROVE Truthful
  <2>1. hist' = Append(hist, e) /\ ground' = Fates(e.cfg, NoOne) BY <1>2 DEF Commit
  <2>2. Longer(e) BY <2>1, Appended
  <2>3. \A q \in Proc : /\ ground[q] # "pending" => ground'[q] = ground[q]
                        /\ ground[q] = "pending" => ground'[q] \in {"kept", "undone"}
                        /\ ground'[q] # "pending"
    BY <2>1, FateOf, ProcAssumption
  <2>4. ASSUME NEW q \in Proc PROVE Ledger(q)'
    <3>1. e.by # q BY <1>2, ProcAssumption
    <3> QED BY <2>2, <2>3, <3>1, OthersCommit DEF TaleInv, LedgerInv
  <2>5. Drift(NoOne) BY <1>2, <2>2, <2>3, LongerDrift
  <2>6. /\ \A q \in Proc : Bounded(loc[q].id, loc[q].until)'
        /\ Bounded(rec.id, rec.until)'
    BY <1>0, <2>3, NoneLeft DEF TaleInv
  <2> QED BY <1>0, <1>1, <2>4, <2>5, <2>6, WorldKeeps DEF LedgerInv
<1>3. CASE Expire
  <2> DEFINE e == [by |-> NoOne, kind |-> "root", cfg |-> pend.before]
  <2>1. e \in Entry /\ e.by = NoOne /\ e.kind # "cancel"
    <3>1. pend.before \in Config BY Parts DEF DeviceOK, PendType
    <3> QED BY <3>1 DEF Entry
  <2>2. Commit(e) BY <1>3 DEF Expire
  <2> HIDE DEF e
  <2> QED BY <1>2, <2>1, <2>2
<1>4. CASE StrangerCommit
  <2>1. PICK cfg \in Config, k \in {"plain", "root"} : Commit([by |-> NoOne, kind |-> k, cfg |-> cfg])
    BY <1>4 DEF StrangerCommit
  <2> DEFINE e == [by |-> NoOne, kind |-> k, cfg |-> cfg]
  <2>2. e \in Entry /\ e.by = NoOne /\ e.kind # "cancel" BY DEF Entry
  <2>3. Commit(e) BY <2>1
  <2> HIDE DEF e
  <2> QED BY <1>2, <2>2, <2>3
<1>5. CASE StrangerConfirmed
  <2>1. PICK cfg \in Config : CommitUnderTimer(NoOne, [by |-> NoOne, kind |-> "plain", cfg |-> cfg])
    BY <1>5 DEF StrangerConfirmed
  <2> DEFINE e == [by |-> NoOne, kind |-> "plain", cfg |-> cfg]
  <2>2. e \in Entry /\ e.by = NoOne /\ e.kind = "plain" BY DEF Entry
  <2>3. CommitUnderTimer(NoOne, e) BY <2>1
  <2>4. "confirmed" \in StrangerOps BY <1>5 DEF StrangerConfirmed, Stranger
  <2> HIDE DEF e
  <2>5. hist' = Append(hist, e) /\ ground' = ground BY <2>3, ProcAssumption DEF CommitUnderTimer
  <2>6. Longer(e) BY <2>2, <2>5, Appended
  <2>7. ASSUME NEW q \in Proc PROVE Ledger(q)'
    <3>1. e.by # q /\ ground'[q] = ground[q] BY <2>2, <2>5, ProcAssumption
    <3> QED BY <2>2, <2>4, <2>6, <3>1, OthersCommit DEF TaleInv, LedgerInv
  <2>8. Drift(NoOne) BY <2>2, <2>5, <2>6, LongerDrift
  <2>9. /\ \A q \in Proc : Bounded(loc[q].id, loc[q].until)'
        /\ Bounded(rec.id, rec.until)'
    BY <2>4 DEF Bounded, Covers
  <2> QED BY <1>0, <1>1, <2>7, <2>8, <2>9, WorldKeeps DEF LedgerInv
<1>6. CASE StrangerCheck
  <2>1. CommitCheck BY <1>6 DEF StrangerCheck
  <2>2. hist' = hist /\ ground' = Fates(Running, NoOne) BY <2>1 DEF CommitCheck
  <2>3. \A q \in Proc : /\ ground[q] # "pending" => ground'[q] = ground[q]
                        /\ ground[q] = "pending" => ground'[q] \in {"kept", "undone"}
                        /\ ground'[q] # "pending"
    BY <2>2, FateOf, ProcAssumption
  <2>4. \A q \in Proc : Ledger(q)' BY <2>1, CheckLedger DEF TaleInv, LedgerInv
  <2>5. Drift(NoOne)
    <3>1. Top' = Top /\ Top \in Nat \ {0} BY <2>2, Parts DEF Top
    <3> QED BY <2>2, <2>3, <3>1 DEF Drift
  <2>6. /\ \A q \in Proc : Bounded(loc[q].id, loc[q].until)'
        /\ Bounded(rec.id, rec.until)'
    BY <1>0, <2>3, NoneLeft DEF TaleInv
  <2> QED BY <1>0, <1>1, <2>4, <2>5, <2>6, WorldKeeps DEF LedgerInv
<1> QED BY <1>3, <1>4, <1>5, <1>6

\* An interrupt, or a session that drops: the device and the files stay.
LEMMA QuietTruth ==
    ASSUME TypeInv, TaleInv, (\E p \in Proc : Interrupt(p) \/ SessionLost(p)) \/ UNCHANGED vars
    PROVE  Truthful
<1>0. UNCHANGED <<hist, pend, ground, rec, lock, pc, loc, out>>
  BY DEF Interrupt, SessionLost, vars, device, files
<1>1. \A q \in Proc : Steady(q) BY <1>0 DEF Steady
<1>2. Drift(NoOne) BY <1>0, StillDrift
<1>3. \A q : Ledger(q)' <=> Ledger(q) BY <1>0, StillTrue
<1>4. LedgerInv' BY <1>3 DEF TaleInv, LedgerInv
<1>5. /\ \A q \in Proc : Bounded(loc[q].id, loc[q].until)'
      /\ Bounded(rec.id, rec.until)'
  BY <1>0 DEF TaleInv, Bounded, Covers
<1> QED BY <1>0, <1>1, <1>2, <1>4, <1>5, WorldKeeps

\* A window and the time a command or a record leaves it run down together.
LEMMA CoveredOn ==
    ASSUME NEW u \in Int, NEW v, v = Left(u), NEW a \in Int, NEW b, b = a - 1,
           u = ZeroTime \/ a + SettleSlack <= u
    PROVE  v = ZeroTime \/ b + SettleSlack <= v
BY TimeFacts DEF Left, ZeroTime

LEMMA TickTruth == ASSUME TypeInv, ChangeInv, TaleInv, Tick PROVE Truthful
<1>0. /\ UNCHANGED <<hist, ground, lock, pc, out>>
      /\ pend' = [pend EXCEPT !.left = IF pend.on THEN @ - 1 ELSE @]
      /\ rec' = [rec EXCEPT !.until = Left(@)]
      /\ loc' = [p \in Proc |-> [loc[p] EXCEPT !.win = Left(@), !.until = Left(@)]]
  BY DEF Tick
<1>1. rec \in RecType /\ pend \in PendType /\ \A q \in Proc : loc[q] \in LocType
  BY Parts DEF DeviceOK
<1>2. rec'.id = rec.id /\ rec'.res = rec.res /\ rec'.until = Left(rec.until)
  BY <1>0, <1>1 DEF RecType
<1>3. ASSUME NEW q \in Proc
      PROVE  Steady(q) /\ loc'[q].id = loc[q].id /\ loc'[q].until = Left(loc[q].until)
  <2>1. loc'[q] = [loc[q] EXCEPT !.win = Left(@), !.until = Left(@)] BY <1>0
  <2>2. /\ loc'[q].id = loc[q].id /\ loc'[q].pre = loc[q].pre
        /\ loc'[q].committing = loc[q].committing /\ loc'[q].len = loc[q].len
        /\ loc'[q].after = loc[q].after /\ loc'[q].before = loc[q].before
        /\ loc'[q].until = Left(loc[q].until)
    BY <1>1, <2>1 DEF LocType
  <2>3. Left(ZeroTime) = ZeroTime BY DEF Left, ZeroTime
  <2> QED BY <1>0, <2>2, <2>3 DEF Steady
<1>4. Drift(NoOne) BY <1>0, StillDrift
<1>5. LedgerInv'
  <2>1. Top' = Top BY <1>0 DEF Top
  <2>2. \A q, i : Ours(q, i)' <=> Ours(q, i) BY <1>0 DEF Ours
  <2>3. ASSUME NEW q \in Proc, Ledger(q) PROVE Ledger(q)'
    BY <1>0, <2>1, <2>2, <2>3 DEF Ledger
  <2> QED BY <2>3 DEF TaleInv, LedgerInv
<1>6. \A id \in Proc : ground[id] = "pending" => pend.left \in Int /\ pend'.left = pend.left - 1
  BY <1>0, <1>1 DEF ChangeInv, NoStray, PendType
<1>7. ASSUME NEW id, NEW u \in Int, Bounded(id, u), NEW v, v = Left(u), id \in Proc, ground[id] = "pending"
      PROVE  v = ZeroTime \/ "confirmed" \in StrangerOps \/ pend'.left + SettleSlack <= v
  BY <1>6, <1>7, CoveredOn DEF Bounded, Covers
<1>8. ASSUME NEW q \in Proc PROVE Bounded(loc[q].id, loc[q].until)'
  <2>1. loc[q].until \in Int /\ Bounded(loc[q].id, loc[q].until) BY <1>1, LocFacts DEF TaleInv
  <2>2. loc[q].id \in Proc /\ ground[loc[q].id] = "pending" =>
          \/ loc'[q].until = ZeroTime \/ "confirmed" \in StrangerOps
          \/ pend'.left + SettleSlack <= loc'[q].until
    BY <1>3, <1>7, <2>1
  <2> QED BY <1>0, <1>3, <2>2 DEF Bounded, Covers
<1>9. Bounded(rec.id, rec.until)'
  <2>1. rec.until \in Int /\ Bounded(rec.id, rec.until) BY <1>1 DEF TaleInv, RecType
  <2>2. rec.id \in Proc /\ ground[rec.id] = "pending" =>
          \/ rec'.until = ZeroTime \/ "confirmed" \in StrangerOps
          \/ pend'.left + SettleSlack <= rec'.until
    BY <1>2, <1>7, <2>1
  <2> QED BY <1>0, <1>2, <2>2 DEF Bounded, Covers
<1> QED BY <1>0, <1>2, <1>3, <1>4, <1>5, <1>8, <1>9, WorldKeeps

LEMMA NextTruth ==
    ASSUME TypeInv, OwnInv, WinInv, ChangeInv, TaleInv, Told, [Next]_vars PROVE Truthful
<1>1. CASE \E p \in Proc : Begin(p) \/ Step(p) \/ Panic(p) \/ Crash(p) BY <1>1, ProcessTruth
<1>2. CASE (\E p \in Proc : Interrupt(p) \/ SessionLost(p)) \/ UNCHANGED vars BY <1>2, QuietTruth
<1>3. CASE Expire \/ StrangerCommit \/ StrangerConfirmed \/ StrangerCheck BY <1>3, StrangerTruth
<1>4. CASE Tick BY <1>4, TickTruth
<1> QED BY <1>1, <1>2, <1>3, <1>4 DEF Next, Fault

LEMMA InitTale == Init => TaleInv
<1> SUFFICES ASSUME Init PROVE TaleInv OBVIOUS
<1>1. Top = 1 /\ hist[1].kind = "plain" BY DEF Init, Top
<1>2. \A p \in Proc : /\ pc[p] = "idle" /\ ground[p] = "none" /\ loc[p].id = NoOne
                      /\ loc[p].until = ZeroTime
  BY DEF Init, Fresh
<1>3. rec.id = NoOne /\ rec.res = "none" /\ lock = NoOne BY DEF Init
<1>4. \A p : \A i \in 1..Top : ~Ours(p, i) /\ ~Acts(p, i) BY <1>1 DEF Ours, Acts
<1>5. LedgerInv BY <1>2, <1>4 DEF LedgerInv, Ledger
<1>6. ASSUME NEW p \in Proc PROVE Tale(p) /\ Unnamed(p) /\ Bounded(loc[p].id, loc[p].until)
  <2>1. Course(p) BY <1>2, <1>3, <1>4, ProcAssumption, Places DEF Course
  <2>2. Weighs(p) /\ Ends(p) BY <1>2, Places DEF Weighs, Ends
  <2>3. Unnamed(p) BY <1>2, <1>3, ProcAssumption DEF Unnamed
  <2>4. Bounded(loc[p].id, loc[p].until) BY <1>2, ProcAssumption DEF Bounded
  <2> QED BY <2>1, <2>2, <2>3, <2>4 DEF Tale
<1>7. Bounded(rec.id, rec.until) /\ RecOK(rec) BY <1>3, ProcAssumption DEF Bounded, RecOK
<1> QED BY <1>5, <1>6, <1>7 DEF TaleInv

LEMMA TruthHolds == ASSUME Told PROVE Spec => [](TypeInv /\ OwnInv /\ WinInv /\ ChangeInv /\ TaleInv)
<1>1. Init => OwnInv BY InitOwn
<1>2. Init => TaleInv BY InitTale
<1>3. TypeInv /\ OwnInv /\ WinInv /\ ChangeInv /\ TaleInv /\ [Next]_vars => OwnInv' /\ TaleInv'
  BY NextOwn, NextTruth DEF Truthful
<1> QED BY <1>1, <1>2, <1>3, Changed, PTL DEF Spec

\* A record that says an apply is over (applied, rolled back, failed, checked)
\* is never on the disk while the device still runs that apply's change under
\* its rollback timer, whoever wrote it: the command itself (appliedOf and keep
\* of cli/device_apply.go) or the settle of a later one.  It holds for every
\* number of commands, strangers and faults, and where a login may print no
\* banner as long as nobody else types confirmed commits.
THEOREM RecordsAreOver == ASSUME Told PROVE Spec => []SettledMeansOver
<1>1. TaleInv => SettledMeansOver BY DEF TaleInv, RecOK, SettledMeansOver
<1> QED BY <1>1, TruthHolds, PTL

\* Every exit the driver names (driver.go, named, and the early returns of run)
\* is what the device did: 'applied' only for a change that is kept, 'rolled
\* back' only for one that is gone, and 'nothing was committed' only when no
\* commit of this apply is in the history.
THEOREM ExitsAreTrue == ASSUME Told PROVE Spec => ExitIsTrue
<1>1. TypeInv /\ OwnInv /\ WinInv /\ ChangeInv /\ TaleInv /\ [Next]_vars =>
        \A p \in Proc : out'[p] # out[p] => TrueOf(p, out[p])'
  BY NextTruth DEF Truthful
<1> QED BY <1>1, TruthHolds, PTL DEF ExitIsTrue, Spec

\* The fate that a later command's settle writes over a record that was open
\* (reconcile.go, byRollbacks; cli settle) is what became of that apply.
THEOREM SettlesAreTrue == ASSUME Told PROVE Spec => SettleIsTrue
<1>1. TypeInv /\ OwnInv /\ WinInv /\ ChangeInv /\ TaleInv /\ [Next]_vars =>
        \A p \in Proc :
          pc[p] \in {"reconcile", "compareAgain"} /\ rec' # rec /\ pc'[p] # pc[p] =>
             TrueOf(rec.id, IF rec.res = "applied" /\ ground[rec.id] # "kept"
                            THEN "applied-by-other" ELSE rec.res)'
  BY NextTruth DEF Truthful, SaysTrue
<1> QED BY <1>1, TruthHolds, PTL DEF SettleIsTrue, Spec

----------------------------------------------------------------------------
(* An open record can be settled.  The history always tells what became of a *)
(* commit it shows, once the time the record gives is over: what has to be   *)
(* kept is that a record that is open gives a time, and for that every        *)
(* process from the typed commit on, and every exit it may leave open.        *)

Dated == {"reconcile", "compareAfter", "compareBefore", "compareAgain", "freshLogin", "landed",
          "converged", "byOther", "window", "confirm", "readState", "name", "cancel", "undo",
          "undoCompare", "undoCommit"}
Ending == {"unlock", "close", "keep"}

DatedProc(p) ==
    /\ loc[p].until >= ZeroTime
    /\ pc[p] \in Dated => loc[p].until >= 0
    /\ pc[p] \in Ending /\ out[p] \in Open => loc[p].until >= 0
DatedRec ==
    /\ rec.until >= ZeroTime
    /\ rec.res \in {"pending", "unknown"} => rec.until >= 0
DateInv == DatedRec /\ \A p \in Proc : DatedProc(p)

\* A step of process p as the invariant sees it.
DateStep(p) ==
    /\ \E to \in Where : pc' = [pc EXCEPT ![p] = to]
    /\ \A q \in Proc \ {p} : loc'[q].until = loc[q].until /\ out'[q] = out[q]
    /\ DatedProc(p)' /\ DatedRec'

LEMMA DateStepKeeps == ASSUME TypeInv, DateInv, NEW p \in Proc, DateStep(p) PROVE DateInv'
<1>1. \A q \in Proc \ {p} : pc'[q] = pc[q] BY Parts DEF DateStep
<1>2. \A q \in Proc \ {p} : DatedProc(q)' BY <1>1 DEF DateStep, DateInv, DatedProc
<1> QED BY <1>2 DEF DateStep, DateInv

\* What the assignments leave of the time.
SameEnd(p) == \A q \in Proc : loc'[q].until = loc[q].until

LEMMA SameEnds ==
    ASSUME TypeInv, NEW p \in Proc,
           \/ Carried(p)
           \/ \E x, y, z : \/ Set(p, [loc[p] EXCEPT !.after = x]) \/ Set(p, [loc[p] EXCEPT !.before = x])
                           \/ Set(p, [loc[p] EXCEPT !.pre = x])
                           \/ Set(p, [loc[p] EXCEPT !.pre = x, !.committing = y, !.win = z])
    PROVE  SameEnd(p)
<1>1. loc[p] \in LocType BY Parts
<1>2. \A x, y, z : /\ [loc[p] EXCEPT !.after = x].until = loc[p].until
                   /\ [loc[p] EXCEPT !.before = x].until = loc[p].until
                   /\ [loc[p] EXCEPT !.pre = x].until = loc[p].until
                   /\ [loc[p] EXCEPT !.pre = x, !.committing = y, !.win = z].until = loc[p].until
  BY <1>1 DEF LocType
<1>3. CASE Carried(p) BY <1>3 DEF Carried, SameEnd
<1>4. ASSUME NEW l, Set(p, l), l.until = loc[p].until PROVE SameEnd(p)
  BY <1>4, SetIds DEF SameEnd
<1>5. ASSUME NEW x, NEW y, NEW z,
             \/ Set(p, [loc[p] EXCEPT !.after = x]) \/ Set(p, [loc[p] EXCEPT !.before = x])
             \/ Set(p, [loc[p] EXCEPT !.pre = x])
             \/ Set(p, [loc[p] EXCEPT !.pre = x, !.committing = y, !.win = z])
      PROVE  SameEnd(p)
  <2>1. CASE Set(p, [loc[p] EXCEPT !.after = x]) BY <1>2, <1>4, <2>1
  <2>2. CASE Set(p, [loc[p] EXCEPT !.before = x]) BY <1>2, <1>4, <2>2
  <2>3. CASE Set(p, [loc[p] EXCEPT !.pre = x]) BY <1>2, <1>4, <2>3
  <2>4. CASE Set(p, [loc[p] EXCEPT !.pre = x, !.committing = y, !.win = z])
    <3>1. [loc[p] EXCEPT !.pre = x, !.committing = y, !.win = z].until = loc[p].until
      BY <1>1 DEF LocType
    <3> QED BY <1>4, <2>4, <3>1
  <2> QED BY <1>5, <2>1, <2>2, <2>3, <2>4
<1> QED BY <1>3, <1>5

LEMMA DatePlaces ==
    /\ Dated \subseteq Where /\ Ending \subseteq Where /\ Dated \cap Ending = {}
    /\ \A e \in {"failed", "no-change", "interrupted", "failed-load", "failed-check", "checked",
                 "nothing-committed", "applied", "applied-by-other", "rolled-back"} : e \notin Open
BY DEF Dated, Ending, Where, Open

\* The process goes on with the time it has.
LEMMA GoesOn ==
    ASSUME TypeInv, DateInv, NEW p \in Proc, NEW to \in Where, Goto(p, to), SameEnd(p),
           UNCHANGED <<rec, out>>, to \in Dated => pc[p] \in Dated,
           to \in Ending => pc[p] \in Ending
    PROVE  DateStep(p)
<1>1. pc' = [pc EXCEPT ![p] = to] /\ pc'[p] = to BY Parts DEF Goto
<1>2. DatedRec' BY DEF DateInv, DatedRec
<1>3. DatedProc(p)' BY <1>1 DEF DateInv, DatedProc, SameEnd
<1> QED BY <1>1, <1>2, <1>3 DEF DateStep, SameEnd

\* It ends: at an exit that may be left open only where there is a time.
LEMMA EndsDated ==
    ASSUME TypeInv, DateInv, NEW p \in Proc, NEW e, Finish(p, e), UNCHANGED rec,
           \A q \in Proc \ {p} : loc'[q].until = loc[q].until,
           loc'[p].until >= ZeroTime, e \in Open => loc'[p].until >= 0
    PROVE  DateStep(p)
<1>1. pc' = [pc EXCEPT ![p] = "unlock"] /\ pc'[p] = "unlock" /\ out'[p] = e
      /\ \A q \in Proc \ {p} : out'[q] = out[q]
  BY Parts DEF Finish, Goto
<1>2. DatedRec' BY DEF DateInv, DatedRec
<1>3. DatedProc(p)' BY <1>1 DEF DatedProc, Dated
<1> QED BY <1>1, <1>2, <1>3 DEF DateStep, Where

LEMMA ExitDated ==
    ASSUME TypeInv, DateInv, NEW p \in Proc, NEW e, Finish(p, e), UNCHANGED rec, SameEnd(p),
           e \in Open => pc[p] \in Dated
    PROVE  DateStep(p)
<1>1. loc[p].until >= ZeroTime /\ (pc[p] \in Dated => loc[p].until >= 0) BY DEF DateInv, DatedProc
<1> QED BY <1>1, EndsDated DEF SameEnd

LEMMA StopDated ==
    ASSUME TypeInv, DateInv, NEW p \in Proc, NEW e, Stop(p, e) \/ Discard(p, e),
           e \in Open => pc[p] \in Dated
    PROVE  DateStep(p)
<1>1. Finish(p, e) /\ UNCHANGED rec /\ UNCHANGED loc BY DEF Stop, Discard, files
<1>2. SameEnd(p) BY <1>1 DEF SameEnd
<1> QED BY <1>1, <1>2, ExitDated

LEMMA RefusedDated == ASSUME TypeInv, DateInv, NEW p \in Proc, Refused(p) PROVE DateStep(p)
<1>1. /\ pc' = [pc EXCEPT ![p] = "done"] /\ pc'[p] = "done" /\ UNCHANGED <<rec, loc>>
      /\ \A q \in Proc \ {p} : out'[q] = out[q]
  BY Parts DEF Refused, Goto, files
<1>2. DatedProc(p)' BY <1>1 DEF DateInv, DatedProc, Dated, Ending
<1> QED BY <1>1, <1>2 DEF DateStep, DateInv, DatedRec, Where

\* The record a later command writes is closed.
LEMMA ReconciledDated ==
    ASSUME TypeInv, DateInv, NEW p \in Proc, NEW e \in Settled, Reconciled(p, e) PROVE DateStep(p)
<1>1. CASE e \in {"pending", "unknown"} BY <1>1, RefusedDated DEF Reconciled
<1>2. CASE e \notin {"pending", "unknown"}
  <2>1. Set(p, Fresh) /\ Goto(p, "lock") /\ UNCHANGED out BY <1>2 DEF Reconciled
  <2>2. rec' = rec \/ rec' = [id |-> loc[p].id, res |-> ResultOf(e), until |-> ZeroTime]
    BY <1>2 DEF Reconciled
  <2>3. ResultOf(e) \notin {"pending", "unknown"} BY <1>2 DEF ResultOf, Settled
  <2>4. DatedRec' BY <2>2, <2>3 DEF DateInv, DatedRec, ZeroTime
  <2>5. loc'[p].until = ZeroTime /\ \A q \in Proc \ {p} : loc'[q] = loc[q]
    BY <2>1, SetIds DEF Fresh
  <2>6. pc' = [pc EXCEPT ![p] = "lock"] /\ pc'[p] = "lock" BY <2>1, Parts DEF Goto
  <2>7. DatedProc(p)' BY <2>5, <2>6 DEF DatedProc, Dated, Ending, ZeroTime
  <2> QED BY <2>1, <2>4, <2>5, <2>6, <2>7 DEF DateStep, Where
<1> QED BY <1>1, <1>2

LEMMA NamedDated ==
    ASSUME TypeInv, DateInv, NEW p \in Proc, NEW e, NEW l \in LocType, l.until >= 0, Named(p, e, l)
    PROVE  DateStep(p)
<1> DEFINE t == IF e \in {"nothing-committed", "applied", "applied-by-other", "rolled-back"} /\ ~l.over
                THEN ZeroTime ELSE l.until
           k == [l EXCEPT !.until = t]
<1>1. l.until \in Int BY LocFacts
<1>2. t >= ZeroTime /\ (e \in Open => t >= 0) BY <1>1 DEF ZeroTime, Open
<1>3. Set(p, k) /\ Finish(p, e) /\ UNCHANGED rec BY DEF Named, files, LocType
<1>4. k.until = t BY DEF LocType
<1> HIDE DEF k, t
<1>5. loc'[p].until = t /\ \A q \in Proc \ {p} : loc'[q].until = loc[q].until BY <1>3, <1>4, SetIds
<1> QED BY <1>2, <1>3, <1>5, EndsDated

LEMMA DecideDated ==
    ASSUME TypeInv, DateInv, NEW p \in Proc, pc[p] \in Dated, NEW e \in Settled, Decide(p, e)
    PROVE  DateStep(p)
<1>1. loc[p] \in LocType /\ loc[p].until >= 0 BY Parts DEF DateInv, DatedProc
<1> QED BY <1>1, NamedDated, ReconciledDated DEF Decide

\* Nothing but a window that stands is over a fate.
LEMMA OverMeans ==
    ASSUME TypeInv, NEW id, NEW pre, NEW until, NEW b \in FreshBanner,
           Settle(id, Top, b, pre, until).over
    PROVE  pend.on /\ pend.left + 1 + SettleSlack >= 0
<1> DEFINE i == OursAt(id, Top)
           f == Fate(i, id)
<1>1. \A e, x : Verdict(e, x, FALSE).over = FALSE BY DEF Verdict
<1>2. f.over = FALSE BY FateType
<1>3. b
  <2> SUFFICES ASSUME ~b PROVE FALSE OBVIOUS
  <2>1. Settle(id, Top, b, pre, until).over = FALSE
    <3>1. Settle(id, Top, b, pre, until) =
            CASE i = 0 /\ pre = Top -> Verdict("nothing-committed", FALSE, FALSE)
               [] i = 0 /\ pre # Top -> Verdict("unknown", FALSE, FALSE)
               [] i = Top /\ until = ZeroTime -> Verdict("unknown", FALSE, FALSE)
               [] i = Top /\ until > 0 -> Verdict("pending", FALSE, FALSE)
               [] i = Top /\ until # ZeroTime /\ until <= 0 -> Verdict("applied-by-other", TRUE, FALSE)
               [] OTHER -> f
      BY DEF Settle
    <3> HIDE DEF i, f
    <3> QED BY <1>1, <1>2, <3>1
  <2> QED BY <2>1
<1>4. pend.on BY <1>3 DEF FreshBanner
<1>5. pend.left \in -ExpiryLag..Window BY <1>4, Parts DEF DeviceOK
<1> QED BY <1>4, <1>5, TimeAssumption

LEMMA SettleReadDated ==
    ASSUME TypeInv, DateInv, NEW p \in Proc, pc[p] \in Dated, NEW id \in Who, NEW b \in FreshBanner,
           SettleRead(p, id, b)
    PROVE  DateStep(p)
<1> DEFINE v == Settle(id, Top, b, IF id = p THEN loc[p].pre ELSE 0, loc[p].until)
           t == IF v.over THEN pend.left + 1 + SettleSlack ELSE loc[p].until
           l == [loc[p] EXCEPT !.id = id, !.len = Top, !.pending = b, !.over = v.over, !.until = t]
<1>0. loc[p] \in LocType /\ loc[p].until \in Int /\ loc[p].until >= 0 /\ b \in BOOLEAN
  BY Parts, LocFacts, BannerType DEF DateInv, DatedProc
<1>1. v.e \in Settled /\ v.over \in BOOLEAN BY SettleType
<1>2. v.over => pend.left + 1 + SettleSlack >= 0 BY OverMeans
<1> HIDE DEF v
<1>3. t \in Int /\ t >= 0
  <2>1. pend.left \in Int BY Parts
  <2> QED BY <1>0, <1>2, <2>1, TimeFacts
<1>4. \/ Set(p, l) /\ Goto(p, "compareAfter") /\ Quiet
      \/ Named(p, v.e, l)
      \/ Reconciled(p, v.e)
  BY <1>0 DEF SettleRead, v, LocType
<1> HIDE DEF t
<1>5. l \in LocType BY <1>0, <1>1, <1>3, Parts, LocFacts
<1>6. l.until = t BY <1>0 DEF LocType
<1> HIDE DEF l
<1>7. CASE Set(p, l) /\ Goto(p, "compareAfter") /\ Quiet
  <2>1. loc'[p].until = t /\ \A q \in Proc \ {p} : loc'[q] = loc[q] BY <1>6, <1>7, SetIds
  <2>2. pc' = [pc EXCEPT ![p] = "compareAfter"] /\ pc'[p] = "compareAfter" BY <1>7, Parts DEF Goto
  <2>3. UNCHANGED <<rec, out>> BY <1>7, QuietParts
  <2>4. DatedProc(p)' BY <1>3, <2>1, <2>2 DEF DatedProc, Ending, ZeroTime
  <2>5. DatedRec' BY <2>3 DEF DateInv, DatedRec
  <2> QED BY <2>1, <2>2, <2>3, <2>4, <2>5 DEF DateStep, Where
<1>8. CASE Named(p, v.e, l) BY <1>3, <1>5, <1>6, <1>8, NamedDated
<1> QED BY <1>1, <1>4, <1>7, <1>8, ReconciledDated

\* The command before its transaction, and the settle it begins with.
LEMMA BeginDated == ASSUME TypeInv, DateInv, NEW p \in Proc, Begin(p) PROVE DateStep(p)
<1> DEFINE l == [Fresh EXCEPT !.id = rec.id, !.until = rec.until]
<1>1. l.until = rec.until /\ Fresh.until = ZeroTime BY DEF Fresh
<1>2. \/ rec.res \in {"pending", "unknown"} /\ Set(p, l) /\ Goto(p, "reconcile")
      \/ Set(p, Fresh) /\ Goto(p, "lock")
  BY DEF Begin
<1> HIDE DEF l
<1>3. UNCHANGED <<rec, out>> BY QuietParts DEF Begin
<1>4. DatedRec /\ DatedRec' BY <1>3 DEF DateInv, DatedRec
<1>5. CASE rec.res \in {"pending", "unknown"} /\ Set(p, l) /\ Goto(p, "reconcile")
  <2>1. loc'[p].until = rec.until /\ \A q \in Proc \ {p} : loc'[q] = loc[q] BY <1>1, <1>5, SetIds
  <2>2. pc' = [pc EXCEPT ![p] = "reconcile"] /\ pc'[p] = "reconcile" BY <1>5, Parts DEF Goto
  <2>3. DatedProc(p)' BY <1>4, <1>5, <2>1, <2>2 DEF DatedProc, DatedRec, Ending
  <2> QED BY <1>3, <1>4, <2>1, <2>2, <2>3 DEF DateStep, Where
<1>6. CASE Set(p, Fresh) /\ Goto(p, "lock")
  <2>1. loc'[p].until = ZeroTime /\ \A q \in Proc \ {p} : loc'[q] = loc[q] BY <1>1, <1>6, SetIds
  <2>2. pc' = [pc EXCEPT ![p] = "lock"] /\ pc'[p] = "lock" BY <1>6, Parts DEF Goto
  <2>3. DatedProc(p)' BY <2>1, <2>2 DEF DatedProc, Dated, Ending, ZeroTime
  <2> QED BY <1>3, <1>4, <2>1, <2>2, <2>3 DEF DateStep, Where
<1> QED BY <1>2, <1>5, <1>6

LEMMA ReconcileDated == ASSUME TypeInv, DateInv, NEW p \in Proc, Reconcile(p) PROVE DateStep(p)
<1>1. pc[p] \in Dated /\ loc[p].id \in Who BY Parts, LocFacts DEF Reconcile, Dated
<1>2. Refused(p) \/ \E b \in FreshBanner : SettleRead(p, loc[p].id, b) BY DEF Reconcile
<1> QED BY <1>1, <1>2, RefusedDated, SettleReadDated

LEMMA ComparesDated ==
    ASSUME TypeInv, DateInv, NEW p \in Proc, CompareAfter(p) \/ CompareBefore(p) \/ CompareAgain(p)
    PROVE  DateStep(p)
<1>1. pc[p] \in Dated BY DEF CompareAfter, CompareBefore, CompareAgain, Dated
<1>2. "unknown" \in Settled /\ Compared(p) \in Settled
  <2>1. loc[p].after \in BOOLEAN /\ loc[p].before \in BOOLEAN BY Parts DEF LocType
  <2> QED BY <2>1 DEF Compared, Settled
<1>3. \/ \E e \in Settled : Decide(p, e)
      \/ /\ \E x : Set(p, [loc[p] EXCEPT !.after = x]) \/ Set(p, [loc[p] EXCEPT !.before = x])
         /\ \E to \in {"compareBefore", "compareAgain"} : Goto(p, to)
         /\ Quiet
  <2>1. CASE CompareAfter(p) BY <1>2, <2>1 DEF CompareAfter
  <2>2. CASE CompareBefore(p) BY <1>2, <2>2 DEF CompareBefore
  <2>3. CASE CompareAgain(p) BY <1>2, <2>3 DEF CompareAgain
  <2> QED BY <2>1, <2>2, <2>3
<1>4. CASE /\ \E x : Set(p, [loc[p] EXCEPT !.after = x]) \/ Set(p, [loc[p] EXCEPT !.before = x])
           /\ \E to \in {"compareBefore", "compareAgain"} : Goto(p, to)
           /\ Quiet
  <2>1. SameEnd(p) BY <1>4, SameEnds
  <2>2. {"compareBefore", "compareAgain"} \subseteq Where \ Ending BY DEF Where, Ending
  <2>3. UNCHANGED <<rec, out>> BY <1>4, QuietParts
  <2> QED BY <1>1, <1>4, <2>1, <2>2, <2>3, GoesOn
<1> QED BY <1>1, <1>3, <1>4, DecideDated

LEMMA TakeLockDated == ASSUME TypeInv, DateInv, NEW p \in Proc, TakeLock(p) PROVE DateStep(p)
<1> DEFINE l == [Fresh EXCEPT !.id = p]
<1>1. l.until = ZeroTime BY DEF Fresh
<1>2. \/ Refused(p) \/ Stop(p, "failed")
      \/ Set(p, l) /\ Goto(p, "preflight") /\ UNCHANGED <<rec, out>>
  BY DEF TakeLock
<1> HIDE DEF l
<1>3. CASE Set(p, l) /\ Goto(p, "preflight") /\ UNCHANGED <<rec, out>>
  <2>1. loc'[p].until = ZeroTime /\ \A q \in Proc \ {p} : loc'[q] = loc[q] BY <1>1, <1>3, SetIds
  <2>2. pc' = [pc EXCEPT ![p] = "preflight"] /\ pc'[p] = "preflight" BY <1>3, Parts DEF Goto
  <2>3. DatedProc(p)' BY <2>1, <2>2 DEF DatedProc, Dated, Ending, ZeroTime
  <2>4. DatedRec' BY <1>3 DEF DateInv, DatedRec
  <2> QED BY <1>3, <2>1, <2>2, <2>3, <2>4 DEF DateStep, Where
<1> QED BY <1>2, <1>3, DatePlaces, RefusedDated, StopDated

\* The transaction up to the typed commit: every exit is a closed one.
LEMMA EarlyDated ==
    ASSUME TypeInv, DateInv, NEW p \in Proc,
           \/ Preflight(p) \/ Read(p) \/ OpenLoad(p) \/ Compare(p) \/ CheckState(p) \/ Check(p)
           \/ TypeCommit(p) \/ Land(p)
    PROVE  DateStep(p)
<1> DEFINE Closed == {"failed", "no-change", "interrupted", "failed-load", "failed-check", "checked"}
           Ahead == {"read", "open", "compare", "checkState", "check", "commit", "landing", "answer"}
<1>1. \A e \in Closed : e \notin Open BY DatePlaces
<1>2. \A to \in Ahead : to \in Where /\ to \notin Dated /\ to \notin Ending BY DEF Where, Dated, Ending
<1>3. ASSUME NEW e \in Closed, Stop(p, e) \/ Discard(p, e) PROVE DateStep(p)
  BY <1>1, <1>3, StopDated
<1>4. ASSUME NEW to \in Ahead, Goto(p, to), SameEnd(p), UNCHANGED <<rec, out>> PROVE DateStep(p)
  BY <1>2, <1>4, GoesOn
<1>5. Quiet => UNCHANGED <<rec, out>> BY QuietParts
<1>6. CASE Preflight(p) \/ Read(p) \/ OpenLoad(p)
  <2>1. \/ \E e \in Closed : Stop(p, e)
        \/ /\ \E to \in Ahead : Goto(p, to)
           /\ UNCHANGED <<rec, out>>
           /\ \/ \E x : Set(p, [loc[p] EXCEPT !.pre = x])
              \/ \E x : Set(p, [loc[p] EXCEPT !.cand = x])
              \/ UNCHANGED loc
    <3>1. CASE Preflight(p) BY <1>5, <3>1 DEF Preflight
    <3>2. CASE Read(p) BY <1>5, <3>2 DEF Read
    <3>3. CASE OpenLoad(p) BY <3>3 DEF OpenLoad, files
    <3> QED BY <1>6, <3>1, <3>2, <3>3
  <2> QED BY <1>3, <1>4, <2>1, SameEnds, Carries
<1>7. CASE Compare(p) \/ CheckState(p) \/ TypeCommit(p)
  <2>1. \/ \E e \in Closed : Discard(p, e)
        \/ /\ \E to \in Ahead : Goto(p, to)
           /\ UNCHANGED <<rec, out>>
           /\ \/ \E x : Set(p, [loc[p] EXCEPT !.bann = x])
              \/ \E x, y, z : Set(p, [loc[p] EXCEPT !.pre = x, !.committing = y, !.win = z])
              \/ UNCHANGED loc
    <3>1. \A e \in {"failed-load", "failed-check"} : FailExit(p, e) \in Closed BY DEF FailExit
    <3>2. CASE Compare(p) BY <1>5, <3>1, <3>2 DEF Compare
    <3>3. CASE CheckState(p) BY <1>5, <3>1, <3>3 DEF CheckState
    <3>4. CASE TypeCommit(p) BY <1>5, <3>1, <3>4 DEF TypeCommit
    <3> QED BY <1>7, <3>2, <3>3, <3>4
  <2>2. (\E x, y, z : Set(p, [loc[p] EXCEPT !.pre = x, !.committing = y, !.win = z])) => SameEnd(p)
    BY SameEnds
  <2>3. (\E x : Set(p, [loc[p] EXCEPT !.bann = x])) \/ UNCHANGED loc => SameEnd(p)
    BY Carries, SameEnds
  <2> QED BY <1>3, <1>4, <2>1, <2>2, <2>3
<1>8. CASE Check(p)
  <2>1. FailExit(p, "failed-check") \in Closed BY DEF FailExit
  <2>2. \/ \E e \in Closed : Discard(p, e)
        \/ Goto(p, "commit") /\ UNCHANGED <<rec, out, loc>>
        \/ (\E e \in Closed : Finish(p, e)) /\ UNCHANGED <<rec, loc>>
    BY <1>8, <2>1 DEF Check, files
  <2>3. UNCHANGED loc => SameEnd(p) BY DEF SameEnd
  <2> QED BY <1>1, <1>3, <1>4, <2>2, <2>3, ExitDated
<1>9. CASE Land(p)
  <2>1. /\ Goto(p, "answer") /\ UNCHANGED <<rec, out>>
        /\ (\E x : Set(p, [loc[p] EXCEPT !.ok = x])) \/ UNCHANGED loc
    BY <1>9 DEF Land, files
  <2> QED BY <1>4, <2>1, Carries, SameEnds
<1> QED BY <1>6, <1>7, <1>8, <1>9

\* The answer to the typed commit: from here on there is a time.
LEMMA AnswerDated == ASSUME TypeInv, DateInv, NEW p \in Proc, Answer(p) PROVE DateStep(p)
<1> DEFINE u == Window + SettleSlack
           l == [loc[p] EXCEPT !.until = u, !.cand = {}]
<1>1. u \in Nat BY TimeFacts
<1>2. l.until = u
  <2>1. loc[p] \in LocType BY Parts
  <2> QED BY <2>1 DEF LocType
<1>3. /\ Set(p, l) /\ UNCHANGED out
      /\ rec' = rec \/ rec' = [id |-> p, res |-> "pending", until |-> u]
      /\ \E to \in {"freshLogin", "readState"} : Goto(p, to)
  BY DEF Answer, PendingRecord
<1> HIDE DEF l, u
<1>4. loc'[p].until = u /\ \A q \in Proc \ {p} : loc'[q] = loc[q] BY <1>2, <1>3, SetIds
<1>5. PICK to \in {"freshLogin", "readState"} : pc' = [pc EXCEPT ![p] = to] BY <1>3 DEF Goto
<1>6. to \in Where BY DEF Where
<1>7. DatedProc(p)' BY <1>1, <1>4 DEF DatedProc, ZeroTime
<1>8. DatedRec' BY <1>1, <1>3 DEF DateInv, DatedRec, ZeroTime
<1> QED BY <1>3, <1>4, <1>5, <1>6, <1>7, <1>8 DEF DateStep

\* The transaction after it.
LEMMA LateDated ==
    ASSUME TypeInv, DateInv, NEW p \in Proc,
           \/ FreshLogin(p) \/ Landed(p) \/ Converged(p) \/ ConfirmedByOther(p) \/ WindowCheck(p)
           \/ Confirm(p) \/ ReadState(p) \/ Cancel(p) \/ Undo(p) \/ UndoCompare(p) \/ UndoCommit(p)
    PROVE  DateStep(p)
<1> DEFINE Late == {"landed", "converged", "byOther", "window", "confirm", "undo", "undoCompare",
                    "undoCommit", "cancel", "name"}
<1>1. pc[p] \in Dated
  BY DEF FreshLogin, Landed, Converged, ConfirmedByOther, WindowCheck, Confirm, ReadState, Cancel,
         Undo, UndoCompare, UndoCommit, Dated
<1>2. \A to \in Late : to \in Where /\ to \notin Ending BY DEF Where, Ending
<1>3. ASSUME NEW to \in Late, Goto(p, to), Carried(p), UNCHANGED <<rec, out>> PROVE DateStep(p)
  BY <1>1, <1>2, <1>3, SameEnds, GoesOn
<1>4. ASSUME NEW b \in FreshBanner, SettleRead(p, p, b) PROVE DateStep(p)
  BY <1>1, <1>4, SettleReadDated DEF Who
<1>5. ASSUME NEW e, Stop(p, e) PROVE DateStep(p) BY <1>1, <1>5, StopDated
<1>6. Quiet => UNCHANGED <<rec, out>> BY QuietParts
<1>7. CASE FreshLogin(p)
  <2>1. /\ Quiet /\ \E to \in Late : Goto(p, to)
        /\ UNCHANGED loc \/ \E x : Set(p, [loc[p] EXCEPT !.noBanner = x])
    BY <1>7 DEF FreshLogin
  <2> QED BY <1>3, <1>6, <2>1, Carries
<1>8. CASE Landed(p)
  <2>1. Quiet /\ (\E to \in Late : Goto(p, to)) /\ UNCHANGED loc BY <1>8 DEF Landed
  <2> QED BY <1>3, <1>6, <2>1, Carries
<1>9. CASE Converged(p)
  <2>1. /\ Quiet /\ \E to \in Late : Goto(p, to)
        /\ UNCHANGED loc \/ \E x : Set(p, [loc[p] EXCEPT !.verified = x])
    BY <1>9 DEF Converged
  <2> QED BY <1>3, <1>6, <2>1, Carries
<1>10. CASE ConfirmedByOther(p)
  <2>1. pend.on \in FreshBanner BY DEF FreshBanner
  <2>2. CASE Goto(p, "cancel") /\ UNCHANGED loc /\ Quiet BY <1>3, <1>6, <2>2, Carries
  <2>3. CASE /\ Set(p, [loc[p] EXCEPT !.until = ZeroTime])
             /\ Finish(p, "applied-by-other") /\ UNCHANGED files
    <3> DEFINE l == [loc[p] EXCEPT !.until = ZeroTime]
    <3>1. l.until = ZeroTime
      <4>1. loc[p] \in LocType BY Parts
      <4> QED BY <4>1 DEF LocType
    <3> HIDE DEF l
    <3>2. loc'[p] = l /\ \A q \in Proc \ {p} : loc'[q] = loc[q] BY <2>3, SetIds DEF l
    <3>3. loc'[p].until >= ZeroTime BY <3>1, <3>2 DEF ZeroTime
    <3>4. UNCHANGED rec /\ "applied-by-other" \notin Open BY <2>3, DatePlaces DEF files
    <3> QED BY <2>3, <3>2, <3>3, <3>4, EndsDated
  <2> QED BY <1>4, <1>10, <2>1, <2>2, <2>3 DEF ConfirmedByOther
<1>11. CASE WindowCheck(p)
  <2>1. Stop(p, "window-short") \/ ((\E to \in Late : Goto(p, to)) /\ UNCHANGED loc /\ Quiet)
    BY <1>11 DEF WindowCheck
  <2> QED BY <1>3, <1>5, <1>6, <2>1, Carries
<1>12. CASE ReadState(p)
  <2>1. \/ Stop(p, "unknown")
        \/ Goto(p, "cancel") /\ UNCHANGED loc /\ Quiet
        \/ \E b \in FreshBanner : SettleRead(p, p, b)
    BY <1>12 DEF ReadState
  <2> QED BY <1>3, <1>4, <1>5, <1>6, <2>1, Carries
<1>13. CASE Cancel(p)
  <2>1. \/ Stop(p, "unknown")
        \/ /\ (\E to \in Late : Goto(p, to)) /\ Quiet
           /\ UNCHANGED loc \/ \E x : Set(p, [loc[p] EXCEPT !.pending = x])
        \/ \E b \in FreshBanner : SettleRead(p, p, b)
    BY <1>13 DEF Cancel
  <2> QED BY <1>3, <1>4, <1>5, <1>6, <2>1, Carries
<1>14. CASE Confirm(p) \/ Undo(p) \/ UndoCompare(p) \/ UndoCommit(p)
  <2>1. /\ \E to \in Late : Goto(p, to)
        /\ UNCHANGED loc \/ \E x : Set(p, [loc[p] EXCEPT !.cand = x])
        /\ UNCHANGED <<rec, out>>
    <3>1. CASE Confirm(p) BY <3>1 DEF Confirm, files
    <3>2. CASE Undo(p) BY <3>2 DEF Undo, files
    <3>3. CASE UndoCompare(p) BY <3>3 DEF UndoCompare, files
    <3>4. CASE UndoCommit(p) BY <3>4 DEF UndoCommit, files
    <3> QED BY <1>14, <3>1, <3>2, <3>3, <3>4
  <2> QED BY <1>3, <2>1, Carries
<1> QED BY <1>7, <1>8, <1>9, <1>10, <1>11, <1>12, <1>13, <1>14

\* The end of the command: the record of an exit that is open carries its time.
LEMMA EndDated ==
    ASSUME TypeInv, DateInv, NEW p \in Proc, Unlock(p) \/ Close(p) \/ Keep(p) \/ Crash(p)
    PROVE  DateStep(p)
<1>0. DatedProc(p) /\ DatedRec BY DEF DateInv
<1>1. CASE Unlock(p)
  <2> DEFINE l == [Fresh EXCEPT !.id = loc[p].id, !.until = loc[p].until]
  <2>1. l.until = loc[p].until BY DEF Fresh
  <2>2. Set(p, l) /\ Goto(p, "close") /\ UNCHANGED <<rec, out>> /\ pc[p] \in Ending
    BY <1>1 DEF Unlock, Ending
  <2> HIDE DEF l
  <2>3. SameEnd(p) BY <2>1, <2>2, SetIds DEF SameEnd
  <2>4. "close" \in Where /\ "close" \notin Dated BY DEF Where, Dated
  <2> QED BY <2>2, <2>3, <2>4, GoesOn
<1>2. CASE Close(p)
  <2>1. Goto(p, "keep") /\ UNCHANGED <<rec, out, loc>> /\ pc[p] \in Ending
    BY <1>2 DEF Close, files, Ending
  <2>2. SameEnd(p) BY <2>1 DEF SameEnd
  <2>3. "keep" \in Where /\ "keep" \notin Dated BY DEF Where, Dated
  <2> QED BY <2>1, <2>2, <2>3, GoesOn
<1>3. ASSUME NEW to \in {"done", "dead"}, Goto(p, to), Set(p, Fresh), UNCHANGED out, DatedRec'
      PROVE  DateStep(p)
  <2>1. loc'[p].until = ZeroTime /\ \A q \in Proc \ {p} : loc'[q] = loc[q] BY <1>3, SetIds DEF Fresh
  <2>2. pc' = [pc EXCEPT ![p] = to] /\ pc'[p] = to BY <1>3, Parts DEF Goto
  <2>3. to \in Where /\ to \notin Dated /\ to \notin Ending BY DEF Where, Dated, Ending
  <2>4. DatedProc(p)' BY <2>1, <2>2, <2>3 DEF DatedProc, ZeroTime
  <2> QED BY <1>3, <2>1, <2>2, <2>3, <2>4 DEF DateStep
<1>4. CASE Crash(p)
  <2>1. Goto(p, "dead") /\ Set(p, Fresh) /\ UNCHANGED <<rec, out>> BY <1>4 DEF Crash
  <2>2. DatedRec' BY <1>0, <2>1 DEF DatedRec
  <2> QED BY <1>3, <2>1, <2>2
<1>5. CASE Keep(p)
  <2>1. Goto(p, "done") /\ Set(p, Fresh) /\ UNCHANGED out /\ (rec' = rec \/ rec' = AppliedOf(p))
    BY <1>5 DEF Keep
  <2>2. CASE rec' = AppliedOf(p)
    <3>1. /\ rec'.res = ResultOf(out[p])
          /\ rec'.until = IF out[p] \in {"applied", "applied-by-other"} THEN ZeroTime ELSE loc[p].until
      BY <2>2 DEF AppliedOf
    <3>2. ResultOf(out[p]) \in {"pending", "unknown"} => out[p] \in Open
      <4>1. out[p] \in Exits BY Parts
      <4> QED BY <4>1 DEF ResultOf, Open, Exits
    <3>3. out[p] \in Open => loc[p].until >= 0 /\ out[p] \notin {"applied", "applied-by-other"}
      BY <1>0, <1>5, DatePlaces DEF DatedProc, Keep, Ending
    <3>4. loc[p].until >= ZeroTime BY <1>0 DEF DatedProc
    <3>5. DatedRec' BY <3>1, <3>2, <3>3, <3>4 DEF DatedRec, ZeroTime
    <3> QED BY <1>3, <2>1, <3>5
  <2>3. CASE rec' = rec
    <3>1. DatedRec' BY <1>0, <2>3 DEF DatedRec
    <3> QED BY <1>3, <2>1, <3>1
  <2> QED BY <2>1, <2>2, <2>3
<1> QED BY <1>1, <1>2, <1>4, <1>5

\* guarded: a panic after the commit was typed gives the record the whole window.
LEMMA PanicDated == ASSUME TypeInv, DateInv, NEW p \in Proc, Panic(p) PROVE DateStep(p)
<1>1. CASE Discard(p, "failed") BY <1>1, DatePlaces, StopDated
<1>2. CASE ~Discard(p, "failed")
  <2> DEFINE t == IF loc[p].until = ZeroTime THEN Window + SettleSlack ELSE loc[p].until
             l == [loc[p] EXCEPT !.until = t]
  <2>1. loc[p] \in LocType /\ loc[p].until \in Int /\ loc[p].until >= ZeroTime
    BY Parts, LocFacts DEF DateInv, DatedProc
  <2>2. t >= 0 BY <2>1, TimeFacts DEF ZeroTime
  <2>3. Set(p, l) /\ Finish(p, "unknown") /\ UNCHANGED rec BY <1>2, <2>1 DEF Panic, files, LocType
  <2>4. l.until = t BY <2>1 DEF LocType
  <2>5. t >= ZeroTime BY <2>1, TimeFacts DEF ZeroTime
  <2> HIDE DEF l, t
  <2>6. loc'[p].until = t /\ \A q \in Proc \ {p} : loc'[q].until = loc[q].until BY <2>3, <2>4, SetIds
  <2> QED BY <2>2, <2>3, <2>5, <2>6, EndsDated
<1> QED BY <1>1, <1>2

LEMMA NextDated == ASSUME TypeInv, DateInv, [Next]_vars PROVE DateInv'
<1>1. ASSUME NEW p \in Proc, Begin(p) \/ Step(p) \/ Panic(p) \/ Crash(p) PROVE DateInv'
  <2>1. DateStep(p)
    BY <1>1, BeginDated, ReconcileDated, ComparesDated, TakeLockDated, EarlyDated, AnswerDated,
       LateDated, EndDated, PanicDated
    DEF Step
  <2> QED BY <2>1, DateStepKeeps
<1>2. CASE UNCHANGED <<rec, pc, loc, out>> BY <1>2 DEF DateInv, DatedRec, DatedProc
<1>3. CASE Tick
  <2>1. rec \in RecType /\ \A q \in Proc : loc[q] \in LocType BY Parts
  <2>2. rec'.res = rec.res /\ rec'.until = Left(rec.until) /\ rec.until \in Int
    BY <1>3, <2>1 DEF Tick, RecType
  <2>3. \A q \in Proc : loc'[q].until = Left(loc[q].until) /\ loc[q].until \in Int
    BY <1>3, <2>1 DEF Tick, LocType
  <2>4. \A x \in Int : (x >= ZeroTime => Left(x) >= ZeroTime) /\ (x >= 0 => Left(x) >= 0)
    BY DEF Left, ZeroTime
  <2>5. UNCHANGED <<pc, out>> BY <1>3 DEF Tick
  <2>6. DatedRec' BY <2>2, <2>4 DEF DateInv, DatedRec
  <2>7. \A q \in Proc : DatedProc(q)' BY <2>3, <2>4, <2>5 DEF DateInv, DatedProc
  <2> QED BY <2>6, <2>7 DEF DateInv
<1>4. CASE \/ \E p \in Proc : Interrupt(p) \/ SessionLost(p)
           \/ Expire \/ StrangerCommit \/ StrangerConfirmed \/ StrangerCheck \/ UNCHANGED vars
  BY <1>2, <1>4 DEF Interrupt, SessionLost, Expire, StrangerCommit, StrangerConfirmed, StrangerCheck,
                    Stranger, vars, files
<1> QED BY <1>1, <1>3, <1>4 DEF Next, Fault

LEMMA InitDated == Init => DateInv
BY DEF Init, DateInv, DatedRec, DatedProc, Fresh, ZeroTime, Dated, Ending

\* With the ledger of the history, the time is all that was missing.
LEMMA DatedSettles == ASSUME TypeInv, LedgerInv, DateInv PROVE OpenRecordSettles
<1> DEFINE q == rec.id
           i == OursAt(q, Top)
           f == Fate(i, q)
           v == Settle(q, Top, pend.on, 0, rec.until)
<1> SUFFICES ASSUME q \in Proc, rec.res \in {"pending", "unknown"}, ~pend.on, rec.until <= 0,
                    Comparable(q, Top), Running \in {hist[i].cfg, hist[i - 1].cfg}
             PROVE  FateNow \in {"applied", "applied-by-other", "rolled-back"}
  BY DEF OpenRecordSettles
<1>1. rec.until = 0
  <2>1. rec.until \in Int /\ rec.until >= 0 BY Parts DEF DateInv, DatedRec, RecType
  <2> QED BY <2>1
<1>2. Top \in Nat \ {0} /\ Top \in 1..Top BY Parts
<1>3. Ours(q, i) /\ i \in 1..Top /\ i > 1 BY <1>2, OursAtIs DEF LedgerInv, Comparable
<1>4. hist[i].cfg # hist[i - 1].cfg BY <1>3 DEF LedgerInv, Ledger
<1>5. v = IF i = Top THEN Verdict("applied-by-other", TRUE, FALSE) ELSE f
  <2>1. i # 0 BY <1>3
  <2> HIDE DEF i
  <2> QED BY <1>1, <2>1 DEF Settle, ZeroTime, i
<1>6. v.facts \/ v.e \in {"applied", "rolled-back"}
  <2>1. f.facts \/ f.e \in {"applied", "rolled-back"} BY DEF Fate, Verdict
  <2>2. Verdict("applied-by-other", TRUE, FALSE).facts BY DEF Verdict
  <2> HIDE DEF v, f
  <2> QED BY <1>5, <2>1, <2>2
<1>7. FateNow = CASE ~v.facts -> v.e
                  [] v.facts /\ Running = hist[i].cfg /\ Running # hist[i - 1].cfg -> "applied-by-other"
                  [] v.facts /\ Running # hist[i].cfg /\ Running = hist[i - 1].cfg -> "rolled-back"
                  [] OTHER -> "unknown"
  BY DEF FateNow
<1> HIDE DEF v, i, q
<1> QED BY <1>4, <1>6, <1>7

\* No apply leaves the device refused for ever: the record every death, lost
\* session, interrupt and panic leaves open (guarded, named and appliedOf) gives
\* the time its window ends, and once that is over the next command's settle
\* (reconcile.go) finds what became of it, for any number of commands and
\* strangers, as long as the device shows the commit and runs what it ran before
\* or after it.
THEOREM OpenRecordsSettle == ASSUME Told PROVE Spec => []OpenRecordSettles
<1>1. Init => DateInv BY InitDated
<1>2. TypeInv /\ DateInv /\ [Next]_vars => DateInv' BY NextDated
<1>3. TypeInv /\ TaleInv /\ DateInv => OpenRecordSettles BY DatedSettles DEF TaleInv
<1> QED BY <1>1, <1>2, <1>3, TruthHolds, PTL DEF Spec

============================================================================
