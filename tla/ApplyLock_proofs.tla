-------------------------- MODULE ApplyLock_proofs --------------------------
(***************************************************************************)
(* Proofs about ApplyLock, for every set of processes and every bound.     *)
(* The inductive invariant is FlockIsDepth with what ties the other places *)
(* to the flock: a process in the flock loop or in the probe holds no      *)
(* level, the probe holds the flock, and every release function that has   *)
(* not run was issued.                                                     *)
(***************************************************************************)
EXTENDS ApplyLock, FiniteSetTheorems, TLAPS

\* The strengthening of FlockIsDepth that a step preserves.
IInv ==
    /\ TypeOK
    /\ FlockIsDepth
    /\ \A p \in Proc : pc[p] # "run" => depth[p] = 0
    /\ \A p \in Proc : pc[p] = "probe" <=> flock = <<p, "probe">>
    /\ \A p \in Proc : live[p] \subseteq 1..issued[p]
    /\ \A p \in Proc : pc[p] \in {"try", "wait"} => issued[p] < MaxAcquire

\* One more release function is one more level (Enter).
LEMMA EnterCount ==
    ASSUME NEW n \in Nat, NEW S \in SUBSET (1..n)
    PROVE  /\ S \cup {n + 1} \in SUBSET (1..(n + 1))
           /\ Cardinality(S \cup {n + 1}) = Cardinality(S) + 1
<1>0. IsFiniteSet(1..n) BY FS_Interval
<1>1. IsFiniteSet(S) BY <1>0, FS_Subset
<1>2. n + 1 \notin S OBVIOUS
<1> QED BY <1>1, <1>2, FS_AddElement

\* A release function that has not run is one level, and one fewer afterwards.
LEMMA ReleaseCount ==
    ASSUME NEW n \in Nat, NEW S \in SUBSET (1..n), NEW h \in S
    PROVE  /\ Cardinality(S) \in Nat /\ Cardinality(S) > 0
           /\ Cardinality(S \ {h}) = Cardinality(S) - 1
<1>0. IsFiniteSet(1..n) BY FS_Interval
<1>1. IsFiniteSet(S) BY <1>0, FS_Subset
<1>2. Cardinality(S) \in Nat BY <1>1, FS_CardinalityType
<1>3. Cardinality(S) # 0 BY <1>1, FS_EmptySet
<1> QED BY <1>1, <1>2, <1>3, FS_RemoveElement

\* Descriptions are told apart, and none is NoOne.
LEMMA Distinct ==
    /\ \A p \in Proc : <<p, "lock">> # NoOne /\ <<p, "probe">> # NoOne
    /\ \A p, q \in Proc : <<p, "lock">> # <<q, "probe">>
    /\ \A p, q \in Proc : <<p, "lock">> = <<q, "lock">> => p = q
    /\ \A p, q \in Proc : <<p, "probe">> = <<q, "probe">> => p = q
<1>1. \A p \in Proc : <<p, "lock">> \in Proc \X {"lock", "probe"}
  OBVIOUS
<1>2. \A p \in Proc : <<p, "probe">> \in Proc \X {"lock", "probe"}
  OBVIOUS
<1> QED BY <1>1, <1>2, ProcAssumption

\* Nothing is held at the start.
LEMMA InitIInv == Init => IInv
BY FS_EmptySet, ProcAssumption, BoundAssumption DEF Init, IInv, TypeOK, FlockIsDepth, Holds, Where, Description

\* Every step of every process preserves the invariant.
LEMMA NextIInv == IInv /\ [Next]_vars => IInv'
<1> SUFFICES ASSUME IInv, [Next]_vars PROVE IInv' OBVIOUS
<1> USE ProcAssumption, BoundAssumption
<1>1. CASE UNCHANGED vars
  BY <1>1 DEF vars, IInv, TypeOK, FlockIsDepth, Holds
<1>2. ASSUME NEW p \in Proc, AcquireNested(p) \/ TryTaken(p) PROVE IInv'
  <2>1. /\ issued[p] \in Nat /\ issued[p] < MaxAcquire
        /\ live[p] \in SUBSET (1..issued[p])
    BY <1>2 DEF IInv, TypeOK, AcquireNested, TryTaken, Goto
  <2>2. /\ live[p] \cup {issued[p] + 1} \in SUBSET (1..(issued[p] + 1))
        /\ Cardinality(live[p] \cup {issued[p] + 1}) = Cardinality(live[p]) + 1
    BY <2>1, EnterCount
  <2>3. CASE AcquireNested(p)
    BY <2>1, <2>2, <2>3 DEF AcquireNested, Enter, IInv, TypeOK, FlockIsDepth, Holds
  <2>4. CASE TryTaken(p)
    BY <2>1, <2>2, <2>4
    DEF TryTaken, Goto, Enter, IInv, TypeOK, FlockIsDepth, Holds, Where, Description
  <2> QED BY <1>2, <2>3, <2>4
<1>3. ASSUME NEW p \in Proc, NEW h \in 1..MaxAcquire, Release(p, h) PROVE IInv'
  <2>1. issued[p] \in Nat /\ live[p] \in SUBSET (1..issued[p]) /\ h \in live[p]
    BY <1>3 DEF IInv, TypeOK, Release
  <2>2. /\ Cardinality(live[p]) \in Nat /\ Cardinality(live[p]) > 0
        /\ Cardinality(live[p] \ {h}) = Cardinality(live[p]) - 1
    BY <2>1, ReleaseCount
  <2>3. depth[p] = Cardinality(live[p]) /\ flock = <<p, "lock">>
    BY <2>2 DEF IInv, FlockIsDepth, Holds
  <2> QED BY <1>3, <2>1, <2>2, <2>3
      DEF Release, IInv, TypeOK, FlockIsDepth, Holds, Description
<1>4. ASSUME NEW p \in Proc, Exit(p) PROVE IInv'
  <2>1. Cardinality({}) = 0 BY FS_EmptySet
  <2>2. TypeOK' BY <1>4 DEF Exit, IInv, TypeOK, Where
  <2>3. ASSUME NEW q \in Proc, q # p
        PROVE  /\ pc'[q] = pc[q] /\ depth'[q] = depth[q] /\ live'[q] = live[q]
               /\ flock' = <<q, "lock">> <=> flock = <<q, "lock">>
               /\ flock' = <<q, "probe">> <=> flock = <<q, "probe">>
    BY <1>4, <2>3, Distinct DEF Exit, IInv, TypeOK
  <2>4. /\ pc'[p] = "dead" /\ depth'[p] = 0 /\ live'[p] = {} /\ issued' = issued
        /\ flock' # <<p, "lock">> /\ flock' # <<p, "probe">>
    BY <1>4, Distinct DEF Exit, IInv, TypeOK
  <2>5. ASSUME NEW q \in Proc
        PROVE  /\ depth'[q] > 0 <=> flock' = <<q, "lock">>
               /\ depth'[q] = Cardinality(live'[q])
    <3>1. CASE q = p BY <2>1, <2>4, <3>1
    <3>2. CASE q # p BY <2>3, <3>2 DEF IInv, FlockIsDepth, Holds
    <3> QED BY <3>1, <3>2
  <2>6. FlockIsDepth'
    BY <2>5 DEF FlockIsDepth, Holds
  <2> QED BY <2>2, <2>3, <2>4, <2>6 DEF IInv
<1>5. ASSUME NEW p \in Proc,
             \/ AcquireOpen(p) \/ TryBusy(p) \/ TryFails(p)
             \/ WaitTick(p) \/ WaitCancelled(p) \/ Interrupt(p)
      PROVE  IInv'
  <2> USE <1>5 DEF AcquireOpen, TryBusy, TryFails, WaitTick, WaitCancelled, Interrupt, Goto
  <2>1. /\ UNCHANGED <<flock, depth, issued, live, probes>>
        /\ pc' \in [Proc -> Where]
        /\ \A q \in Proc : q # p => pc'[q] = pc[q]
        /\ pc'[p] # pc[p] => pc[p] # "probe" /\ pc'[p] # "probe" /\ depth[p] = 0
        /\ pc'[p] \in {"try", "wait"} => issued[p] < MaxAcquire
    BY DEF IInv, TypeOK, Where
  <2>2. /\ done' \in [Proc -> BOOLEAN]
        /\ err' \in [Proc -> {"none", "cancelled", "failed"}]
        /\ announced' \in [Proc -> BOOLEAN]
        /\ said' \in [Proc -> Nat]
    <3>1. done' = done \/ done' = [done EXCEPT ![p] = TRUE] OBVIOUS
    <3>2. announced' = announced \/ announced' = [announced EXCEPT ![p] = TRUE] OBVIOUS
    <3>3. \/ err' = err \/ err' = [err EXCEPT ![p] = "cancelled"]
          \/ err' = [err EXCEPT ![p] = "failed"]
      OBVIOUS
    <3>4. said' = said \/ said' = [said EXCEPT ![p] = IF announced[p] THEN @ ELSE @ + 1]
      OBVIOUS
    <3> HIDE <1>5
    <3>5. done' \in [Proc -> BOOLEAN] BY <3>1 DEF IInv, TypeOK
    <3>6. announced' \in [Proc -> BOOLEAN] BY <3>2 DEF IInv, TypeOK
    <3>7. err' \in [Proc -> {"none", "cancelled", "failed"}] BY <3>3 DEF IInv, TypeOK
    <3>8. said' \in [Proc -> Nat] BY <3>4 DEF IInv, TypeOK
    <3> QED BY <3>5, <3>6, <3>7, <3>8
  <2>3. TypeOK' BY <2>1, <2>2 DEF IInv, TypeOK
  <2> QED BY <2>1, <2>3 DEF IInv, FlockIsDepth, Holds
<1>6. ASSUME NEW p \in Proc, ProbeTaken(p) \/ ProbeEnd(p) PROVE IInv'
  BY <1>6 DEF ProbeTaken, ProbeEnd, Goto, IInv, TypeOK, FlockIsDepth, Holds, Where, Description
<1> QED BY <1>1, <1>2, <1>3, <1>4, <1>5, <1>6 DEF Next, Step, Try

\* The lock's invariants hold in every reachable state: the flock and the
\* count of levels agree, whatever releases, probes, interrupts and deaths
\* are interleaved.
THEOREM LockInvariant == Spec => [](TypeOK /\ FlockIsDepth)
<1>1. IInv => TypeOK /\ FlockIsDepth BY DEF IInv
<1> QED BY <1>1, InitIInv, NextIInv, PTL DEF Spec

\* At most one process is inside the apply lock, for any number of processes.
THEOREM LockExcludes == Spec => []MutualExclusion
<1>1. IInv => MutualExclusion
  BY DEF IInv, FlockIsDepth, Holds, MutualExclusion
<1> QED BY <1>1, InitIInv, NextIInv, PTL DEF Spec

\* A process that has no level out has no release function out either.
LEMMA NoLevelNoGrant ==
    ASSUME IInv, NEW p \in Proc, ~(depth[p] > 0)
    PROVE  live[p] = {}
<1>1. issued[p] \in Nat /\ live[p] \in SUBSET (1..issued[p]) /\ depth[p] = Cardinality(live[p])
  BY DEF IInv, TypeOK, FlockIsDepth
<1>2. ASSUME NEW h \in live[p] PROVE FALSE BY <1>1, <1>2, ReleaseCount
<1> QED BY <1>2

\* A process that passes the flock or holds it is alone with its grants.
LEMMA OthersHaveNone ==
    ASSUME IInv, NEW p \in Proc, flock \in {NoOne, <<p, "lock">>}, NEW q \in Proc, q # p
    PROVE  live[q] = {}
<1>1. ~(depth[q] > 0) BY Distinct DEF IInv, FlockIsDepth, Holds
<1> QED BY <1>1, NoLevelNoGrant

\* The reentrant count and the flock loop implement the abstract lock: no
\* Acquire returns a release function while one that another process was given
\* is still to be called, and a release, at whatever level and however often it
\* is called, gives back its own grant only.
THEOREM LockRefinesMutex == Spec => AbstractSpec
<1>1. Init => Abstract!Init
  BY DEF Init, Abstract!Init, Granted
<1>2. IInv /\ [Next]_vars => [Abstract!Next]_Granted
  <2> SUFFICES ASSUME IInv, [Next]_vars, Granted' # Granted PROVE Abstract!Next
    OBVIOUS
  <2>0. \A q \in Proc : live[q] \in SUBSET (1..MaxAcquire) BY DEF IInv, TypeOK
  <2>1. PICK p \in Proc : Step(p) BY DEF Next, vars, Granted
  <2>2. CASE AcquireNested(p) \/ TryTaken(p)
    <3> DEFINE g == issued[p] + 1
    <3>1. /\ g \in 1..MaxAcquire /\ g \notin live[p]
          /\ live' = [live EXCEPT ![p] = @ \cup {g}]
      <4>1. issued[p] \in Nat /\ live[p] \subseteq 1..issued[p] BY DEF IInv, TypeOK
      <4>2. issued[p] < MaxAcquire
        BY <2>2 DEF AcquireNested, TryTaken, Goto, IInv
      <4>3. live' = [live EXCEPT ![p] = @ \cup {g}]
        BY <2>2 DEF AcquireNested, TryTaken, Enter
      <4> QED BY <4>1, <4>2, <4>3, BoundAssumption
    <3>2. flock \in {NoOne, <<p, "lock">>}
      BY <2>2 DEF AcquireNested, TryTaken, IInv, FlockIsDepth, Holds
    <3> HIDE DEF g
    <3>3. \A q \in Proc : q # p => live[q] = {} BY <3>2, OthersHaveNone
    <3>4. \A x \in Granted : x[1] = p BY <3>3 DEF Granted
    <3>5. <<p, g>> \notin Granted BY <3>1 DEF Granted
    <3>6. Granted' = Granted \cup {<<p, g>>}
      <4>1. live \in [Proc -> SUBSET (1..MaxAcquire)] BY DEF IInv, TypeOK
      <4>2. /\ live'[p] = live[p] \cup {g}
            /\ \A q \in Proc : q # p => live'[q] = live[q]
        BY <3>1, <4>1
      <4>3. ASSUME NEW q \in Proc, NEW h \in 1..MaxAcquire
            PROVE  h \in live'[q] <=> h \in live[q] \/ (q = p /\ h = g)
        BY <4>2
      <4> QED BY <4>3, <3>1 DEF Granted
    <3> QED BY <3>1, <3>4, <3>5, <3>6 DEF Abstract!Next, Abstract!Take
  <2>3. ASSUME NEW h \in 1..MaxAcquire, Release(p, h) PROVE Abstract!Next
    <3>1. live \in [Proc -> SUBSET (1..MaxAcquire)] BY DEF IInv, TypeOK
    <3>2. /\ h \in live[p] /\ live'[p] = live[p] \ {h}
          /\ \A q \in Proc : q # p => live'[q] = live[q]
      BY <2>3, <3>1 DEF Release
    <3>3. ASSUME NEW q \in Proc, NEW k \in 1..MaxAcquire
          PROVE  k \in live'[q] <=> k \in live[q] /\ ~(q = p /\ k = h)
      BY <3>2
    <3>4. <<p, h>> \in Granted BY <3>2 DEF Granted
    <3>5. Granted' = Granted \ {<<p, h>>} BY <3>3 DEF Granted
    <3> QED BY <3>4, <3>5 DEF Abstract!Next, Abstract!Give
  <2>4. CASE Exit(p)
    <3>1. live \in [Proc -> SUBSET (1..MaxAcquire)] BY DEF IInv, TypeOK
    <3>2. live'[p] = {} /\ \A q \in Proc : q # p => live'[q] = live[q]
      BY <2>4, <3>1 DEF Exit
    <3>3. Granted' = {x \in Granted : x[1] # p} BY <3>2 DEF Granted
    <3> QED BY <3>3 DEF Abstract!Next, Abstract!Die
  <2>5. CASE \/ AcquireOpen(p) \/ TryBusy(p) \/ TryFails(p) \/ WaitTick(p) \/ WaitCancelled(p)
             \/ ProbeTaken(p) \/ ProbeEnd(p) \/ Interrupt(p)
    BY <2>5 DEF AcquireOpen, TryBusy, TryFails, WaitTick, WaitCancelled, ProbeTaken,
                ProbeEnd, Interrupt, Granted
  <2> QED BY <2>1, <2>2, <2>3, <2>4, <2>5 DEF Step, Try
<1> QED BY <1>1, <1>2, InitIInv, NextIInv, PTL DEF Spec, AbstractSpec, Abstract!Spec

\* Who leaves the flock loop by a try without the lock failed to open the file,
\* or was cancelled and found the flock taken: an ended context never refuses a
\* lock that is free.
THEOREM FreeLockIsGiven == Spec => FreeLockNotRefused
<1> DEFINE A == \A p \in Proc : pc[p] = "try" /\ pc'[p] = "run" /\ ~Holds(p)'
                  => err'[p] = "failed" \/ (done[p] /\ flock # NoOne)
<1>1. ASSUME IInv, Next PROVE A
  <2> SUFFICES ASSUME NEW q \in Proc, pc[q] = "try", pc'[q] = "run", ~(depth'[q] > 0)
               PROVE  err'[q] = "failed" \/ (done[q] /\ flock # NoOne)
    BY DEF Holds
  <2>0. TypeOK BY <1>1 DEF IInv
  <2>1. PICK p \in Proc : Step(p) BY <1>1 DEF Next
  <2>2. CASE TryTaken(p)
    <3>1. p = q => depth'[q] > 0 BY <2>0, <2>2 DEF TryTaken, Enter, TypeOK
    <3>2. p # q => pc'[q] = pc[q] BY <2>0, <2>2 DEF TryTaken, Goto, TypeOK
    <3> QED BY <3>1, <3>2
  <2>3. CASE TryBusy(p) BY <2>0, <2>3 DEF TryBusy, Goto, TypeOK
  <2>4. CASE TryFails(p) BY <2>0, <2>4 DEF TryFails, Goto, TypeOK
  <2>5. CASE WaitTick(p) \/ WaitCancelled(p) \/ ProbeTaken(p) \/ ProbeEnd(p) \/ AcquireOpen(p)
    BY <2>0, <2>5 DEF WaitTick, WaitCancelled, ProbeTaken, ProbeEnd, AcquireOpen, Goto, TypeOK
  <2>6. CASE Exit(p) BY <2>0, <2>6 DEF Exit, TypeOK
  <2>7. CASE AcquireNested(p) \/ Interrupt(p) \/ \E h \in 1..MaxAcquire : Release(p, h)
    BY <2>7 DEF AcquireNested, Interrupt, Release
  <2> QED BY <2>1, <2>2, <2>3, <2>4, <2>5, <2>6, <2>7 DEF Step, Try
<1>2. IInv /\ [Next]_vars => [A]_vars BY <1>1
<1> QED BY <1>2, InitIInv, NextIInv, PTL DEF Spec, FreeLockNotRefused

=============================================================================
