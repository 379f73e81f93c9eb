-------------------------- MODULE SchedulerProofs --------------------------
(***************************************************************************)
(* Proofs about Orchid's scheduler instances and their locks, for any      *)
(* number of plans, schedulers, faults and any batch size.                 *)
(***************************************************************************)
EXTENDS Scheduler, FiniteSetTheorems, FunctionTheorems, SequenceTheorems, TLAPS

-----------------------------------------------------------------------------
(* Lemmas about the operators of the model *)

\* The smaller of two numbers.
LEMMA MinOfTwo ==
  ASSUME NEW a \in Nat, NEW b \in Nat
  PROVE  Min({a, b}) \in Nat /\ Min({a, b}) <= a
<1>1. \E x \in {a, b} : \A y \in {a, b} : x <= y
  <2>1. CASE a <= b
    BY <2>1
  <2>2. CASE b <= a
    BY <2>2
  <2> QED BY <2>1, <2>2
<1>2. Min({a, b}) \in {a, b} /\ \A y \in {a, b} : Min({a, b}) <= y
  BY <1>1 DEF Min
<1> QED BY <1>2

\* What the query returns is a sequence of plans within the limit.
LEMMA BatchesAreSequences ==
  ASSUME NEW b \in Batches
  PROVE  b \in Seq(Plans) /\ Len(b) <= BatchSize
<1> DEFINE n == Min({BatchSize, Cardinality(Due)})
<1>1. Due \subseteq Plans /\ IsFiniteSet(Due)
  BY FS_Subset, SchedulerAssumptions DEF Due
<1>2. Cardinality(Due) \in Nat
  BY <1>1, FS_CardinalityType
<1>3. n \in Nat /\ n <= BatchSize
  BY <1>2, MinOfTwo, SchedulerAssumptions
<1>4. b \in [1..n -> Due]
  BY DEF Batches
<1> HIDE DEF n
<1>5. b \in Seq(Plans) /\ Len(b) = n
  BY <1>1, <1>3, <1>4
<1> QED BY <1>3, <1>5

\* A cycle moves on: the state of the scheduler that does.
LEMMA GotoCycle ==
  ASSUME CycleOK, NEW s \in Schedulers, NEW rest \in Seq(Plans), Len(rest) <= BatchSize,
         Goto(s, rest), UNCHANGED <<lock, up>>, expired' \subseteq Schedulers
  PROVE  CycleOK'
  BY DEF CycleOK, Goto

\* A scheduler that is not idle has a plan in hand, and what is left after it
\* is a shorter list.
LEMMA PlanInHand ==
  ASSUME CycleOK, NEW s \in Schedulers, pc[s] # "idle"
  PROVE  /\ Head(todo[s]) \in Plans
         /\ Tail(todo[s]) \in Seq(Plans)
         /\ Len(Tail(todo[s])) <= BatchSize
<1>1. todo[s] \in Seq(Plans) /\ todo[s] # <<>> /\ Len(todo[s]) <= BatchSize
  BY DEF CycleOK
<1> QED BY <1>1, SchedulerAssumptions

-----------------------------------------------------------------------------
(* Types *)

LEMMA InitTypes == Init => CycleOK /\ JobsOK
<1> SUFFICES ASSUME Init PROVE CycleOK /\ JobsOK
  OBVIOUS
<1>1. <<>> \in Seq(Plans) /\ Len(<<>>) <= BatchSize
  BY SchedulerAssumptions
<1> QED BY <1>1, SchedulerAssumptions DEF Init, CycleOK, JobsOK

\* One scheduler's cycle, and the steps that only touch locks.
LEMMA CycleOKStep == CycleOK /\ [Next]_vars => CycleOK'
<1> SUFFICES ASSUME CycleOK, [Next]_vars PROVE CycleOK'
  OBVIOUS
<1> USE DEF statistics, jobs
<1>1. ASSUME NEW s \in Schedulers, List(s) PROVE CycleOK'
  <2>1. CASE \E b \in Batches : Goto(s, b)
    BY <1>1, <2>1, BatchesAreSequences, GotoCycle DEF List, CycleOK
  <2>2. CASE UNCHANGED <<pc, todo>>
    BY <1>1, <2>2 DEF List, CycleOK
  <2> QED BY <1>1, <2>1, <2>2 DEF List
<1>2. ASSUME NEW s \in Schedulers, Acquire(s) PROVE CycleOK'
  <2>1. pc[s] # "idle"
    BY <1>2 DEF Acquire
  <2>2. CASE Goto(s, Tail(todo[s])) /\ UNCHANGED lock
    BY <1>2, <2>1, <2>2, PlanInHand, GotoCycle DEF Acquire, CycleOK
  <2>3. CASE /\ lock' = [lock EXCEPT ![Head(todo[s])] = s]
             /\ pc' = [pc EXCEPT ![s] = "publish"]
             /\ UNCHANGED todo
    BY <1>2, <2>1, <2>3, PlanInHand DEF Acquire, CycleOK
  <2> QED BY <1>2, <2>2, <2>3 DEF Acquire
<1>3. ASSUME NEW s \in Schedulers, Publish(s) PROVE CycleOK'
  BY <1>3 DEF Publish, CycleOK
<1>4. ASSUME NEW s \in Schedulers, Release(s) PROVE CycleOK'
  <2>1. pc[s] # "idle"
    BY <1>4 DEF Release
  <2>2. lock' \in [Plans -> Schedulers \union {Free}] /\ expired' \subseteq Schedulers
    BY <1>4, <2>1, PlanInHand DEF Release, CycleOK
  <2> QED BY <1>4, <2>1, <2>2, PlanInHand DEF Release, Goto, CycleOK
<1>5. ASSUME NEW s \in Schedulers, Crash(s) PROVE CycleOK'
  <2>1. <<>> \in Seq(Plans) /\ Len(<<>>) <= BatchSize
    BY SchedulerAssumptions
  <2> QED BY <1>5, <2>1 DEF Crash, CycleOK
<1>6. ASSUME NEW s \in Schedulers, Stop(s) \/ Exit(s) PROVE CycleOK'
  BY <1>6 DEF Stop, Exit, CycleOK
<1>7. ASSUME NEW p \in Plans, Expire(p) PROVE CycleOK'
  BY <1>7 DEF Expire, CycleOK
<1>8. ASSUME NEW p \in Plans,
             Begin(p) \/ Finish(p, TRUE) \/ Finish(p, FALSE) \/ WaitPasses(p) \/ Toggle(p)
      PROVE  CycleOK'
  BY <1>8 DEF Begin, Finish, WaitPasses, Toggle, CycleOK
<1>9. CASE UNCHANGED vars
  BY <1>9 DEF vars, CycleOK
<1> QED
  BY <1>1, <1>2, <1>3, <1>4, <1>5, <1>6, <1>7, <1>8, <1>9 DEF Next

\* Only Publish adds a job, and it knows the bound.
LEMMA JobsOKStep == JobsOK /\ CycleOK /\ [Next]_vars => JobsOK'
<1> SUFFICES ASSUME JobsOK, CycleOK, [Next]_vars PROVE JobsOK'
  OBVIOUS
<1> USE SchedulerAssumptions DEF statistics, jobs, JobsOK
<1>1. ASSUME NEW s \in Schedulers,
             List(s) \/ Acquire(s) \/ Release(s) \/ Crash(s) \/ Stop(s) \/ Exit(s)
      PROVE  UNCHANGED jobs
  BY <1>1 DEF List, Acquire, Release, Crash, Stop, Exit
<1>2. ASSUME NEW s \in Schedulers, Publish(s) PROVE JobsOK'
  <2>1. Head(todo[s]) \in Plans
    BY <1>2, PlanInHand DEF Publish
  <2>2. CASE UNCHANGED queued
    BY <1>2, <2>2 DEF Publish
  <2>3. CASE queued' = [queued EXCEPT ![Head(todo[s])] =
                          IF @ + running[Head(todo[s])] < MaxJobs THEN @ + 1 ELSE @]
    BY <1>2, <2>1, <2>3 DEF Publish
  <2> QED BY <1>2, <2>2, <2>3 DEF Publish
<1>3. ASSUME NEW p \in Plans, Expire(p) \/ WaitPasses(p) \/ Toggle(p) PROVE UNCHANGED jobs
  BY <1>3 DEF Expire, WaitPasses, Toggle
<1>4. ASSUME NEW p \in Plans, Begin(p) PROVE JobsOK'
  BY <1>4 DEF Begin
<1>5. ASSUME NEW p \in Plans, Finish(p, TRUE) \/ Finish(p, FALSE) PROVE JobsOK'
  BY <1>5 DEF Finish
<1> QED
  BY <1>1, <1>2, <1>3, <1>4, <1>5 DEF Next, vars

\* Any number of schedulers: a cycle holds at most BatchSize plans, and a scheduler
\* without plans is idle.
THEOREM SchedulerTyped == Spec => [](CycleOK /\ JobsOK)
  BY InitTypes, CycleOKStep, JobsOKStep, PTL DEF Spec

-----------------------------------------------------------------------------
(* The statistics *)

\* One row of plan_statistics per plan; only plans with a row wait.
Once == \A i, j \in DOMAIN recorded : recorded[i] = recorded[j] => i = j
StatsOK ==
    /\ recorded \in Seq(Plans) /\ Once
    /\ waiting \subseteq {recorded[i] : i \in DOMAIN recorded}
RestOK == enabled \in [Plans -> BOOLEAN] /\ faults \in 0..MaxFaults

\* Recording an execution moves the row of its plan to the end, or adds it there.
LEMMA RecordKeeps ==
  ASSUME StatsOK, NEW p \in Plans, Record(p)
  PROVE  StatsOK'
<1>1. PICK n, r : n = Len(recorded) /\ r = Rank(p) /\ n \in Nat /\ DOMAIN recorded = 1..n
  BY DEF StatsOK
<1>2. /\ r \in 0..n
      /\ r > 0 => recorded[r] = p
      /\ \A i \in 1..n : recorded[i] = p => i = r
  <2>1. CASE \E i \in DOMAIN recorded : recorded[i] = p
    <3>1. r \in DOMAIN recorded /\ recorded[r] = p
      BY <1>1, <2>1 DEF Rank
    <3> QED BY <1>1, <3>1 DEF StatsOK, Once
  <2>2. CASE ~\E i \in DOMAIN recorded : recorded[i] = p
    BY <1>1, <2>2 DEF Rank
  <2> QED BY <2>1, <2>2
<1>3. PICK f, b, l : f = SubSeq(recorded, 1, r - 1) /\ b = SubSeq(recorded, r + 1, n) /\ l = f \o b
  OBVIOUS
<1>4. recorded' = l \o <<p>> /\ waiting' = waiting \union {p}
  BY <1>1, <1>3 DEF Record
<1>5. PICK m \in Nat : m = IF r = 0 THEN n ELSE n - 1
  BY <1>1, <1>2
<1>6. /\ l \in Seq(Plans) /\ Len(l) = m
      /\ \A k \in 1..m : l[k] = recorded[IF r = 0 \/ k < r THEN k ELSE k + 1]
  <2>1. CASE r = 0
    <3>1. f = <<>> /\ b \in Seq(Plans) /\ Len(b) = n /\ \A k \in 1..n : b[k] = recorded[k]
      BY <1>1, <1>3, <2>1 DEF StatsOK
    <3> QED BY <1>3, <1>5, <2>1, <3>1
  <2>2. CASE r > 0
    <3>1. f \in Seq(Plans) /\ Len(f) = r - 1 /\ \A k \in 1..(r - 1) : f[k] = recorded[k]
      BY <1>1, <1>2, <1>3, <2>2 DEF StatsOK
    <3>2. b \in Seq(Plans) /\ Len(b) = n - r /\ \A k \in 1..(n - r) : b[k] = recorded[r + k]
      <4>1. r + 1 \in 1..(n + 1) /\ recorded \in Seq(Plans)
        BY <1>1, <1>2, <2>2 DEF StatsOK
      <4>2. \A i \in (r + 1)..n : recorded[i] \in Plans
        BY <1>1, <1>2, <4>1
      <4>3. /\ b \in Seq(Plans) /\ Len(b) = IF r + 1 <= n THEN n - (r + 1) + 1 ELSE 0
            /\ \A k \in 1..(n - (r + 1) + 1) : b[k] = recorded[(r + 1) + k - 1]
        <5>1. r + 1 \in Int /\ n \in Int
          BY <1>1, <1>2
        <5>2. b = SubSeq(recorded, r + 1, n)
          BY <1>3
        <5> QED BY <4>2, <5>1, <5>2, SubSeqProperties
      <4>4. Len(b) = n - r
        BY <1>1, <1>2, <4>3
      <4>5. \A k \in 1..(n - r) : b[k] = recorded[r + k]
        <5> SUFFICES ASSUME NEW k \in 1..(n - r) PROVE b[k] = recorded[r + k]
          OBVIOUS
        <5>1. k \in 1..(n - (r + 1) + 1) /\ (r + 1) + k - 1 = r + k
          BY <1>1, <1>2
        <5>2. b[k] = recorded[(r + 1) + k - 1]
          BY <4>3, <5>1
        <5> QED BY <5>1, <5>2
      <4> QED BY <4>3, <4>4, <4>5
    <3>3. /\ l \in Seq(Plans) /\ Len(l) = Len(f) + Len(b)
          /\ \A k \in 1..Len(l) : l[k] = IF k <= Len(f) THEN f[k] ELSE b[k - Len(f)]
      BY <1>3, <3>1, <3>2
    <3> QED BY <1>2, <1>5, <2>2, <3>1, <3>2, <3>3
  <2> QED BY <1>2, <2>1, <2>2
<1>7. /\ recorded' \in Seq(Plans) /\ DOMAIN recorded' = 1..(m + 1)
      /\ recorded'[m + 1] = p /\ \A k \in 1..m : recorded'[k] = l[k]
  <2>1. <<p>> \in Seq(Plans) /\ Len(<<p>>) = 1 /\ <<p>>[1] = p
    OBVIOUS
  <2>2. PICK s : s = l \o <<p>>
    OBVIOUS
  <2>3. /\ s \in Seq(Plans) /\ Len(s) = m + 1
        /\ \A k \in 1..(m + 1) : s[k] = IF k <= m THEN l[k] ELSE <<p>>[k - m]
    BY <1>6, <2>1, <2>2, ConcatProperties
  <2>4. recorded' = s
    BY <1>4, <2>2
  <2> QED BY <2>1, <2>3, <2>4
<1>8. \A k \in 1..m : recorded'[k] # p
  <2> SUFFICES ASSUME NEW k \in 1..m PROVE l[k] # p
    BY <1>7
  <2>1. PICK x \in 1..n : x = IF r = 0 \/ k < r THEN k ELSE k + 1
    BY <1>1, <1>2, <1>5
  <2>2. x # r /\ l[k] = recorded[x]
    BY <1>1, <1>2, <1>5, <1>6, <2>1
  <2> QED BY <1>2, <2>2
<1>9. Once'
  <2> SUFFICES ASSUME NEW i \in 1..(m + 1), NEW j \in 1..(m + 1), recorded'[i] = recorded'[j] PROVE i = j
    BY <1>7 DEF Once
  <2>1. CASE i \in 1..m /\ j \in 1..m
    <3>1. PICK x \in 1..n : x = IF r = 0 \/ i < r THEN i ELSE i + 1
      BY <1>1, <1>2, <1>5, <2>1
    <3>2. PICK y \in 1..n : y = IF r = 0 \/ j < r THEN j ELSE j + 1
      BY <1>1, <1>2, <1>5, <2>1
    <3>3. recorded[x] = recorded[y]
      BY <1>6, <1>7, <2>1, <3>1, <3>2
    <3>4. x = y
      BY <1>1, <3>3 DEF StatsOK, Once
    <3> QED BY <1>1, <1>2, <1>5, <2>1, <3>1, <3>2, <3>4
  <2> QED BY <1>7, <1>8, <2>1
<1>10. waiting' \subseteq {recorded'[i] : i \in DOMAIN recorded'}
  <2> SUFFICES ASSUME NEW q \in waiting, q # p PROVE \E i \in 1..m : recorded'[i] = q
    BY <1>4, <1>7
  <2>1. PICK i \in 1..n : recorded[i] = q
    BY <1>1 DEF StatsOK
  <2>2. i # r
    BY <1>2, <2>1
  <2>3. PICK k \in 1..m : k = IF r = 0 \/ i < r THEN i ELSE i - 1
    BY <1>2, <1>5, <2>2
  <2>4. l[k] = recorded[i]
    BY <1>2, <1>6, <2>2, <2>3
  <2> QED BY <1>7, <2>1, <2>4
<1> QED BY <1>7, <1>9, <1>10 DEF StatsOK

LEMMA InitStats == Init => StatsOK /\ RestOK
<1> SUFFICES ASSUME Init PROVE StatsOK /\ RestOK
  OBVIOUS
<1>1. <<>> \in Seq(Plans)
  OBVIOUS
<1> QED BY <1>1, SchedulerAssumptions DEF Init, StatsOK, Once, RestOK

LEMMA StatsStep == StatsOK /\ [Next]_vars => StatsOK'
<1> SUFFICES ASSUME StatsOK, [Next]_vars PROVE StatsOK'
  OBVIOUS
<1>1. ASSUME UNCHANGED statistics PROVE StatsOK'
  BY <1>1 DEF statistics, StatsOK, Once
<1>2. ASSUME NEW s \in Schedulers,
             List(s) \/ Acquire(s) \/ Publish(s) \/ Release(s) \/ Crash(s) \/ Stop(s) \/ Exit(s)
      PROVE  UNCHANGED statistics
  BY <1>2 DEF List, Acquire, Publish, Release, Crash, Stop, Exit
<1>3. ASSUME NEW p \in Plans, Expire(p) \/ Begin(p) \/ Toggle(p) PROVE UNCHANGED statistics
  BY <1>3 DEF Expire, Begin, Toggle
<1>4. ASSUME NEW p \in Plans, Finish(p, TRUE) \/ Finish(p, FALSE) PROVE StatsOK'
  BY <1>1, <1>4, RecordKeeps DEF Finish
<1>5. ASSUME NEW p \in Plans, WaitPasses(p) PROVE StatsOK'
  BY <1>5 DEF WaitPasses, StatsOK, Once
<1>6. CASE UNCHANGED vars
  BY <1>1, <1>6 DEF vars, statistics
<1> QED BY <1>1, <1>2, <1>3, <1>4, <1>5, <1>6 DEF Next

LEMMA RestStep == RestOK /\ [Next]_vars => RestOK'
<1> SUFFICES ASSUME RestOK, [Next]_vars PROVE RestOK'
  OBVIOUS
<1>1. Fault => faults' \in 0..MaxFaults
  BY SchedulerAssumptions DEF Fault, RestOK
<1>2. ASSUME NEW s \in Schedulers,
             List(s) \/ Acquire(s) \/ Publish(s) \/ Release(s) \/ Crash(s) \/ Stop(s) \/ Exit(s)
      PROVE  enabled' = enabled /\ (faults' = faults \/ Fault)
  BY <1>2 DEF List, Acquire, Publish, Release, Crash, Stop, Exit
<1>3. ASSUME NEW p \in Plans, Expire(p) \/ Begin(p) \/ Finish(p, TRUE) \/ Finish(p, FALSE) \/ WaitPasses(p)
      PROVE  enabled' = enabled /\ (faults' = faults \/ Fault)
  BY <1>3 DEF Expire, Begin, Finish, WaitPasses
<1>4. ASSUME NEW p \in Plans, Toggle(p) PROVE RestOK'
  BY <1>4 DEF Toggle, RestOK
<1> QED BY <1>1, <1>2, <1>3, <1>4 DEF Next, vars, RestOK

\* A sequence of plans that names none twice is no longer than there are plans.
LEMMA OnceFits ==
  ASSUME recorded \in Seq(Plans), Once
  PROVE  Len(recorded) <= Cardinality(Plans)
<1>1. PICK n \in Nat : n = Len(recorded) /\ DOMAIN recorded = 1..n /\ recorded \in [1..n -> Plans]
  OBVIOUS
<1>2. recorded \in Injection(1..n, Plans)
  <2>1. \A i, j \in 1..n : recorded[i] = recorded[j] => i = j
    BY <1>1 DEF Once
  <2> QED BY <1>1, <2>1, Fun_IsInj
<1>3. Cardinality(1..n) = n
  BY FS_Interval
<1>4. Cardinality(1..n) <= Cardinality(Plans)
  BY <1>2, FS_Injection, SchedulerAssumptions
<1> QED BY <1>1, <1>3, <1>4

\* For any number of schedulers and plans: a cycle holds at most BatchSize plans, a
\* scheduler without plans is idle, there is one row of statistics per plan at most,
\* and only plans with such a row wait.
THEOREM SchedulerTypes == Spec => []TypeOK
<1>1. CycleOK /\ JobsOK /\ StatsOK /\ RestOK => TypeOK
  BY OnceFits DEF StatsOK, RestOK, TypeOK
<1>2. Spec => [](StatsOK /\ RestOK)
  BY InitStats, StatsStep, RestStep, PTL DEF Spec
<1> QED BY <1>1, <1>2, SchedulerTyped, PTL

-----------------------------------------------------------------------------
(* The locks *)

\* Ownership through every step of every scheduler: the holder's own step, the
\* TTL, a crash, and the releases of the others.
LEMMA OwnershipStep == OwnsUnlessExpired /\ CycleOK /\ [Next]_vars => OwnsUnlessExpired'
<1> SUFFICES ASSUME OwnsUnlessExpired, CycleOK, [Next]_vars,
                    NEW t \in Schedulers, NEW q \in Plans, Uses(t, q)'
             PROVE  lock'[q] = t \/ t \in expired'
  BY DEF OwnsUnlessExpired
<1> DEFINE Owned == lock'[q] = t \/ t \in expired'
<1> USE DEF statistics, jobs
<1>0. ASSUME Uses(t, q), UNCHANGED <<lock, expired>> PROVE Owned
  BY <1>0 DEF OwnsUnlessExpired
<1>1. ASSUME NEW s \in Schedulers, List(s) PROVE Owned
  <2>1. t # s /\ Uses(t, q)
    BY <1>1 DEF List, Goto, Uses, CycleOK
  <2> QED BY <1>0, <1>1, <2>1 DEF List
<1>2. ASSUME NEW s \in Schedulers, Acquire(s) PROVE Owned
  <2> DEFINE p == Head(todo[s])
  <2>0. p \in Plans
    BY <1>2, PlanInHand DEF Acquire
  <2>1. CASE Goto(s, Tail(todo[s])) /\ UNCHANGED lock
    <3>1. t # s /\ Uses(t, q)
      BY <1>2, <2>1 DEF Acquire, Goto, Uses, CycleOK
    <3> QED BY <1>0, <1>2, <2>1, <3>1 DEF Acquire
  <2>2. CASE /\ lock[p] = Free
             /\ lock' = [lock EXCEPT ![p] = s]
             /\ pc' = [pc EXCEPT ![s] = "publish"]
             /\ UNCHANGED <<todo, expired>>
    <3>1. CASE t = s
      BY <2>0, <2>2, <3>1 DEF Uses, CycleOK
    <3>2. CASE t # s
      <4>1. Uses(t, q)
        BY <2>2, <3>2 DEF Uses, CycleOK
      <4>2. CASE q = p
        BY <2>2, <4>1, <4>2, SchedulerAssumptions DEF OwnsUnlessExpired
      <4>3. CASE q # p
        BY <2>0, <2>2, <4>1, <4>3 DEF OwnsUnlessExpired, CycleOK
      <4> QED BY <4>2, <4>3
    <3> QED BY <3>1, <3>2
  <2> QED BY <1>2, <2>1, <2>2 DEF Acquire
<1>3. ASSUME NEW s \in Schedulers, Publish(s) PROVE Owned
  <2>1. Uses(t, q)
    BY <1>3 DEF Publish, Uses, CycleOK
  <2> QED BY <1>0, <1>3, <2>1 DEF Publish
<1>4. ASSUME NEW s \in Schedulers, Release(s) PROVE Owned
  <2>1. t # s /\ Uses(t, q)
    BY <1>4 DEF Release, Goto, Uses, CycleOK
  <2>2. t \in expired => t \in expired'
    BY <1>4, <2>1 DEF Release
  <2>3. lock[q] = t => lock'[q] = t
    BY <1>4, <2>1 DEF Release, CycleOK
  <2> QED BY <2>1, <2>2, <2>3 DEF OwnsUnlessExpired
<1>5. ASSUME NEW s \in Schedulers, Crash(s) PROVE Owned
  <2>1. t # s /\ Uses(t, q)
    BY <1>5 DEF Crash, Uses, CycleOK
  <2> QED BY <1>5, <2>1 DEF Crash, OwnsUnlessExpired
<1>6. ASSUME NEW s \in Schedulers, Stop(s) \/ Exit(s) PROVE Owned
  <2>1. Uses(t, q) /\ UNCHANGED <<lock, expired>>
    BY <1>6 DEF Stop, Exit, Uses
  <2> QED BY <1>0, <2>1
<1>7. ASSUME NEW p \in Plans, Expire(p) PROVE Owned
  <2>1. Uses(t, q)
    BY <1>7 DEF Expire, Uses
  <2>2. CASE lock[q] = t /\ q = p
    BY <1>7, <2>1, <2>2 DEF Expire
  <2>3. CASE lock[q] = t /\ q # p
    BY <1>7, <2>3 DEF Expire, CycleOK
  <2>4. CASE t \in expired
    BY <1>7, <2>4 DEF Expire
  <2> QED BY <2>1, <2>2, <2>3, <2>4 DEF OwnsUnlessExpired
<1>8. ASSUME NEW p \in Plans,
             Begin(p) \/ Finish(p, TRUE) \/ Finish(p, FALSE) \/ WaitPasses(p) \/ Toggle(p)
      PROVE  Owned
  <2>1. Uses(t, q) /\ UNCHANGED <<lock, expired>>
    BY <1>8 DEF Begin, Finish, WaitPasses, Toggle, Uses
  <2> QED BY <1>0, <2>1
<1>9. CASE UNCHANGED vars
  BY <1>0, <1>9 DEF vars, Uses
<1> QED
  BY <1>1, <1>2, <1>3, <1>4, <1>5, <1>6, <1>7, <1>8, <1>9 DEF Next

\* For any number of plans and schedulers, however they crash, are late or
\* stop: between Acquire and Release a scheduler owns the lock of its plan
\* unless the TTL took it.
THEOREM LockOwnership == Spec => []OwnsUnlessExpired
<1>1. Init => OwnsUnlessExpired
  BY DEF Init, OwnsUnlessExpired, Uses
<1> QED
  BY <1>1, InitTypes, CycleOKStep, OwnershipStep, PTL DEF Spec

\* Two schedulers that publish for one plan at a time.
BothPublish(s, t, p) == s # t /\ Uses(s, p) /\ Uses(t, p)

\* The locks give mutual exclusion up to the TTL: two schedulers deal with the
\* same plan at the same time only when one of them outlived its lock.
THEOREM OnePublisherPerPlan ==
  Spec => [](\A s, t \in Schedulers, p \in Plans :
                BothPublish(s, t, p) => s \in expired \/ t \in expired)
<1>1. OwnsUnlessExpired => \A s, t \in Schedulers, p \in Plans :
                             BothPublish(s, t, p) => s \in expired \/ t \in expired
  BY DEF OwnsUnlessExpired, BothPublish
<1> QED BY <1>1, LockOwnership, PTL
=============================================================================
