-------------------------- MODULE RetryBudgetProofs --------------------------
(***************************************************************************)
(* How often a task can fail although its retry budget is decided with     *)
(* counts that late workers have read before: the proof of RetriesBounded. *)
(***************************************************************************)
EXTENDS DispatcherProofs, FiniteSetTheorems

(* Sets of claim numbers within a budget.                                  *)
LEMMA LateSizes ==
    ASSUME NEW m \in Nat, NEW S \in SUBSET (1..m), NEW T \in SUBSET S
    PROVE  /\ Cardinality(S) \in Nat /\ Cardinality(T) \in Nat
           /\ Cardinality(T) <= Cardinality(S) /\ Cardinality(S) <= m
           /\ \A i \in S : i \notin T => Cardinality(T) <= Cardinality(S) - 1
<1>1. IsFiniteSet(1..m) /\ Cardinality(1..m) = m
    BY FS_Interval
<1>2. IsFiniteSet(S) /\ Cardinality(S) <= m
    BY <1>1, FS_Subset
<1>3. IsFiniteSet(T) /\ Cardinality(T) <= Cardinality(S)
    BY <1>2, FS_Subset
<1>4. ASSUME NEW i \in S, i \notin T PROVE Cardinality(T) <= Cardinality(S) - 1
    <2>1. IsFiniteSet(S \ {i}) /\ Cardinality(S \ {i}) = Cardinality(S) - 1
        BY <1>2, FS_RemoveElement
    <2>2. T \in SUBSET (S \ {i})
        BY <1>4
    <2>3. QED
        BY <2>1, <2>2, FS_Subset
<1>5. QED
    BY <1>2, <1>3, <1>4, FS_CardinalityType

LEMMA LateJobs ==
    ASSUME NEW t, jobs' \subseteq jobs \/
                  \E j \in jobs : \E next :
                      /\ Becomes(j, next)
                      /\ next.task = j.task /\ next.id = j.id
                      /\ next.pc \in Unsettled => j.pc \in Unsettled
    PROVE  Late(t)' \subseteq Late(t)
BY DEF Late, Becomes, Unsettled

(* Only a claim within the budget adds to the late ones.                   *)
LEMMA LateStep ==
    ASSUME TypeOK, LeaseInv, CountInv, [Next]_vars, NEW t \in Tasks
    PROVE  Late(t)' \subseteq Late(t) \/ task[t].retryCount < MaxRetry[t]
<1>1. ASSUME jobs' \subseteq jobs PROVE Late(t)' \subseteq Late(t)
    BY <1>1, LateJobs
<1>2. ASSUME NEW d \in Dispatchers, NEW k \in FetchKinds, AcquireEnd(d, k)
      PROVE  Late(t)' \subseteq Late(t) \/ task[t].retryCount < MaxRetry[t]
    <2>1. jobs' \subseteq jobs \/ jobs' = jobs \cup NewJobs(d, k)
        BY <1>2 DEF AcquireEnd
    <2>2. CASE t \notin DOMAIN tx[d][k]
        <3>1. \A j \in NewJobs(d, k) : j.task # t
            BY <2>2 DEF NewJobs
        <3>2. QED
            BY <1>1, <2>1, <3>1 DEF Late
    <2>3. CASE t \in DOMAIN tx[d][k]
        <3>1. task[t].status \in {"pending", "failed"}
            BY <2>3 DEF LeaseInv, WritesFollow, LockedStatus, FetchKinds, Kinds
        <3>2. claims[t] = task[t].retryCount /\ task[t].retryCount \in Nat
            BY <3>1 DEF CountInv, RowsInv, ClaimAccounting, TypeOK, Row
        <3>3. \A j \in NewJobs(d, k) : j.task = t => j.id = task[t].retryCount + 1
            BY <3>2 DEF NewJobs
        <3>4. MaxRetry[t] \in Nat
            BY DispatcherAssumption
        <3>5. CASE ~(task[t].retryCount < MaxRetry[t])
            <4>1. \A j \in NewJobs(d, k) : j.task = t => j.id \notin 1..MaxRetry[t]
                BY <3>2, <3>3, <3>4, <3>5
            <4>2. QED
                BY <1>1, <2>1, <4>1 DEF Late
        <3>6. QED
            BY <3>5
    <2>4. QED
        BY <2>2, <2>3
<1>3. ASSUME NEW d \in Dispatchers, LoopStep(d)
      PROVE  Late(t)' \subseteq Late(t) \/ task[t].retryCount < MaxRetry[t]
    BY <1>1, <1>2, <1>3 DEF LoopStep, ExpireSelect, ExpireEnd, LoopCount, LoopWrite, AcquireSelect
<1>4. ASSUME NEW d \in Dispatchers,
             Start(d) \/ Terminate(d) \/ LoopExit(d) \/ StopReturns(d) \/ Crash(d)
      PROVE  Late(t)' \subseteq Late(t)
    BY <1>1, <1>4 DEF Start, Terminate, LoopExit, StopReturns, Crash
<1>5. ASSUME NEW j \in jobs, JobStep(j) PROVE Late(t)' \subseteq Late(t)
    <2>1. j \in Job
        BY DEF TypeOK
    <2>2. CASE Returns(j)
        BY <1>1, <2>2 DEF Returns
    <2>3. ASSUME NEW pc \in {"send", "update", "count"}, Becomes(j, [j EXCEPT !.pc = pc]),
                 pc # "count" => j.pc \in Unsettled
          PROVE  Late(t)' \subseteq Late(t)
        <3> DEFINE next == [j EXCEPT !.pc = pc]
        <3>1. next.task = j.task /\ next.id = j.id /\ next.pc = pc
            BY <2>1 DEF Job
        <3>2. Becomes(j, next)
            BY <2>3
        <3> HIDE DEF next
        <3>3. QED
            BY <2>3, <3>1, <3>2, LateJobs DEF Unsettled
    <2>4. CASE PrepareOk(j) \/ PrepareFails(j) \/ RecordAttempt(j) \/ UpdateTask(j)
        BY <2>2, <2>3, <2>4 DEF PrepareOk, PrepareFails, RecordAttempt, UpdateTask, Unsettled
    <2>5. CASE SendReturns(j)
        <3>1. PICK ok \in BOOLEAN : Becomes(j, [j EXCEPT !.pc = "record", !.ok = ok])
            BY <2>5 DEF SendReturns
        <3> DEFINE next == [j EXCEPT !.pc = "record", !.ok = ok]
        <3>2. next.task = j.task /\ next.id = j.id /\ next.pc = "record" /\ j.pc = "send"
            BY <2>1, <2>5 DEF Job, SendReturns
        <3>3. Becomes(j, next)
            BY <3>1
        <3> HIDE DEF next
        <3>4. QED
            BY <3>2, <3>3, LateJobs DEF Unsettled
    <2>6. CASE JobCount(j) \/ JobWrite(j)
        <3> DEFINE next == [j EXCEPT !.pc = "write", !.agg = Aggregate(NotificationOf[j.task])]
        <3>1. next.task = j.task /\ next.id = j.id /\ next.pc = "write"
            BY <2>1 DEF Job
        <3>2. Returns(j) \/ Becomes(j, next)
            BY <2>6 DEF JobCount, JobWrite
        <3> HIDE DEF next
        <3>3. QED
            BY <2>2, <3>1, <3>2, LateJobs DEF Unsettled
    <2>7. QED
        BY <1>5, <2>4, <2>5, <2>6 DEF JobStep
<1>6. ASSUME UNCHANGED jobs PROVE Late(t)' \subseteq Late(t)
    BY <1>1, <1>6
<1>7. QED
    BY <1>3, <1>4, <1>5, <1>6 DEF Next, Enqueue, Tick, vars

(* A worker that settles its task is late no more.                         *)
LEMMA LateSettled ==
    ASSUME TypeOK, CountInv, NEW j \in jobs, UpdateTask(j)
    PROVE  /\ j.id \notin Late(j.task)'
           /\ j.id <= MaxRetry[j.task] => j.id \in Late(j.task)
<1>1. /\ j \in Job /\ j.task \in Tasks /\ j.id \in Nat /\ j.id >= 1 /\ j.pc = "update"
      /\ MaxRetry[j.task] \in Nat
    BY DispatcherAssumption DEF TypeOK, Job, CountInv, JobsInv, UpdateTask
<1>2. j.id <= MaxRetry[j.task] => j.id \in Late(j.task)
    BY <1>1 DEF Late, Unsettled
<1> DEFINE next == [j EXCEPT !.pc = "count"]
<1>3. next.pc = "count" /\ (Becomes(j, next) \/ Returns(j))
    BY <1>1 DEF UpdateTask, Job
<1> HIDE DEF next
<1>4. \A i \in jobs : i.task = j.task /\ i.id = j.id => i = j
    BY DEF CountInv, JobsInv
<1>5. \A i \in jobs' : i.task = j.task /\ i.id = j.id
                        => i.pc \notin Unsettled
    BY <1>3, <1>4 DEF Becomes, Returns, Unsettled
<1>6. QED
    BY <1>2, <1>5 DEF Late

-----------------------------------------------------------------------------
(* A failure of a task that goes on is one within the budget, or one that  *)
(* uses up a late worker.                                                  *)
CountedFailure(t) ==
    /\ task[t].status = "processing"
    /\ task'[t].retryCount = task[t].retryCount + 1
    /\ \/ task'[t].status = "dead"
       \/ task[t].retryCount < MaxRetry[t]
       \/ \E i \in Late(t) : i \notin Late(t)'

LEMMA BudgetRows ==
    ASSUME TypeOK, LeaseInv, CountInv, [Next]_vars, NEW t \in Tasks
    PROVE  \/ /\ task'[t].retryCount = task[t].retryCount
              /\ task'[t].status = "dead" <=> task[t].status = "dead"
           \/ CountedFailure(t)
<1> DEFINE Kept == /\ task'[t].retryCount = task[t].retryCount
                   /\ task'[t].status = "dead" <=> task[t].status = "dead"
<1>1. CASE task'[t] = task[t]
    BY <1>1
<1>2. ASSUME NEW n \in Notifications, NEW S \in SUBSET TasksOf(n), Enqueue(n, S) PROVE Kept
    <2>1. NewRow.status = "pending" /\ NewRow.retryCount = 0
        BY DEF NewRow, AbsentRow
    <2>2. \/ task'[t] = task[t]
          \/ task[t].status = "absent" /\ task'[t] = NewRow
        BY <1>2 DEF Enqueue, RowsOf
    <2>3. QED
        BY <2>1, <2>2 DEF CountInv, RowsInv
<1>3. ASSUME NEW d \in Dispatchers, NEW k \in Kinds, Commit(d, k)
      PROVE  Kept \/ CountedFailure(t)
    <2>1. CASE t \notin DOMAIN tx[d][k]
        BY <1>3, <2>1 DEF Commit
    <2>2. CASE t \in DOMAIN tx[d][k]
        <3>1. task'[t] = tx[d][k][t]
            BY <1>3, <2>2 DEF Commit
        <3>2. /\ task[t].status = LockedStatus(k)
              /\ k # "expire" => ClaimWrites(d, task[t], tx[d][k][t])
              /\ k = "expire" => ExpiryWrites(t, task[t], tx[d][k][t])
            BY <2>2 DEF LeaseInv, WritesFollow
        <3>3. CASE k = "expire"
            BY <3>1, <3>2, <3>3 DEF ExpiryWrites, CountedFailure, LockedStatus
        <3>4. CASE k # "expire"
            BY <3>1, <3>2, <3>4 DEF ClaimWrites, LockedStatus, Kinds
        <3>5. QED
            BY <3>3, <3>4
    <2>3. QED
        BY <2>1, <2>2
<1>4. ASSUME NEW j \in jobs, UpdateTask(j), LeaseHeld(task[j.task], j.owner),
             task' = [task EXCEPT ![j.task] = Settled(j)]
      PROVE  Kept \/ CountedFailure(t)
    <2>1. /\ j.task \in Tasks /\ j.rc \in Nat /\ j.id \in Nat /\ j.rc = j.id - 1
          /\ MaxRetry[j.task] \in Nat /\ task[j.task] \in Row /\ j.owner # NoOwner
        BY DispatcherAssumption, StoreAssumption DEF TypeOK, Job, CountInv, JobsInv
    <2>2. task[j.task].status = "processing"
        BY <1>4, <2>1 DEF LeaseInv, NoStrandedRow, LeaseHeld
    <2>3. task'[t] = IF t = j.task THEN Settled(j) ELSE task[t]
        BY <1>4 DEF TypeOK
    <2>4. CASE j.ok
        <3>1. Settled(j).status = "success" /\ Settled(j).retryCount = task[j.task].retryCount
            BY <2>1, <2>4, SucceededRow DEF Settled
        <3>2. QED
            BY <2>2, <2>3, <3>1
    <2>5. CASE ~j.ok
        <3> DEFINE w == Failed(task[j.task], j.rc, MaxRetry[j.task])
        <3>1. /\ w.status \in {"failed", "dead"}
              /\ w.status = "failed" => j.rc < MaxRetry[j.task]
              /\ w.retryCount = task[j.task].retryCount + 1
            BY <2>1, FailedRow
        <3>2. Settled(j) = w
            BY <2>5 DEF Settled
        <3> HIDE DEF w
        <3>3. w.status = "failed" => j.id <= MaxRetry[j.task]
            BY <2>1, <3>1
        <3>4. w.status = "failed" => j.id \in Late(j.task) /\ j.id \notin Late(j.task)'
            BY <1>4, <3>3, LateSettled
        <3>5. t = j.task => CountedFailure(t)
            BY <2>2, <2>3, <3>1, <3>2, <3>4 DEF CountedFailure
        <3>6. QED
            BY <2>3, <3>5
    <2>6. QED
        BY <2>4, <2>5
<1>5. CASE Tick
    <2>1. task[t] \in Row /\ task'[t] = Elapsed(task[t])
        BY <1>5 DEF TypeOK, Tick
    <2>2. QED
        BY <2>1, ElapsedRow
<1>6. QED
    BY <1>1, <1>2, <1>3, <1>4, <1>5, TableSteps DEF TableStep, RowStep, Crash

LEMMA BudgetInit == Init => BudgetInv
<1> SUFFICES ASSUME Init, NEW t \in Tasks
             PROVE  task[t].status # "dead" /\ task[t].retryCount <= MaxRetry[t]
    BY DEF BudgetInv
<1>1. MaxRetry[t] \in Nat
    BY DispatcherAssumption
<1>2. QED
    BY <1>1 DEF Init, AbsentRow

LEMMA BudgetStep ==
    TypeOK /\ LeaseInv /\ CountInv /\ BudgetInv /\ [Next]_vars /\ TypeOK' => BudgetInv'
<1> SUFFICES ASSUME TypeOK, LeaseInv, CountInv, BudgetInv, [Next]_vars, TypeOK', NEW t \in Tasks
             PROVE  /\ task'[t].status = "dead" => task'[t].retryCount <= 2 * MaxRetry[t] + 1
                    /\ task'[t].status # "dead" =>
                        \/ task'[t].retryCount <= MaxRetry[t]
                        \/ task'[t].retryCount + Cardinality(Late(t)') <= 2 * MaxRetry[t]
    BY DEF BudgetInv
<1>1. /\ MaxRetry[t] \in Nat
      /\ task[t].retryCount \in Nat /\ task'[t].retryCount \in Nat
    BY DispatcherAssumption DEF TypeOK, Row
<1>2. /\ Late(t) \in SUBSET (1..MaxRetry[t])
      /\ Late(t)' \in SUBSET (1..MaxRetry[t])
    BY DEF Late
<1>3. /\ Cardinality(Late(t)) \in Nat /\ Cardinality(Late(t)) <= MaxRetry[t]
      /\ Cardinality(Late(t)') \in Nat
    BY <1>1, <1>2, LateSizes
<1>4. \/ task[t].retryCount < MaxRetry[t]
      \/ /\ Cardinality(Late(t)') <= Cardinality(Late(t))
         /\ \A i \in Late(t) : i \notin Late(t)'
                => Cardinality(Late(t)') <= Cardinality(Late(t)) - 1
    <2>1. CASE Late(t)' \subseteq Late(t)
        BY <1>1, <1>2, <2>1, LateSizes
    <2>2. QED
        BY <2>1, LateStep
<1>5. CASE /\ task'[t].retryCount = task[t].retryCount
           /\ task'[t].status = "dead" <=> task[t].status = "dead"
    BY <1>1, <1>3, <1>4, <1>5 DEF BudgetInv
<1>6. CASE CountedFailure(t)
    <2>1. /\ task[t].status # "dead"
          /\ task'[t].retryCount = task[t].retryCount + 1
        BY <1>6 DEF CountedFailure
    <2>2. task[t].retryCount <= MaxRetry[t]
          \/ task[t].retryCount + Cardinality(Late(t)) <= 2 * MaxRetry[t]
        BY <2>1 DEF BudgetInv
    <2>3. task'[t].retryCount <= 2 * MaxRetry[t] + 1
        BY <1>1, <1>3, <2>1, <2>2
    <2>4. CASE task'[t].status # "dead"
        <3>1. CASE task[t].retryCount < MaxRetry[t]
            BY <1>1, <2>1, <3>1
        <3>2. CASE ~(task[t].retryCount < MaxRetry[t])
            <4>1. Cardinality(Late(t)') <= Cardinality(Late(t)) - 1
                BY <1>4, <1>6, <2>4, <3>2 DEF CountedFailure
            <4>2. QED
                BY <1>1, <1>3, <2>1, <2>2, <3>2, <4>1
        <3>3. QED
            BY <2>4, <3>1, <3>2
    <2>5. QED
        BY <2>3, <2>4
<1>7. QED
    BY <1>5, <1>6, BudgetRows

(* A task fails at most 2 * max_retry + 1 times, whatever its late workers *)
(* write: each of the max_retry counts within the budget reopens it once.  *)
THEOREM RetriesAreBounded == Spec => []RetriesBounded
<1>1. TypeOK /\ LeaseInv /\ CountInv /\ BudgetInv /\ [Next]_vars /\ TypeOK' => BudgetInv'
    BY BudgetStep
<1>2. TypeOK /\ BudgetInv => RetriesBounded
    <2> SUFFICES ASSUME TypeOK, BudgetInv, NEW t \in Tasks
                 PROVE  task[t].retryCount <= 2 * MaxRetry[t] + 1
        BY DEF RetriesBounded
    <2>1. MaxRetry[t] \in Nat /\ task[t].retryCount \in Nat
        BY DispatcherAssumption DEF TypeOK, Row
    <2>2. Late(t) \in SUBSET (1..MaxRetry[t])
        BY DEF Late
    <2>3. Cardinality(Late(t)) \in Nat
        BY <2>1, <2>2, LateSizes
    <2>4. QED
        BY <2>1, <2>3 DEF BudgetInv
<1>3. QED
    BY <1>1, <1>2, CountAlways, BudgetInit, PTL DEF Spec

-----------------------------------------------------------------------------
(* With leases that are long enough. *)

LEMMA SamePredecessor == \A m, n \in Nat : m - 1 = n - 1 => m = n
OBVIOUS

(* A worker that has not settled its task was there before the step, at an *)
(* earlier point of the same claim, or begins with the claim.              *)
LEMMA WorkersFrom ==
    ASSUME TypeOK, [Next]_vars, NEW j \in jobs', j.pc \in Unsettled
    PROVE  \/ \E i \in jobs : /\ i.pc \in Unsettled
                              /\ i.task = j.task /\ i.id = j.id
                              /\ i.owner = j.owner /\ i.rc = j.rc
           \/ \E d \in Dispatchers : \E k \in FetchKinds :
                AcquireEnd(d, k) /\ Commit(d, k) /\ CloseTx(d, k) /\ j \in NewJobs(d, k)
<1> DEFINE Goal == \E i \in jobs : /\ i.pc \in Unsettled
                                   /\ i.task = j.task /\ i.id = j.id
                                   /\ i.owner = j.owner /\ i.rc = j.rc
<1>1. j \in jobs => Goal
    OBVIOUS
<1>2. ASSUME NEW i \in jobs, NEW next, Becomes(i, next), i.pc \in Unsettled,
             next.task = i.task, next.id = i.id, next.owner = i.owner, next.rc = i.rc
      PROVE  Goal
    <2>1. j \in jobs \/ j = next
        BY <1>2 DEF Becomes
    <2>2. QED
        BY <1>1, <1>2, <2>1
<1>3. ASSUME NEW i \in jobs, JobStep(i) PROVE Goal
    <2>1. i \in Job
        BY DEF TypeOK
    <2>2. Returns(i) => Goal
        BY <1>1 DEF Returns
    <2>3. ASSUME NEW pc, Becomes(i, [i EXCEPT !.pc = pc]), i.pc \in Unsettled PROVE Goal
        <3> DEFINE next == [i EXCEPT !.pc = pc]
        <3>1. /\ next.task = i.task /\ next.id = i.id
              /\ next.owner = i.owner /\ next.rc = i.rc
            BY <2>1 DEF Job
        <3>2. Becomes(i, next)
            BY <2>3
        <3> HIDE DEF next
        <3>3. QED
            BY <1>2, <2>3, <3>1, <3>2
    <2>4. CASE PrepareOk(i) \/ PrepareFails(i) \/ RecordAttempt(i) \/ UpdateTask(i)
        BY <2>2, <2>3, <2>4 DEF PrepareOk, PrepareFails, RecordAttempt, UpdateTask, Unsettled
    <2>5. CASE SendReturns(i)
        <3>1. PICK ok \in BOOLEAN : Becomes(i, [i EXCEPT !.pc = "record", !.ok = ok])
            BY <2>5 DEF SendReturns
        <3> DEFINE next == [i EXCEPT !.pc = "record", !.ok = ok]
        <3>2. /\ next.task = i.task /\ next.id = i.id
              /\ next.owner = i.owner /\ next.rc = i.rc /\ i.pc = "send"
            BY <2>1, <2>5 DEF Job, SendReturns
        <3>3. Becomes(i, next)
            BY <3>1
        <3> HIDE DEF next
        <3>4. QED
            BY <1>2, <3>2, <3>3 DEF Unsettled
    <2>6. CASE JobCount(i) \/ JobWrite(i)
        <3> DEFINE next == [i EXCEPT !.pc = "write", !.agg = Aggregate(NotificationOf[i.task])]
        <3>1. next.pc = "write"
            BY <2>1 DEF Job
        <3>2. Returns(i) \/ Becomes(i, next)
            BY <2>6 DEF JobCount, JobWrite
        <3> HIDE DEF next
        <3>3. QED
            BY <1>1, <2>2, <3>1, <3>2 DEF Becomes, Unsettled
    <2>7. QED
        BY <1>3, <2>4, <2>5, <2>6 DEF JobStep
<1>4. ASSUME NEW d \in Dispatchers, NEW k \in FetchKinds, AcquireEnd(d, k), j \notin jobs
      PROVE  Commit(d, k) /\ CloseTx(d, k) /\ j \in NewJobs(d, k)
    BY <1>4 DEF AcquireEnd
<1>5. ASSUME NEW d \in Dispatchers,
             \/ Start(d) \/ Terminate(d) \/ LoopExit(d) \/ StopReturns(d) \/ Crash(d)
             \/ ExpireSelect(d) \/ ExpireEnd(d) \/ LoopCount(d) \/ LoopWrite(d)
             \/ \E k \in FetchKinds : AcquireSelect(d, k)
      PROVE  j \in jobs
    BY <1>5 DEF Start, Terminate, LoopExit, StopReturns, Crash, ExpireSelect, ExpireEnd,
                LoopCount, LoopWrite, AcquireSelect
<1>6. Tick \/ UNCHANGED vars \/ (\E n \in Notifications : \E S : Enqueue(n, S)) => j \in jobs
    BY DEF Tick, vars, Enqueue
<1> HIDE DEF Goal
<1>7. \/ Goal
      \/ \E d \in Dispatchers : \E k \in FetchKinds :
            AcquireEnd(d, k) /\ Commit(d, k) /\ CloseTx(d, k) /\ j \in NewJobs(d, k)
    BY <1>1, <1>3, <1>4, <1>5, <1>6 DEF Next, LoopStep
<1>8. QED
    BY <1>7 DEF Goal

(* No expiry selects the row of a timely worker.                           *)
LEMMA NotExpiring ==
    ASSUME TypeOK, [Next]_vars, NEW t \in Tasks, task[t].leaseExpireAt # 0,
           \A d \in Dispatchers : t \notin DOMAIN tx[d]["expire"]
    PROVE  \A d \in Dispatchers : t \notin DOMAIN tx'[d]["expire"]
<1> SUFFICES ASSUME NEW e \in Dispatchers PROVE t \notin DOMAIN tx'[e]["expire"]
    OBVIOUS
<1>1. "expire" \in Kinds /\ DOMAIN NoWrites = {}
    BY DEF Kinds, NoWrites
<1>2. ASSUME NEW d \in Dispatchers, NEW k \in Kinds, NEW S \in Batches(k), OpenTx(d, k, S)
      PROVE  t \notin DOMAIN tx'[e]["expire"]
    <2>1. k = "expire" => t \notin S
        BY DEF Batches, Selectable, Selects
    <2>2. DOMAIN tx'[e]["expire"] = IF d = e /\ k = "expire" THEN S ELSE DOMAIN tx[e]["expire"]
        BY <1>1, <1>2 DEF OpenTx, TypeOK
    <2>3. QED
        BY <2>1, <2>2
<1>3. ASSUME NEW d \in Dispatchers, NEW k \in Kinds, CloseTx(d, k)
      PROVE  t \notin DOMAIN tx'[e]["expire"]
    BY <1>1, <1>3 DEF CloseTx, TypeOK
<1>4. ASSUME NEW d \in Dispatchers, Crash(d) PROVE t \notin DOMAIN tx'[e]["expire"]
    BY <1>1, <1>4 DEF Crash, TypeOK
<1>5. Tick => t \notin DOMAIN tx'[e]["expire"]
    BY <1>1 DEF Tick, TypeOK
<1>6. UNCHANGED tx => t \notin DOMAIN tx'[e]["expire"]
    OBVIOUS
<1>7. QED
    BY <1>2, <1>3, <1>4, <1>5, <1>6, TableSteps DEF TableStep, RowStep, Enqueue

(* Nothing but the settling of its worker changes what the row of a timely *)
(* worker says of the claim.                                               *)
LEMMA ClaimStays ==
    ASSUME TypeOK, LeaseInv, CountInv, TimelyInv, [Next]_vars,
           NEW i \in jobs, i.pc \in Unsettled,
           NEW j \in jobs', j.pc \in Unsettled, j.task = i.task, j.id = i.id
    PROVE  /\ task'[i.task].status = task[i.task].status
           /\ task'[i.task].leaseOwner = task[i.task].leaseOwner
           /\ task'[i.task].retryCount = task[i.task].retryCount
<1> DEFINE t == i.task
           Same == /\ task'[t].status = task[t].status
                   /\ task'[t].leaseOwner = task[t].leaseOwner
                   /\ task'[t].retryCount = task[t].retryCount
<1>1. i \in Job /\ t \in Tasks /\ task[t] \in Row /\ Current(i)
    BY DEF TypeOK, Job, TimelyInv
<1>2. task[t].status = "processing" /\ \A d \in Dispatchers : t \notin DOMAIN tx[d]["expire"]
    BY <1>1 DEF Current
<1>3. ASSUME NEW n \in Notifications, NEW S \in SUBSET TasksOf(n), Enqueue(n, S) PROVE Same
    <2>1. task'[t] = task[t]
        BY <1>1, <1>2, <1>3 DEF Enqueue, RowsOf
    <2>2. QED
        BY <2>1
<1>4. ASSUME NEW d \in Dispatchers, NEW k \in Kinds, Commit(d, k) PROVE Same
    <2>1. t \notin DOMAIN tx[d][k]
        BY <1>2 DEF LeaseInv, WritesFollow, LockedStatus, Kinds
    <2>2. task'[t] = task[t]
        BY <1>1, <1>4, <2>1 DEF Commit
    <2>3. QED
        BY <2>2
<1>5. ASSUME NEW l \in jobs, UpdateTask(l), task' = [task EXCEPT ![l.task] = Settled(l)]
      PROVE  Same
    <2>1. l.task # t
        <3> SUFFICES ASSUME l.task = t PROVE FALSE
            OBVIOUS
        <3>1. l \in Job /\ l.pc = "update"
            BY <1>5 DEF TypeOK, UpdateTask
        <3>2. Current(l)
            BY <3>1 DEF TimelyInv, Unsettled
        <3>3. l.rc = i.rc /\ l.rc = l.id - 1 /\ i.rc = i.id - 1 /\ l.id \in Nat /\ i.id \in Nat
            BY <1>1, <3>1, <3>2 DEF Current, CountInv, JobsInv, Job
        <3>4. l.id = i.id
            BY <3>3, SamePredecessor
        <3>5. l = i
            BY <3>4 DEF CountInv, JobsInv
        <3> DEFINE next == [i EXCEPT !.pc = "count"]
        <3>6. next.pc = "count" /\ (Becomes(i, next) \/ Returns(i))
            BY <1>1, <1>5, <3>5 DEF UpdateTask, Job
        <3> HIDE DEF next
        <3>7. \A h \in jobs : h.task = t /\ h.id = i.id => h = i
            BY DEF CountInv, JobsInv
        <3>8. QED
            BY <3>6, <3>7 DEF Becomes, Returns, Unsettled
    <2>2. task'[t] = task[t]
        BY <1>1, <1>5, <2>1 DEF TypeOK
    <2>3. QED
        BY <2>2
<1>6. Tick => Same
    BY <1>1, ElapsedRow DEF Tick
<1>7. UNCHANGED task => Same
    OBVIOUS
<1>8. QED
    BY <1>3, <1>4, <1>5, <1>6, <1>7, TableSteps DEF TableStep, RowStep, Crash

(* Under timely workers a failure comes within the budget or buries.       *)
LEMMA TimelyRows ==
    ASSUME TypeOK, LeaseInv, CountInv, TimelyInv, [Next]_vars, NEW t \in Tasks
    PROVE  IF task'[t].status = "dead" THEN task'[t].retryCount = MaxRetry[t] + 1
                                       ELSE task'[t].retryCount <= MaxRetry[t]
<1> DEFINE Bounded(row) == IF row.status = "dead" THEN row.retryCount = MaxRetry[t] + 1
                                                  ELSE row.retryCount <= MaxRetry[t]
<1>1. /\ task[t] \in Row /\ MaxRetry[t] \in Nat
      /\ task[t].retryCount \in Nat /\ Bounded(task[t])
    BY DispatcherAssumption DEF TypeOK, Row, TimelyInv
<1>2. task'[t] = task[t] => Bounded(task'[t])
    BY <1>1
<1>3. ASSUME NEW n \in Notifications, NEW S \in SUBSET TasksOf(n), Enqueue(n, S)
      PROVE  Bounded(task'[t])
    <2>1. NewRow.status = "pending" /\ NewRow.retryCount = 0
        BY DEF NewRow, AbsentRow
    <2>2. task'[t] = task[t] \/ task'[t] = NewRow
        BY <1>3 DEF Enqueue
    <2>3. QED
        BY <1>1, <1>2, <2>1, <2>2
<1>4. ASSUME NEW d \in Dispatchers, NEW k \in Kinds, Commit(d, k) PROVE Bounded(task'[t])
    <2>1. CASE t \notin DOMAIN tx[d][k]
        BY <1>2, <1>4, <2>1 DEF Commit
    <2>2. CASE t \in DOMAIN tx[d][k]
        <3>1. /\ task'[t] = tx[d][k][t] /\ task[t].status \in Active
              /\ ClaimWrites(d, task[t], task'[t]) \/ ExpiryWrites(t, task[t], task'[t])
            BY <1>4, <2>2 DEF Commit, LeaseInv, WritesFollow, LockedStatus, Kinds, Active
        <3>2. task[t].retryCount <= MaxRetry[t]
            BY <1>1, <3>1 DEF Active
        <3>3. QED
            BY <1>1, <3>1, <3>2 DEF ClaimWrites, ExpiryWrites
    <2>3. QED
        BY <2>1, <2>2
<1>5. ASSUME NEW j \in jobs, UpdateTask(j), task' = [task EXCEPT ![j.task] = Settled(j)]
      PROVE  Bounded(task'[t])
    <2>1. CASE t # j.task
        BY <1>2, <1>5, <2>1 DEF TypeOK
    <2>2. CASE t = j.task
        <3>1. task'[t] = Settled(j) /\ j.rc \in Nat
            BY <1>5, <2>2 DEF TypeOK, Job
        <3>2. Current(j)
            BY <1>5 DEF TimelyInv, UpdateTask, Unsettled
        <3>3. task[t].status # "dead" /\ task[t].retryCount = j.rc /\ j.rc <= MaxRetry[t]
            BY <1>1, <2>2, <3>2 DEF Current
        <3>4. CASE j.ok
            BY <1>1, <2>2, <3>1, <3>3, <3>4, SucceededRow DEF Settled
        <3>5. CASE ~j.ok
            <4>1. Settled(j) = Failed(task[t], j.rc, MaxRetry[t])
                BY <2>2, <3>5 DEF Settled
            <4> DEFINE w == Failed(task[t], j.rc, MaxRetry[t])
            <4>2. /\ w.status \in {"failed", "dead"}
                  /\ w.status = "failed" => j.rc < MaxRetry[t]
                  /\ w.status = "dead" => j.rc >= MaxRetry[t]
                  /\ w.retryCount = task[t].retryCount + 1
                BY <1>1, <3>1, FailedRow
            <4> HIDE DEF w
            <4>3. QED
                BY <1>1, <3>1, <3>3, <4>1, <4>2 DEF w
        <3>6. QED
            BY <3>4, <3>5
    <2>3. QED
        BY <2>1, <2>2
<1>6. Tick => Bounded(task'[t])
    BY <1>1, ElapsedRow DEF Tick
<1>7. UNCHANGED task => Bounded(task'[t])
    BY <1>2
<1>8. QED
    BY <1>3, <1>4, <1>5, <1>6, <1>7, TableSteps DEF TableStep, RowStep, Crash

LEMMA TimelyInit == Init => TimelyInv
<1> SUFFICES ASSUME Init PROVE TimelyInv
    OBVIOUS
<1>1. \A t \in Tasks : task[t].status = "absent" /\ task[t].retryCount = 0 /\ MaxRetry[t] \in Nat
    BY DispatcherAssumption DEF Init, AbsentRow
<1>2. jobs = {}
    BY DEF Init
<1>3. QED
    BY <1>1, <1>2 DEF TimelyInv

LEMMA TimelyStep ==
    TypeOK /\ LeaseInv /\ CountInv /\ TimelyInv /\ WorkersTimely /\ [Next]_vars
    /\ LeaseInv' /\ CountInv' => TimelyInv'
<1> SUFFICES ASSUME TypeOK, LeaseInv, CountInv, TimelyInv, WorkersTimely, [Next]_vars,
                    LeaseInv', CountInv'
             PROVE  TimelyInv'
    OBVIOUS
<1>1. ASSUME NEW j \in jobs', j.pc \in Unsettled PROVE Current(j)'
    <2>1. CASE \E i \in jobs : /\ i.pc \in Unsettled
                               /\ i.task = j.task /\ i.id = j.id
                               /\ i.owner = j.owner /\ i.rc = j.rc
        <3>1. PICK i \in jobs : /\ i.pc \in Unsettled
                                /\ i.task = j.task /\ i.id = j.id
                                /\ i.owner = j.owner /\ i.rc = j.rc
            BY <2>1
        <3>2. Current(i) /\ i.task \in Tasks /\ task[i.task].leaseExpireAt # 0
            BY <3>1 DEF TimelyInv, TypeOK, Job, WorkersTimely
        <3>3. \A d \in Dispatchers : i.task \notin DOMAIN tx'[d]["expire"]
            BY <3>2, NotExpiring DEF Current
        <3>4. QED
            BY <1>1, <3>1, <3>2, <3>3, ClaimStays DEF Current
    <2>2. ASSUME NEW d \in Dispatchers, NEW k \in FetchKinds, AcquireEnd(d, k),
                 Commit(d, k), CloseTx(d, k), j \in NewJobs(d, k)
          PROVE  Current(j)'
        <3>1. /\ j.task \in DOMAIN tx[d][k] /\ j.owner = d
              /\ j.rc = tx[d][k][j.task].retryCount
            BY <2>2 DEF NewJobs
        <3>2. k \in Kinds /\ k # "expire" /\ j.task \in Tasks
            BY <3>1 DEF FetchKinds, Kinds, TypeOK
        <3>3. ClaimWrites(d, task[j.task], tx[d][k][j.task])
            BY <3>1, <3>2 DEF LeaseInv, WritesFollow
        <3>4. task'[j.task] = tx[d][k][j.task]
            BY <2>2, <3>1, <3>2 DEF Commit
        <3>5. \A e \in Dispatchers : j.task \notin DOMAIN tx[e]["expire"]
            BY <3>1, <3>2 DEF LeaseInv, LocksExclusive, Kinds
        <3>6. \A e \in Dispatchers : tx'[e]["expire"] = tx[e]["expire"]
            BY <2>2, <3>2 DEF CloseTx, TypeOK
        <3>7. QED
            BY <3>1, <3>3, <3>4, <3>5, <3>6 DEF Current, ClaimWrites
    <2>3. QED
        BY <1>1, <2>1, <2>2, WorkersFrom
<1>2. QED
    BY <1>1, TimelyRows DEF TimelyInv

LEMMA TimelyAlways == Spec /\ []WorkersTimely => [](TypeOK /\ CountInv /\ TimelyInv)
BY TimelyInit, TimelyStep, CountAlways, PTL DEF Spec

(* With leases that never run out on a worker, max_retry is what the       *)
(* README says: no task fails more often and is tried again.               *)
THEOREM TimelyRetryBudget == Spec /\ []WorkersTimely => []RetryBudget
<1>1. TimelyInv => RetryBudget
    BY DEF TimelyInv, RetryBudget
<1>2. QED
    BY <1>1, TimelyAlways, PTL

(* No message is then worked on by two workers at a time, and none is      *)
(* claimed more than max_retry + 1 times.                                  *)
OneWorkerAtATime ==
    \A i, j \in jobs :
        i.pc \in Unsettled /\ j.pc \in Unsettled /\ i.task = j.task => i = j

ClaimsBounded == \A t \in Tasks : claims[t] <= MaxRetry[t] + 1

THEOREM TimelyClaims == Spec /\ []WorkersTimely => [](OneWorkerAtATime /\ ClaimsBounded)
<1>1. TypeOK /\ CountInv /\ TimelyInv => OneWorkerAtATime
    <2> SUFFICES ASSUME TypeOK, CountInv, TimelyInv, NEW i \in jobs, NEW j \in jobs,
                        i.pc \in Unsettled, j.pc \in Unsettled, i.task = j.task
                 PROVE  i = j
        BY DEF OneWorkerAtATime
    <2>1. i.rc = j.rc /\ i.rc = i.id - 1 /\ j.rc = j.id - 1 /\ i.id \in Nat /\ j.id \in Nat
        BY DEF TimelyInv, Current, CountInv, JobsInv, TypeOK, Job
    <2>2. i.id = j.id
        BY <2>1, SamePredecessor
    <2>3. QED
        BY <2>2 DEF CountInv, JobsInv
<1>2. TypeOK /\ CountInv /\ TimelyInv => ClaimsBounded
    <2> SUFFICES ASSUME TypeOK, CountInv, TimelyInv, NEW t \in Tasks
                 PROVE  claims[t] <= MaxRetry[t] + 1
        BY DEF ClaimsBounded
    <2>1. MaxRetry[t] \in Nat /\ task[t].retryCount \in Nat
        BY DispatcherAssumption DEF TypeOK, Row
    <2>2. claims[t] = task[t].retryCount
                      + (IF task[t].status \in {"processing", "success"} THEN 1 ELSE 0)
        BY DEF CountInv, RowsInv, ClaimAccounting
    <2>3. IF task[t].status = "dead" THEN task[t].retryCount = MaxRetry[t] + 1
                                     ELSE task[t].retryCount <= MaxRetry[t]
        BY DEF TimelyInv
    <2>4. QED
        BY <2>1, <2>2, <2>3
<1>3. QED
    BY <1>1, <1>2, TimelyAlways, PTL
=============================================================================
