-------------------------- MODULE DispatcherProofs --------------------------
(***************************************************************************)
(* Proofs about the dispatcher for any number of tasks, notifications and  *)
(* processes, any retry budget, backoff list, lease and batch size, and    *)
(* whatever faults happen.                                                 *)
(***************************************************************************)
EXTENDS DispatcherInvariant, TLAPS

-----------------------------------------------------------------------------
(* The row operations yield rows.                                          *)

(* The backoff is a number of ticks, whatever the configured list.         *)
LEMMA BackoffType ==
    ASSUME NEW rc \in Nat PROVE RetryBackoff(rc) \in Nat
<1>1. CASE RetryBackoffSeconds = << >>
    BY <1>1 DEF RetryBackoff
<1>2. CASE RetryBackoffSeconds # << >>
    <2>1. Len(RetryBackoffSeconds) \in Nat /\ Len(RetryBackoffSeconds) > 0
        BY <1>2, StoreAssumption
    <2>2. \A i \in 1..Len(RetryBackoffSeconds) : RetryBackoffSeconds[i] \in Nat
        BY StoreAssumption
    <2>3. QED
        BY <1>2, <2>1, <2>2 DEF RetryBackoff
<1>3. QED
    BY <1>1, <1>2

(* What each operation does to the columns of a row.                       *)
LEMMA RetriedRow ==
    ASSUME NEW row \in Row, NEW after \in Nat
    PROVE  /\ Retried(row, after) \in Row
           /\ Retried(row, after).status = "failed"
           /\ Retried(row, after).retryCount = row.retryCount + 1
           /\ Retried(row, after).nextRetryAt = after
           /\ Retried(row, after).leaseOwner = NoOwner
           /\ Retried(row, after).leaseExpireAt = Null
<1> DEFINE c == row.retryCount + 1
<1>1. c \in Nat
    BY DEF Row
<1>2. Retried(row, after) =
        [Released(row) EXCEPT !.status = "failed", !.retryCount = c, !.nextRetryAt = after]
    BY DEF Retried
<1> HIDE DEF c
<1>3. Retried(row, after) \in Row /\ Retried(row, after).retryCount = c
        /\ Retried(row, after).status = "failed" /\ Retried(row, after).nextRetryAt = after
        /\ Retried(row, after).leaseOwner = NoOwner
        /\ Retried(row, after).leaseExpireAt = Null
    BY <1>1, <1>2 DEF Released, Row, TaskStatus, Null
<1>4. QED
    BY <1>3 DEF c

LEMMA BuriedRow ==
    ASSUME NEW row \in Row
    PROVE  /\ Buried(row) \in Row
           /\ Buried(row).status = "dead"
           /\ Buried(row).retryCount = row.retryCount + 1
           /\ Buried(row).leaseOwner = NoOwner
           /\ Buried(row).leaseExpireAt = Null
<1> DEFINE c == row.retryCount + 1
<1>1. c \in Nat
    BY DEF Row
<1>2. Buried(row) = [Released(row) EXCEPT !.status = "dead", !.retryCount = c]
    BY DEF Buried
<1> HIDE DEF c
<1>3. Buried(row) \in Row /\ Buried(row).retryCount = c /\ Buried(row).status = "dead"
        /\ Buried(row).leaseOwner = NoOwner /\ Buried(row).leaseExpireAt = Null
    BY <1>1, <1>2 DEF Released, Row, TaskStatus, Null
<1>4. QED
    BY <1>3 DEF c

LEMMA SucceededRow ==
    ASSUME NEW row \in Row
    PROVE  /\ Succeeded(row) \in Row
           /\ Succeeded(row).status = "success"
           /\ Succeeded(row).retryCount = row.retryCount
           /\ Succeeded(row).leaseOwner = NoOwner
           /\ Succeeded(row).leaseExpireAt = Null
BY DEF Succeeded, Released, Row, TaskStatus, Null

LEMMA AcquiredRow ==
    ASSUME NEW row \in Row, NEW d \in Dispatchers
    PROVE  /\ Acquired(row, d) \in Row
           /\ Acquired(row, d).status = "processing"
           /\ Acquired(row, d).retryCount = row.retryCount
           /\ Acquired(row, d).leaseOwner = d
           /\ Acquired(row, d).leaseExpireAt \in Nat
BY StoreAssumption DEF Acquired, Row, TaskStatus

(* An expiry counts a failure and releases the row; it buries the row only *)
(* when the budget is used up.                                             *)
LEMMA ExpiredRow ==
    ASSUME NEW row \in Row, NEW m \in Nat
    PROVE  /\ Expired(row, m) \in Row
           /\ Expired(row, m).status \in {"failed", "dead"}
           /\ Expired(row, m).status = "failed" => Expired(row, m).nextRetryAt \in Nat
           /\ Expired(row, m).status = "dead" => row.retryCount >= m
           /\ Expired(row, m).status = "failed" => row.retryCount < m
           /\ Expired(row, m).retryCount = row.retryCount + 1
           /\ Expired(row, m).leaseOwner = NoOwner
           /\ Expired(row, m).leaseExpireAt = Null
<1>1. row.retryCount \in Nat
    BY DEF Row
<1>2. CASE row.retryCount < m
    BY <1>1, <1>2, BackoffType, RetriedRow DEF Expired
<1>3. CASE ~(row.retryCount < m)
    <2> DEFINE b == Buried(row)
    <2>1. Expired(row, m) = [b EXCEPT !.nextRetryAt = Null]
        BY <1>3 DEF Expired
    <2>2. /\ b \in Row /\ b.status = "dead" /\ b.retryCount = row.retryCount + 1
          /\ b.leaseOwner = NoOwner /\ b.leaseExpireAt = Null
        BY BuriedRow
    <2> HIDE DEF b
    <2>3. /\ Expired(row, m) \in Row /\ Expired(row, m).status = "dead"
          /\ Expired(row, m).retryCount = b.retryCount
          /\ Expired(row, m).leaseOwner = NoOwner
          /\ Expired(row, m).leaseExpireAt = Null
        BY <2>1, <2>2 DEF Row, Null
    <2>4. QED
        BY <1>1, <1>3, <2>2, <2>3
<1>4. QED
    BY <1>2, <1>3

(* A worker's failure counts a failure and releases the row; whether it    *)
(* buries the row depends on the count the worker read.                    *)
LEMMA FailedRow ==
    ASSUME NEW row \in Row, NEW rc \in Nat, NEW m \in Nat
    PROVE  /\ Failed(row, rc, m) \in Row
           /\ Failed(row, rc, m).status \in {"failed", "dead"}
           /\ Failed(row, rc, m).status = "failed" => Failed(row, rc, m).nextRetryAt \in Nat
           /\ Failed(row, rc, m).status = "dead" => rc >= m
           /\ Failed(row, rc, m).status = "failed" => rc < m
           /\ Failed(row, rc, m).retryCount = row.retryCount + 1
           /\ Failed(row, rc, m).leaseOwner = NoOwner
           /\ Failed(row, rc, m).leaseExpireAt = Null
<1>1. CASE rc < m
    BY <1>1, BackoffType, RetriedRow DEF Failed
<1>2. CASE ~(rc < m)
    BY <1>2, BuriedRow DEF Failed
<1>3. QED
    BY <1>1, <1>2

(* Time changes nothing but the timers, and reaches no NULL.               *)
LEMMA ElapsedRow ==
    ASSUME NEW row \in Row
    PROVE  /\ Elapsed(row) \in Row
           /\ Elapsed(row).status = row.status
           /\ Elapsed(row).retryCount = row.retryCount
           /\ Elapsed(row).leaseOwner = row.leaseOwner
           /\ Elapsed(row).leaseExpireAt = Null <=> row.leaseExpireAt = Null
           /\ Elapsed(row).nextRetryAt = Null <=> row.nextRetryAt = Null
<1>1. \A timer \in Nat \cup {Null} :
        Countdown(timer) \in Nat \cup {Null} /\ (Countdown(timer) = Null <=> timer = Null)
    BY DEF Countdown, Null
<1>2. QED
    BY <1>1 DEF Elapsed, Row

LEMMA NewRows == AbsentRow \in Row /\ NewRow \in Row
BY DEF AbsentRow, NewRow, Row, TaskStatus

-----------------------------------------------------------------------------
(* Types. *)

LEMMA LoopTypes ==
    ASSUME NEW S \in SUBSET Notifications, NEW F \in SUBSET FetchKinds
    PROVE  Refreshing(S) \in Loop /\ Acquiring(F) \in Loop /\ At("off") \in Loop
           /\ At("poll") \in Loop
<1>1. Acquiring(F) \in Loop /\ At("off") \in Loop /\ At("poll") \in Loop
    BY DEF Acquiring, At, Loop
<1>2. Acquiring(FetchKinds) \in Loop
    BY DEF Acquiring, At, Loop
<1>3. QED
    BY <1>1, <1>2 DEF Refreshing, At, Loop

LEMMA AggregateType ==
    ASSUME NEW n PROVE Aggregate(n) \in NotificationStatus
BY DEF Aggregate, NotificationStatus

LEMMA WrittenRow ==
    ASSUME TypeOK, NEW d \in Dispatchers, NEW k \in Kinds, NEW t \in Tasks
    PROVE  Written(k, task[t], d, MaxRetry[t]) \in Row
<1>1. MaxRetry[t] \in Nat /\ task[t] \in Row
    BY DispatcherAssumption DEF TypeOK
<1>2. QED
    BY <1>1, ExpiredRow, AcquiredRow DEF Written

LEMMA OpenTxType ==
    ASSUME TypeOK, NEW d \in Dispatchers, NEW k \in Kinds, NEW S \in SUBSET Tasks,
           OpenTx(d, k, S)
    PROVE  /\ DOMAIN tx' = Dispatchers
           /\ \A e \in Dispatchers :
                /\ DOMAIN tx'[e] = Kinds
                /\ \A l \in Kinds : /\ DOMAIN tx'[e][l] \subseteq Tasks
                                    /\ tx'[e][l] \in [DOMAIN tx'[e][l] -> Row]
<1> DEFINE w == [t \in S |-> Written(k, task[t], d, MaxRetry[t])]
<1>1. w \in [S -> Row]
    BY WrittenRow
<1>2. tx' = [tx EXCEPT ![d][k] = w]
    BY DEF OpenTx
<1> HIDE DEF w
<1>3. QED
    BY <1>1, <1>2 DEF TypeOK

LEMMA CloseTxType ==
    ASSUME TypeOK, NEW d \in Dispatchers, NEW k \in Kinds, CloseTx(d, k)
    PROVE  /\ DOMAIN tx' = Dispatchers
           /\ \A e \in Dispatchers :
                /\ DOMAIN tx'[e] = Kinds
                /\ \A l \in Kinds : /\ DOMAIN tx'[e][l] \subseteq Tasks
                                    /\ tx'[e][l] \in [DOMAIN tx'[e][l] -> Row]
<1>1. NoWrites \in [{} -> Row] /\ DOMAIN NoWrites = {}
    BY DEF NoWrites
<1>2. QED
    BY <1>1 DEF TypeOK, CloseTx

LEMMA CommitType ==
    ASSUME TypeOK, NEW d \in Dispatchers, NEW k \in Kinds, Commit(d, k)
    PROVE  task' \in [Tasks -> Row]
BY DEF TypeOK, Commit

LEMMA TypeInit == Init => TypeOK
<1> SUFFICES ASSUME Init PROVE TypeOK
    OBVIOUS
<1>1. At("off") \in Loop
    BY DEF At, Loop
<1>2. NoWrites \in [{} -> Row] /\ DOMAIN NoWrites = {}
    BY DEF NoWrites
<1>3. QED
    BY <1>1, <1>2, NewRows DEF Init, TypeOK, NotificationStatus, Phases

LEMMA TypeNext == TypeOK /\ [Next]_vars => TypeOK'
<1> SUFFICES ASSUME TypeOK, [Next]_vars PROVE TypeOK'
    OBVIOUS
<1>1. ASSUME NEW n \in Notifications, NEW S \in SUBSET TasksOf(n), Enqueue(n, S)
      PROVE  TypeOK'
    BY <1>1, NewRows DEF TypeOK, Enqueue
<1>2. ASSUME NEW d \in Dispatchers, Start(d) PROVE TypeOK'
    BY <1>2, LoopTypes DEF TypeOK, Start, Phases
<1>3. ASSUME NEW d \in Dispatchers, Terminate(d) PROVE TypeOK'
    BY <1>3 DEF TypeOK, Terminate, Phases
<1>4. ASSUME NEW d \in Dispatchers, LoopExit(d) PROVE TypeOK'
    BY <1>4, LoopTypes DEF TypeOK, LoopExit
<1>5. ASSUME NEW d \in Dispatchers, StopReturns(d) PROVE TypeOK'
    BY <1>5 DEF TypeOK, StopReturns, Phases
<1>6. ASSUME NEW d \in Dispatchers, Crash(d) PROVE TypeOK'
    <2>1. [k \in Kinds |-> NoWrites] \in [Kinds -> [{} -> Row]] /\ DOMAIN NoWrites = {}
        BY DEF NoWrites
    <2>2. QED
        BY <1>6, <2>1, LoopTypes DEF TypeOK, Crash, Phases
<1>7. ASSUME NEW d \in Dispatchers, ExpireSelect(d) PROVE TypeOK'
    <2>1. PICK o \in Outcomes(d), S \in Batches("expire") :
            IF o = "ok" /\ S # {}
            THEN OpenTx(d, "expire", S) /\ UNCHANGED loop
            ELSE loop' = [loop EXCEPT ![d] = Acquiring(FetchKinds)] /\ UNCHANGED tx
        BY <1>7 DEF ExpireSelect
    <2>2. S \in SUBSET Tasks /\ "expire" \in Kinds
        BY DEF Batches, Selectable, Kinds
    <2>3. CASE OpenTx(d, "expire", S) /\ UNCHANGED loop
        BY <1>7, <2>2, <2>3, OpenTxType DEF TypeOK, ExpireSelect
    <2>4. CASE loop' = [loop EXCEPT ![d] = Acquiring(FetchKinds)] /\ UNCHANGED tx
        BY <1>7, <2>4, LoopTypes DEF TypeOK, ExpireSelect
    <2>5. QED
        BY <2>1, <2>3, <2>4
<1>8. ASSUME NEW d \in Dispatchers, ExpireEnd(d) PROVE TypeOK'
    <2>1. "expire" \in Kinds
        BY DEF Kinds
    <2>2. {NotificationOf[t] : t \in DOMAIN tx[d]["expire"]} \in SUBSET Notifications
        BY <2>1, DispatcherAssumption DEF TypeOK
    <2>3. loop' \in [Dispatchers -> Loop]
        <3>1. PICK o \in Outcomes(d) :
                loop' = [loop EXCEPT ![d] =
                  IF o = "ok"
                  THEN Refreshing({NotificationOf[t] : t \in DOMAIN tx[d]["expire"]})
                  ELSE Acquiring(FetchKinds)]
            BY <1>8 DEF ExpireEnd
        <3>2. Acquiring(FetchKinds) \in Loop
            BY LoopTypes
        <3>3. QED
            BY <2>2, <3>1, <3>2, LoopTypes DEF TypeOK
    <2>4. task' \in [Tasks -> Row]
        BY <1>8, <2>1, CommitType DEF TypeOK, ExpireEnd
    <2>5. CloseTx(d, "expire")
        BY <1>8 DEF ExpireEnd
    <2>6. QED
        BY <1>8, <2>1, <2>3, <2>4, <2>5, CloseTxType DEF TypeOK, ExpireEnd
<1>9. ASSUME NEW d \in Dispatchers, LoopCount(d) PROVE TypeOK'
    <2>1. PICK o \in Outcomes(d), n \in loop[d].todo :
            loop' = [loop EXCEPT ![d] =
               IF o = "ok" THEN [@ EXCEPT !.write = {<<n, Aggregate(n)>>}]
                           ELSE Refreshing(@.todo \ {n})]
        BY <1>9 DEF LoopCount
    <2>2. loop[d] \in Loop /\ loop[d].todo \subseteq Notifications /\ n \in Notifications
        BY DEF TypeOK, Loop
    <2>3. {<<n, Aggregate(n)>>} \in SUBSET (Notifications \X NotificationStatus)
        BY <2>2, AggregateType
    <2>4. [loop[d] EXCEPT !.write = {<<n, Aggregate(n)>>}] \in Loop
        BY <2>2, <2>3 DEF Loop
    <2>5. Refreshing(loop[d].todo \ {n}) \in Loop
        BY <2>2, LoopTypes
    <2>6. loop' \in [Dispatchers -> Loop]
        BY <2>1, <2>4, <2>5 DEF TypeOK
    <2>7. QED
        BY <1>9, <2>6 DEF TypeOK, LoopCount
<1>10. ASSUME NEW d \in Dispatchers, LoopWrite(d) PROVE TypeOK'
    <2>1. PICK o \in Outcomes(d), w \in loop[d].write :
            /\ notif' = IF o = "failed" THEN notif ELSE [notif EXCEPT ![w[1]] = w[2]]
            /\ loop' = [loop EXCEPT ![d] = Refreshing(@.todo \ {w[1]})]
        BY <1>10 DEF LoopWrite
    <2>2. w[1] \in Notifications /\ w[2] \in NotificationStatus
          /\ loop[d].todo \subseteq Notifications
        BY DEF TypeOK, Loop
    <2>3. notif' \in [Notifications -> NotificationStatus]
        BY <2>1, <2>2 DEF TypeOK
    <2>4. Refreshing(loop[d].todo \ {w[1]}) \in Loop
        BY <2>2, LoopTypes
    <2>5. QED
        BY <1>10, <2>1, <2>3, <2>4 DEF TypeOK, LoopWrite
<1>11. ASSUME NEW d \in Dispatchers, NEW k \in FetchKinds, AcquireSelect(d, k)
       PROVE  TypeOK'
    <2>1. PICK o \in Outcomes(d), S \in Batches(k) :
            IF o = "ok" /\ S # {}
            THEN OpenTx(d, k, S) /\ UNCHANGED loop
            ELSE loop' = [loop EXCEPT ![d] = Acquiring(@.fetch \ {k})] /\ UNCHANGED tx
        BY <1>11 DEF AcquireSelect
    <2>2. S \in SUBSET Tasks /\ k \in Kinds
        BY DEF Batches, Selectable, Kinds, FetchKinds
    <2>3. CASE OpenTx(d, k, S) /\ UNCHANGED loop
        BY <1>11, <2>2, <2>3, OpenTxType DEF TypeOK, AcquireSelect
    <2>4. CASE loop' = [loop EXCEPT ![d] = Acquiring(@.fetch \ {k})] /\ UNCHANGED tx
        <3>1. loop[d].fetch \ {k} \in SUBSET FetchKinds
            BY DEF TypeOK, Loop
        <3>2. QED
            BY <1>11, <2>4, <3>1, LoopTypes DEF TypeOK, AcquireSelect
    <2>5. QED
        BY <2>1, <2>3, <2>4
<1>12. ASSUME NEW d \in Dispatchers, NEW k \in FetchKinds, AcquireEnd(d, k)
       PROVE  TypeOK'
    <2>1. k \in Kinds
        BY DEF Kinds, FetchKinds
    <2>2. NewJobs(d, k) \subseteq Job
        <3>1. ASSUME NEW t \in DOMAIN tx[d][k]
              PROVE  t \in Tasks /\ tx[d][k][t].retryCount \in Nat /\ claims[t] + 1 \in Nat
            BY <2>1 DEF TypeOK, Row
        <3>2. ASSUME NEW x \in NewJobs(d, k) PROVE x \in Job
            <4>1. PICK t \in DOMAIN tx[d][k] :
                    x = [task |-> t, id |-> claims[t] + 1, owner |-> d,
                         rc |-> tx[d][k][t].retryCount, pc |-> "start", ok |-> FALSE,
                         agg |-> "pending"]
                BY <3>2 DEF NewJobs
            <4> DEFINE id == claims[t] + 1
                       rc == tx[d][k][t].retryCount
            <4>2. t \in Tasks /\ id \in Nat /\ rc \in Nat
                BY <3>1
            <4>3. x = [task |-> t, id |-> id, owner |-> d, rc |-> rc,
                       pc |-> "start", ok |-> FALSE, agg |-> "pending"]
                BY <4>1
            <4> HIDE DEF id, rc
            <4>4. QED
                BY <4>2, <4>3 DEF Job, NotificationStatus
        <3>3. QED
            BY <3>2
    <2>3. task' \in [Tasks -> Row] /\ claims' \in [Tasks -> Nat]
        BY <1>12, <2>1, CommitType DEF TypeOK, AcquireEnd
    <2>4. jobs' \subseteq Job
        BY <1>12, <2>2 DEF TypeOK, AcquireEnd
    <2>5. loop[d].fetch \ {k} \in SUBSET FetchKinds
        BY DEF TypeOK, Loop
    <2>6. loop' \in [Dispatchers -> Loop]
        BY <1>12, <2>5, LoopTypes DEF TypeOK, AcquireEnd
    <2>7. CloseTx(d, k)
        BY <1>12 DEF AcquireEnd
    <2>8. QED
        BY <1>12, <2>1, <2>3, <2>4, <2>6, <2>7, CloseTxType DEF TypeOK, AcquireEnd
<1>13. ASSUME NEW j \in jobs, JobStep(j) PROVE TypeOK'
    <2>1. j \in Job /\ j.task \in Tasks /\ j.rc \in Nat /\ j.id \in Nat
          /\ task[j.task] \in Row /\ MaxRetry[j.task] \in Nat
        BY DispatcherAssumption DEF TypeOK, Job
    <2>2. \A pc \in {"start", "send", "record", "update", "count", "write"} :
            [j EXCEPT !.pc = pc] \in Job
        BY <2>1 DEF Job
    <2>3. CASE PrepareOk(j)
        BY <2>2, <2>3 DEF TypeOK, PrepareOk, Becomes
    <2>4. CASE PrepareFails(j)
        BY <2>2, <2>4 DEF TypeOK, PrepareFails, Becomes
    <2>5. CASE SendReturns(j)
        <3>1. \A ok \in BOOLEAN : [j EXCEPT !.pc = "record", !.ok = ok] \in Job
            BY <2>1 DEF Job
        <3>2. delivered' \in [Tasks -> {"no", "blank", "yes"}]
            BY <2>1, <2>5 DEF TypeOK, SendReturns, Heard
        <3>3. PICK ok \in BOOLEAN : Becomes(j, [j EXCEPT !.pc = "record", !.ok = ok])
            BY <2>5 DEF SendReturns
        <3>4. jobs' \subseteq Job
            BY <3>1, <3>3 DEF TypeOK, Becomes
        <3>5. QED
            BY <2>5, <3>2, <3>4 DEF TypeOK, SendReturns
    <2>6. CASE RecordAttempt(j)
        <3>1. j.rc + 1 \in Nat
            BY <2>1
        <3>2. [task |-> j.task, id |-> j.id, no |-> j.rc + 1, ok |-> j.ok] \in Attempt
            BY <2>1, <3>1 DEF Attempt, Job
        <3>3. QED
            BY <2>2, <2>6, <3>2 DEF TypeOK, RecordAttempt, Becomes
    <2>7. CASE UpdateTask(j)
        <3>1. Settled(j) \in Row
            BY <2>1, SucceededRow, FailedRow DEF Settled
        <3>2. QED
            BY <2>2, <2>7, <3>1 DEF TypeOK, UpdateTask, Becomes, Returns
    <2>8. CASE JobCount(j)
        <3>1. \A a \in NotificationStatus : [j EXCEPT !.pc = "write", !.agg = a] \in Job
            BY <2>1 DEF Job
        <3>2. QED
            BY <2>8, <3>1, AggregateType DEF TypeOK, JobCount, Becomes, Returns
    <2>9. CASE JobWrite(j)
        <3>1. j.agg \in NotificationStatus
            BY <2>1 DEF Job
        <3>2. QED
            BY <2>9, <3>1 DEF TypeOK, JobWrite, Returns
    <2>10. QED
        BY <1>13, <2>3, <2>4, <2>5, <2>6, <2>7, <2>8, <2>9 DEF JobStep
<1>14. CASE Tick
    <2>1. task' \in [Tasks -> Row]
        BY <1>14, ElapsedRow DEF TypeOK, Tick
    <2>2. QED
        BY <1>14, <2>1, ElapsedRow DEF TypeOK, Tick
<1>15. CASE UNCHANGED vars
    BY <1>15 DEF TypeOK, vars
<1>16. QED
    BY <1>1, <1>2, <1>3, <1>4, <1>5, <1>6, <1>7, <1>8, <1>9, <1>10, <1>11, <1>12,
       <1>13, <1>14, <1>15 DEF Next, LoopStep

(* Every variable keeps its type, whatever fails.                          *)
THEOREM TypeCorrect == Spec => []TypeOK
BY TypeInit, TypeNext, PTL DEF Spec

-----------------------------------------------------------------------------
(* Leases and locks. *)

(* What the dispatchers do, and time: all steps but those of the engine.   *)
DispatchStep ==
    \/ \E d \in Dispatchers :
        \/ Start(d) \/ Terminate(d) \/ LoopExit(d) \/ StopReturns(d) \/ Crash(d)
        \/ LoopStep(d)
    \/ \E j \in jobs : JobStep(j)
    \/ Tick

(* All such a step can do to the rows and the transactions.                *)
RowStep ==
    \/ UNCHANGED <<task, tx>>
    \/ \E d \in Dispatchers, k \in Kinds : \E S \in Batches(k) :
            OpenTx(d, k, S) /\ UNCHANGED task
    \/ \E d \in Dispatchers, k \in Kinds : CloseTx(d, k) /\ (UNCHANGED task \/ Commit(d, k))
    \/ \E d \in Dispatchers : Crash(d)
    \/ \E j \in jobs : /\ UpdateTask(j)
                       /\ ~Locked(j.task) /\ LeaseHeld(task[j.task], j.owner)
                       /\ task' = [task EXCEPT ![j.task] = Settled(j)]
                       /\ UNCHANGED tx
    \/ Tick

TableStep ==
    \/ RowStep
    \/ \E n \in Notifications : \E S \in SUBSET TasksOf(n) : Enqueue(n, S)

LEMMA RowSteps == DispatchStep \/ UNCHANGED vars => RowStep
<1> SUFFICES ASSUME DispatchStep \/ UNCHANGED vars PROVE RowStep
    OBVIOUS
<1>1. FetchKinds \subseteq Kinds /\ "expire" \in Kinds
    BY DEF FetchKinds, Kinds
<1>2. ASSUME NEW d \in Dispatchers,
             \/ Start(d) \/ Terminate(d) \/ LoopExit(d) \/ StopReturns(d)
             \/ LoopCount(d) \/ LoopWrite(d)
      PROVE  RowStep
    BY <1>2 DEF RowStep, Start, Terminate, LoopExit, StopReturns, LoopCount, LoopWrite
<1>3. ASSUME NEW d \in Dispatchers, ExpireSelect(d) PROVE RowStep
    BY <1>1, <1>3 DEF RowStep, ExpireSelect
<1>4. ASSUME NEW d \in Dispatchers, ExpireEnd(d) PROVE RowStep
    BY <1>1, <1>4 DEF RowStep, ExpireEnd
<1>5. ASSUME NEW d \in Dispatchers, NEW k \in FetchKinds, AcquireSelect(d, k) PROVE RowStep
    BY <1>1, <1>5 DEF RowStep, AcquireSelect
<1>6. ASSUME NEW d \in Dispatchers, NEW k \in FetchKinds, AcquireEnd(d, k) PROVE RowStep
    BY <1>1, <1>6 DEF RowStep, AcquireEnd
<1>7. ASSUME NEW j \in jobs, JobStep(j) PROVE RowStep
    <2>1. CASE UpdateTask(j)
        BY <2>1 DEF RowStep, UpdateTask
    <2>2. CASE ~UpdateTask(j)
        BY <1>7, <2>2 DEF RowStep, JobStep, PrepareOk, PrepareFails, SendReturns,
                          RecordAttempt, JobCount, JobWrite
    <2>3. QED
        BY <2>1, <2>2
<1>8. CASE UNCHANGED vars
    BY <1>8 DEF RowStep, vars
<1>9. ASSUME NEW d \in Dispatchers, Crash(d) PROVE RowStep
    BY <1>9 DEF RowStep
<1>10. QED
    BY <1>2, <1>3, <1>4, <1>5, <1>6, <1>7, <1>8, <1>9 DEF DispatchStep, LoopStep, RowStep

LEMMA TableSteps == [Next]_vars => TableStep
BY RowSteps DEF Next, DispatchStep, TableStep

LEMMA OpenTxLease ==
    ASSUME TypeOK, LeaseInv, NEW d \in Dispatchers, NEW k \in Kinds, NEW S \in Batches(k),
           OpenTx(d, k, S), UNCHANGED task
    PROVE  LeaseInv'
<1> DEFINE w == [t \in S |-> Written(k, task[t], d, MaxRetry[t])]
<1>1. tx' = [tx EXCEPT ![d][k] = w]
    BY DEF OpenTx
<1>2. S \subseteq Tasks /\ (\A t \in S : Selects(k, task[t]) /\ ~Locked(t))
    BY DEF Batches, Selectable
<1>3. ASSUME NEW t \in S
      PROVE  /\ task[t].status = LockedStatus(k)
             /\ k # "expire" => ClaimWrites(d, task[t], w[t])
             /\ k = "expire" => ExpiryWrites(t, task[t], w[t])
    <2>1. task[t] \in Row /\ MaxRetry[t] \in Nat /\ w[t] = Written(k, task[t], d, MaxRetry[t])
        BY <1>2, DispatcherAssumption DEF TypeOK
    <2> HIDE DEF w
    <2>2. task[t].status = LockedStatus(k)
        BY <1>2 DEF Selects, LockedStatus, Kinds
    <2>3. ASSUME k # "expire" PROVE ClaimWrites(d, task[t], w[t])
        <3>1. w[t] = Acquired(task[t], d)
            BY <2>1, <2>3 DEF Written
        <3>2. QED
            BY <2>1, <3>1, AcquiredRow DEF ClaimWrites, Null
    <2>4. ASSUME k = "expire" PROVE ExpiryWrites(t, task[t], w[t])
        <3>1. w[t] = Expired(task[t], MaxRetry[t])
            BY <2>1, <2>4 DEF Written
        <3>2. \A x \in Nat : x # Null
            BY DEF Null
        <3> DEFINE e == Expired(task[t], MaxRetry[t])
        <3>3. /\ e.status \in {"failed", "dead"} /\ e.leaseOwner = NoOwner
              /\ e.leaseExpireAt = Null /\ e.retryCount = task[t].retryCount + 1
              /\ e.status = "failed" => e.nextRetryAt \in Nat /\ task[t].retryCount < MaxRetry[t]
              /\ e.status = "dead" => task[t].retryCount >= MaxRetry[t]
            BY <2>1, ExpiredRow
        <3> HIDE DEF e
        <3>4. w[t] = e
            BY <3>1 DEF e
        <3>5. QED
            BY <3>2, <3>3, <3>4 DEF ExpiryWrites
    <2>5. QED
        BY <2>2, <2>3, <2>4
<1>4. DOMAIN w = S
    OBVIOUS
<1> HIDE DEF w
<1>5. \A e \in Dispatchers, l \in Kinds :
        tx'[e][l] = IF e = d /\ l = k THEN w ELSE tx[e][l]
    BY <1>1 DEF TypeOK
<1>6. LocksExclusive'
    BY <1>2, <1>4, <1>5 DEF LocksExclusive, LeaseInv, Locked
<1>7. WritesFollow'
    BY <1>3, <1>4, <1>5 DEF WritesFollow, LeaseInv, ClaimWrites, ExpiryWrites
<1>8. NoStrandedRow'
    BY DEF NoStrandedRow, LeaseInv
<1>9. QED
    BY <1>6, <1>7, <1>8 DEF LeaseInv

LEMMA CloseTxLease ==
    ASSUME TypeOK, LeaseInv, NEW d \in Dispatchers, NEW k \in Kinds,
           CloseTx(d, k), UNCHANGED task \/ Commit(d, k)
    PROVE  LeaseInv'
<1>1. \A e \in Dispatchers, l \in Kinds :
        tx'[e][l] = IF e = d /\ l = k THEN NoWrites ELSE tx[e][l]
    BY DEF TypeOK, CloseTx
<1>2. DOMAIN NoWrites = {}
    BY DEF NoWrites
<1>3. LocksExclusive'
    BY <1>1, <1>2 DEF LocksExclusive, LeaseInv
<1>4. CASE UNCHANGED task
    <2>1. WritesFollow'
        BY <1>1, <1>2, <1>4 DEF WritesFollow, LeaseInv, ClaimWrites, ExpiryWrites
    <2>2. NoStrandedRow'
        BY <1>4 DEF NoStrandedRow, LeaseInv
    <2>3. QED
        BY <1>3, <2>1, <2>2 DEF LeaseInv
<1>5. CASE Commit(d, k)
    <2>1. \A t \in Tasks : task'[t] = IF t \in DOMAIN tx[d][k] THEN tx[d][k][t] ELSE task[t]
        BY <1>5 DEF Commit
    <2>2. WritesFollow'
        <3> SUFFICES ASSUME NEW e \in Dispatchers, NEW l \in Kinds, NEW t \in DOMAIN tx'[e][l]
                     PROVE  /\ task'[t].status = LockedStatus(l)
                            /\ l # "expire" => ClaimWrites(e, task'[t], tx'[e][l][t])
                            /\ l = "expire" => ExpiryWrites(t, task'[t], tx'[e][l][t])
            BY DEF WritesFollow, ClaimWrites, ExpiryWrites
        <3>1. tx'[e][l] = tx[e][l] /\ t \in Tasks /\ t \notin DOMAIN tx[d][k]
            BY <1>1, <1>2 DEF LeaseInv, LocksExclusive, TypeOK
        <3>2. task'[t] = task[t]
            BY <2>1, <3>1
        <3>3. QED
            BY <3>1, <3>2 DEF LeaseInv, WritesFollow
    <2>3. NoStrandedRow'
        <3> SUFFICES ASSUME NEW t \in Tasks
                     PROVE  /\ task'[t].status = "processing" <=> task'[t].leaseOwner # NoOwner
                            /\ task'[t].status = "processing" <=> task'[t].leaseExpireAt # Null
                            /\ task'[t].status = "failed" => task'[t].nextRetryAt # Null
            BY DEF NoStrandedRow
        <3>1. CASE t \notin DOMAIN tx[d][k]
            BY <2>1, <3>1 DEF LeaseInv, NoStrandedRow
        <3>2. CASE t \in DOMAIN tx[d][k]
            <4>1. task'[t] = tx[d][k][t]
                BY <2>1, <3>2
            <4>2. \/ ClaimWrites(d, task[t], tx[d][k][t])
                  \/ ExpiryWrites(t, task[t], tx[d][k][t])
                BY <3>2 DEF LeaseInv, WritesFollow
            <4>3. d # NoOwner
                BY StoreAssumption
            <4>4. QED
                BY <4>1, <4>2, <4>3 DEF ClaimWrites, ExpiryWrites
        <3>3. QED
            BY <3>1, <3>2
    <2>4. QED
        BY <1>3, <2>2, <2>3 DEF LeaseInv
<1>6. QED
    BY <1>4, <1>5

LEMMA CrashLease ==
    ASSUME TypeOK, LeaseInv, NEW d \in Dispatchers, Crash(d)
    PROVE  LeaseInv'
<1>1. DOMAIN NoWrites = {}
    BY DEF NoWrites
<1>2. \A e \in Dispatchers, l \in Kinds : tx'[e][l] = IF e = d THEN NoWrites ELSE tx[e][l]
    BY DEF TypeOK, Crash
<1>3. LocksExclusive'
    BY <1>1, <1>2 DEF LocksExclusive, LeaseInv
<1>4. WritesFollow'
    BY <1>1, <1>2 DEF WritesFollow, LeaseInv, ClaimWrites, ExpiryWrites, Crash
<1>5. NoStrandedRow'
    BY DEF NoStrandedRow, LeaseInv, Crash
<1>6. QED
    BY <1>3, <1>4, <1>5 DEF LeaseInv

LEMMA UpdateLease ==
    ASSUME TypeOK, LeaseInv, NEW j \in jobs, ~Locked(j.task),
           task' = [task EXCEPT ![j.task] = Settled(j)], UNCHANGED tx
    PROVE  LeaseInv'
<1>1. /\ j.task \in Tasks /\ j.rc \in Nat /\ task[j.task] \in Row
      /\ MaxRetry[j.task] \in Nat
    BY DispatcherAssumption DEF TypeOK, Job
<1>2. /\ Settled(j).leaseOwner = NoOwner /\ Settled(j).leaseExpireAt = Null
      /\ Settled(j).status \in {"success", "failed", "dead"}
      /\ Settled(j).status = "failed" => Settled(j).nextRetryAt # Null
    <2>1. CASE j.ok
        BY <1>1, <2>1, SucceededRow DEF Settled
    <2>2. CASE ~j.ok
        <3>1. Settled(j) = Failed(task[j.task], j.rc, MaxRetry[j.task])
            BY <2>2 DEF Settled
        <3>2. \A x \in Nat : x # Null
            BY DEF Null
        <3> DEFINE w == Failed(task[j.task], j.rc, MaxRetry[j.task])
        <3>3. /\ w.status \in {"failed", "dead"}
              /\ w.status = "failed" => w.nextRetryAt \in Nat
              /\ w.leaseOwner = NoOwner /\ w.leaseExpireAt = Null
            BY <1>1, FailedRow
        <3> HIDE DEF w
        <3>4. Settled(j) = w
            BY <3>1 DEF w
        <3>5. QED
            BY <3>2, <3>3, <3>4
    <2>3. QED
        BY <2>1, <2>2
<1>3. \A t \in Tasks : task'[t] = IF t = j.task THEN Settled(j) ELSE task[t]
    BY DEF TypeOK
<1>4. NoStrandedRow'
    BY <1>2, <1>3 DEF NoStrandedRow, LeaseInv
<1>5. LocksExclusive'
    BY DEF LocksExclusive, LeaseInv
<1>6. WritesFollow'
    BY <1>3 DEF WritesFollow, LeaseInv, ClaimWrites, ExpiryWrites, Locked, TypeOK
<1>7. QED
    BY <1>4, <1>5, <1>6 DEF LeaseInv

LEMMA EnqueueLease ==
    ASSUME TypeOK, LeaseInv, NEW n \in Notifications, NEW S \in SUBSET TasksOf(n), Enqueue(n, S)
    PROVE  LeaseInv'
<1>1. NewRow.status = "pending" /\ NewRow.leaseOwner = NoOwner /\ NewRow.leaseExpireAt = Null
    BY DEF NewRow, AbsentRow
<1>2. \A t \in Tasks : task'[t] = task[t] \/ (task[t].status = "absent" /\ task'[t] = NewRow)
    BY DEF Enqueue, RowsOf
<1>3. NoStrandedRow'
    BY <1>1, <1>2 DEF NoStrandedRow, LeaseInv
<1>4. LocksExclusive'
    BY DEF LocksExclusive, LeaseInv, Enqueue
<1>5. WritesFollow'
    <2>1. tx' = tx
        BY DEF Enqueue
    <2>2. \A d \in Dispatchers, k \in Kinds : \A t \in DOMAIN tx[d][k] :
            t \in Tasks /\ task[t].status # "absent"
        BY DEF LeaseInv, WritesFollow, LockedStatus, Kinds, TypeOK
    <2>3. QED
        BY <1>2, <2>1, <2>2 DEF WritesFollow, LeaseInv, ClaimWrites, ExpiryWrites
<1>6. QED
    BY <1>3, <1>4, <1>5 DEF LeaseInv

LEMMA TickLease ==
    ASSUME TypeOK, LeaseInv, Tick
    PROVE  LeaseInv'
<1>1. \A t \in Tasks : task[t] \in Row /\ task'[t] = Elapsed(task[t])
    BY DEF TypeOK, Tick
<1>2. \A d \in Dispatchers, k \in Kinds :
        /\ DOMAIN tx'[d][k] = DOMAIN tx[d][k]
        /\ \A t \in DOMAIN tx[d][k] : /\ t \in Tasks /\ tx[d][k][t] \in Row
                                      /\ tx'[d][k][t] = Elapsed(tx[d][k][t])
    BY DEF TypeOK, Tick
<1>3. NoStrandedRow'
    BY <1>1, ElapsedRow DEF NoStrandedRow, LeaseInv
<1>4. LocksExclusive'
    BY <1>2 DEF LocksExclusive, LeaseInv
<1>5. WritesFollow'
    BY <1>1, <1>2, ElapsedRow DEF WritesFollow, LeaseInv, ClaimWrites, ExpiryWrites
<1>6. QED
    BY <1>3, <1>4, <1>5 DEF LeaseInv

LEMMA LeaseInit == Init => LeaseInv
<1> SUFFICES ASSUME Init PROVE LeaseInv
    OBVIOUS
<1>1. DOMAIN NoWrites = {}
    BY DEF NoWrites
<1>2. \A d \in Dispatchers, k \in Kinds : DOMAIN tx[d][k] = {}
    BY <1>1 DEF Init
<1>3. \A t \in Tasks : task[t] = AbsentRow
    BY DEF Init
<1>4. NoStrandedRow
    BY <1>3 DEF NoStrandedRow, AbsentRow
<1>5. QED
    BY <1>2, <1>4 DEF LeaseInv, LocksExclusive, WritesFollow

LEMMA LeaseStep == TypeOK /\ LeaseInv /\ [Next]_vars => LeaseInv'
<1> SUFFICES ASSUME TypeOK, LeaseInv, [Next]_vars PROVE LeaseInv'
    OBVIOUS
<1>1. CASE UNCHANGED <<task, tx>>
    BY <1>1 DEF LeaseInv, NoStrandedRow, LocksExclusive, WritesFollow, ClaimWrites, ExpiryWrites
<1>2. QED
    BY <1>1, TableSteps, OpenTxLease, CloseTxLease, CrashLease, UpdateLease, EnqueueLease,
       TickLease DEF TableStep, RowStep

(* No row is ever out of reach of the queries of the dispatchers.          *)
THEOREM NoRowStranded == Spec => []NoStrandedRow
<1>1. LeaseInv => NoStrandedRow
    BY DEF LeaseInv
<1>2. QED
    BY <1>1, TypeCorrect, LeaseInit, LeaseStep, PTL DEF Spec

-----------------------------------------------------------------------------
(* Claims, retry counts and attempts. *)

(* What has been heard of a message is not forgotten.                      *)
LEMMA VouchedSame ==
    ASSUME UNCHANGED delivered
    PROVE  \A t : Vouched(t)' <=> Vouched(t)
BY DEF Vouched

LEMMA RowsSame ==
    ASSUME TypeOK, RowsInv, UNCHANGED <<task, claims>>,
           \A t \in Tasks : Vouched(t) => Vouched(t)'
    PROVE  RowsInv'
BY DEF RowsInv, ClaimAccounting, SuccessWasDelivered

(* A worker goes on with its claim. *)
LEMMA BecomesJobs ==
    ASSUME TypeOK, JobsInv, NEW j \in jobs, NEW next, Becomes(j, next),
           next.task = j.task, next.id = j.id, next.rc = j.rc,
           next.ok => Vouched(j.task)', UNCHANGED claims,
           \A t \in Tasks : Vouched(t) => Vouched(t)'
    PROVE  JobsInv'
<1>1. \A i \in jobs' : i = next \/ (i \in jobs /\ i # j)
    BY DEF Becomes
<1>2. \A i \in jobs : i.task \in Tasks
    BY DEF TypeOK, Job
<1>3. \A i \in jobs' : /\ i.id >= 1 /\ i.id <= claims'[i.task] /\ i.rc = i.id - 1
                       /\ i.ok => Vouched(i.task)'
    <2> SUFFICES ASSUME NEW i \in jobs'
                 PROVE  /\ i.id >= 1 /\ i.id <= claims'[i.task] /\ i.rc = i.id - 1
                        /\ i.ok => Vouched(i.task)'
        OBVIOUS
    <2>1. /\ j.id >= 1 /\ j.id <= claims[j.task] /\ j.rc = j.id - 1
          /\ claims' = claims
        BY DEF JobsInv
    <2>2. CASE i = next
        <3>1. i.id = j.id /\ i.rc = j.rc /\ i.task = j.task /\ (i.ok => Vouched(j.task)')
            BY <2>2
        <3>2. QED
            BY <2>1, <3>1
    <2>3. CASE i \in jobs
        BY <1>2, <2>1, <2>3 DEF JobsInv
    <2>4. QED
        BY <1>1, <2>2, <2>3
<1>4. \A h, i \in jobs' : h.task = i.task /\ h.id = i.id => h = i
    BY <1>1 DEF JobsInv
<1>5. QED
    BY <1>3, <1>4 DEF JobsInv

LEMMA FewerJobs ==
    ASSUME TypeOK, JobsInv, jobs' \subseteq jobs, UNCHANGED claims,
           \A t \in Tasks : Vouched(t) => Vouched(t)'
    PROVE  JobsInv'
<1>1. \A i \in jobs : i.task \in Tasks
    BY DEF TypeOK, Job
<1>2. QED
    BY <1>1 DEF JobsInv

LEMMA BecomesAttempts ==
    ASSUME AttemptsInv, NEW j \in jobs, NEW next, Becomes(j, next),
           next.task = j.task, next.id = j.id,
           next.pc \in {"start", "send", "record"} => j.pc \in {"start", "send", "record"},
           UNCHANGED <<attempts, claims>>
    PROVE  AttemptsInv'
<1>1. \A i \in jobs' : i = next \/ i \in jobs
    BY DEF Becomes
<1>2. QED
    BY <1>1 DEF AttemptsInv

LEMMA FewerJobsAttempts ==
    ASSUME AttemptsInv, jobs' \subseteq jobs, UNCHANGED <<attempts, claims>>
    PROVE  AttemptsInv'
BY DEF AttemptsInv

(* The rows change, but neither the claims nor the workers do.             *)
LEMMA RowsChange ==
    ASSUME TypeOK, RowsInv, UNCHANGED <<claims, delivered>>,
           \A t \in Tasks :
             \/ /\ task'[t].status = task[t].status
                /\ task'[t].retryCount = task[t].retryCount
             \/ /\ task[t].status = "absent" /\ task'[t].status = "pending"
                /\ task'[t].retryCount = 0
             \/ /\ task[t].status = "processing" /\ task'[t].status \in {"failed", "dead"}
                /\ task'[t].retryCount = task[t].retryCount + 1
                /\ task'[t].status = "dead" => task[t].retryCount >= MaxRetry[t]
             \/ /\ task[t].status = "processing" /\ task'[t].status = "success"
                /\ task'[t].retryCount = task[t].retryCount /\ Vouched(t)
    PROVE  RowsInv'
<1> SUFFICES ASSUME NEW t \in Tasks
             PROVE  /\ claims'[t] = task'[t].retryCount
                          + (IF task'[t].status \in {"processing", "success"} THEN 1 ELSE 0)
                    /\ task'[t].status = "absent" => task'[t].retryCount = 0
                    /\ task'[t].status = "dead" => task'[t].retryCount > MaxRetry[t]
                    /\ task'[t].status = "success" => Vouched(t)'
    BY DEF RowsInv, ClaimAccounting, SuccessWasDelivered
<1>1. task[t].retryCount \in Nat /\ claims[t] \in Nat /\ MaxRetry[t] \in Nat
    BY DispatcherAssumption DEF TypeOK, Row
<1>2. QED
    BY <1>1, VouchedSame DEF RowsInv, ClaimAccounting, SuccessWasDelivered

LEMMA CountEnqueue ==
    ASSUME TypeOK, CountInv, NEW n \in Notifications, NEW S \in SUBSET TasksOf(n), Enqueue(n, S)
    PROVE  CountInv'
<1>1. NewRow.status = "pending" /\ NewRow.retryCount = 0
    BY DEF NewRow, AbsentRow
<1>2. \A t \in Tasks : task'[t] = task[t] \/ (task[t].status = "absent" /\ task'[t] = NewRow)
    BY DEF Enqueue, RowsOf
<1>3. RowsInv'
    BY <1>1, <1>2, VouchedSame, RowsChange DEF CountInv, Enqueue
<1>4. QED
    BY <1>3, VouchedSame, FewerJobs, FewerJobsAttempts DEF CountInv, Enqueue

LEMMA CountExpireEnd ==
    ASSUME TypeOK, LeaseInv, CountInv, NEW d \in Dispatchers, ExpireEnd(d)
    PROVE  CountInv'
<1>1. \A t \in DOMAIN tx[d]["expire"] :
        task[t].status = "processing" /\ ExpiryWrites(t, task[t], tx[d]["expire"][t])
    BY DEF LeaseInv, WritesFollow, Kinds, LockedStatus
<1>2. UNCHANGED task \/ Commit(d, "expire")
    BY DEF ExpireEnd
<1>3. \A t \in Tasks :
        \/ task'[t] = task[t]
        \/ /\ task[t].status = "processing" /\ task'[t].status \in {"failed", "dead"}
           /\ task'[t].retryCount = task[t].retryCount + 1
           /\ task'[t].status = "dead" => task[t].retryCount >= MaxRetry[t]
    BY <1>1, <1>2 DEF Commit, ExpiryWrites
<1>4. RowsInv'
    BY <1>3, VouchedSame, RowsChange DEF CountInv, ExpireEnd
<1>5. QED
    BY <1>4, VouchedSame, FewerJobs, FewerJobsAttempts DEF CountInv, ExpireEnd

(* A claim is counted when it commits, and its worker, if the process      *)
(* learns of the commit, knows the count.                                  *)
LEMMA CountAcquireEnd ==
    ASSUME TypeOK, LeaseInv, CountInv, NEW d \in Dispatchers, NEW k \in FetchKinds,
           AcquireEnd(d, k)
    PROVE  CountInv'
<1>1. k \in Kinds /\ k # "expire" /\ LockedStatus(k) \in {"pending", "failed"}
    BY DEF Kinds, FetchKinds, LockedStatus
<1>2. \A t \in DOMAIN tx[d][k] :
        /\ t \in Tasks /\ task[t].status \in {"pending", "failed"}
        /\ tx[d][k][t].status = "processing"
        /\ tx[d][k][t].retryCount = task[t].retryCount
    BY <1>1 DEF LeaseInv, WritesFollow, ClaimWrites, TypeOK
<1>3. \A t \in Tasks : claims[t] \in Nat /\ task[t].retryCount \in Nat
    BY DEF TypeOK, Row
<1>4. \A t \in DOMAIN tx[d][k] : claims[t] = task[t].retryCount
    BY <1>2, <1>3 DEF CountInv, RowsInv, ClaimAccounting
<1>5. CASE UNCHANGED <<task, claims>> /\ jobs' = jobs
    BY <1>5, VouchedSame, RowsSame, FewerJobs, FewerJobsAttempts DEF CountInv, AcquireEnd
<1>6. CASE /\ Commit(d, k)
           /\ claims' = [t \in Tasks |-> IF t \in DOMAIN tx[d][k]
                                         THEN claims[t] + 1 ELSE claims[t]]
           /\ jobs' = jobs \/ jobs' = jobs \cup NewJobs(d, k)
    <2>1. \A t \in Tasks :
            \/ t \notin DOMAIN tx[d][k] /\ task'[t] = task[t] /\ claims'[t] = claims[t]
            \/ t \in DOMAIN tx[d][k] /\ task'[t] = tx[d][k][t] /\ claims'[t] = claims[t] + 1
        BY <1>6 DEF Commit
    <2>2. delivered' = delivered /\ attempts' = attempts
        BY DEF AcquireEnd
    <2>3. RowsInv'
        <3> SUFFICES ASSUME NEW t \in Tasks
                     PROVE  /\ claims'[t] = task'[t].retryCount
                               + (IF task'[t].status \in {"processing", "success"} THEN 1 ELSE 0)
                            /\ task'[t].status = "absent" => task'[t].retryCount = 0
                            /\ task'[t].status = "dead" => task'[t].retryCount > MaxRetry[t]
                            /\ task'[t].status = "success" => Vouched(t)'
            BY DEF RowsInv, ClaimAccounting, SuccessWasDelivered
        <3>1. CASE t \notin DOMAIN tx[d][k]
            BY <2>1, <2>2, <3>1, VouchedSame
               DEF CountInv, RowsInv, ClaimAccounting, SuccessWasDelivered
        <3>2. CASE t \in DOMAIN tx[d][k]
            BY <1>2, <1>3, <1>4, <2>1, <3>2
        <3>3. QED
            BY <3>1, <3>2
    <2>4. \A i \in jobs' :
            \/ i \in jobs /\ i.task \in Tasks /\ i.id \in Nat
            \/ /\ i.task \in DOMAIN tx[d][k] /\ i.id = claims[i.task] + 1
               /\ i.rc = claims[i.task] /\ ~i.ok
               /\ i = [task |-> i.task, id |-> claims[i.task] + 1, owner |-> d,
                       rc |-> tx[d][k][i.task].retryCount, pc |-> "start", ok |-> FALSE,
                       agg |-> "pending"]
        <3>1. \A i \in jobs : i.task \in Tasks /\ i.id \in Nat
            BY DEF TypeOK, Job
        <3>2. ASSUME NEW i \in NewJobs(d, k)
              PROVE  /\ i.task \in DOMAIN tx[d][k] /\ i.id = claims[i.task] + 1
                     /\ i.rc = claims[i.task] /\ ~i.ok
                     /\ i = [task |-> i.task, id |-> claims[i.task] + 1, owner |-> d,
                             rc |-> tx[d][k][i.task].retryCount, pc |-> "start", ok |-> FALSE,
                             agg |-> "pending"]
            <4>1. PICK t \in DOMAIN tx[d][k] :
                    i = [task |-> t, id |-> claims[t] + 1, owner |-> d,
                         rc |-> tx[d][k][t].retryCount, pc |-> "start", ok |-> FALSE,
                         agg |-> "pending"]
                BY DEF NewJobs
            <4>2. i.task = t /\ i.id = claims[t] + 1 /\ i.rc = tx[d][k][t].retryCount /\ ~i.ok
                BY <4>1
            <4>3. QED
                BY <1>2, <1>4, <4>1, <4>2
        <3>3. QED
            BY <1>6, <3>1, <3>2
    <2>5. JobsInv'
        <3>1. ASSUME NEW i \in jobs'
              PROVE  /\ i.id >= 1 /\ i.id <= claims'[i.task] /\ i.rc = i.id - 1
                     /\ i.ok => Vouched(i.task)'
            BY <1>2, <1>3, <2>1, <2>2, <2>4, VouchedSame DEF CountInv, JobsInv
        <3>2. ASSUME NEW h \in jobs', NEW i \in jobs', h.task = i.task, h.id = i.id
              PROVE  h = i
            <4>1. \A g \in jobs : g.id \in Nat /\ g.id <= claims[g.task] /\ claims[g.task] \in Nat
                BY <1>3 DEF CountInv, JobsInv, TypeOK, Job
            <4>2. CASE h \in jobs /\ i \in jobs
                BY <3>2, <4>2 DEF CountInv, JobsInv
            <4>3. ASSUME h \in jobs, i.id = claims[i.task] + 1 PROVE FALSE
                BY <3>2, <4>1, <4>3
            <4>4. ASSUME i \in jobs, h.id = claims[h.task] + 1 PROVE FALSE
                <5>1. i.id \in Nat /\ i.id <= claims[i.task] /\ claims[i.task] \in Nat
                    BY <4>1, <4>4
                <5>2. i.id = claims[i.task] + 1
                    BY <3>2, <4>4
                <5>3. QED
                    BY <5>1, <5>2
            <4>5. CASE h \notin jobs /\ i \notin jobs
                <5>1. h = [task |-> h.task, id |-> claims[h.task] + 1, owner |-> d,
                           rc |-> tx[d][k][h.task].retryCount, pc |-> "start", ok |-> FALSE,
                           agg |-> "pending"]
                    BY <2>4, <4>5
                <5>2. i = [task |-> i.task, id |-> claims[i.task] + 1, owner |-> d,
                           rc |-> tx[d][k][i.task].retryCount, pc |-> "start", ok |-> FALSE,
                           agg |-> "pending"]
                    BY <2>4, <4>5
                <5>3. QED
                    BY <3>2, <5>1, <5>2, Zenon
            <4>6. h \in jobs \/ h.id = claims[h.task] + 1
                BY <2>4
            <4>7. i \in jobs \/ i.id = claims[i.task] + 1
                BY <2>4
            <4>8. QED
                BY <4>2, <4>3, <4>4, <4>5, <4>6, <4>7
        <3>3. QED
            BY <3>1, <3>2 DEF JobsInv
    <2>6. AttemptsInv'
        <3>1. \A a \in attempts : a.task \in Tasks /\ a.id \in Nat
            BY DEF TypeOK, Attempt
        <3>2. \A a \in attempts' : a.no = a.id /\ a.id <= claims'[a.task]
            BY <1>3, <2>1, <2>2, <3>1 DEF CountInv, AttemptsInv
        <3>3. \A a \in attempts', i \in jobs' :
                a.task = i.task /\ a.id = i.id => i.pc \notin {"start", "send", "record"}
            BY <1>2, <1>3, <2>2, <2>4, <3>1 DEF CountInv, AttemptsInv
        <3>4. QED
            BY <2>2, <3>2, <3>3 DEF CountInv, AttemptsInv
    <2>7. QED
        BY <2>3, <2>5, <2>6 DEF CountInv
<1>7. QED
    BY <1>5, <1>6 DEF AcquireEnd

LEMMA CountTick ==
    ASSUME TypeOK, CountInv, Tick
    PROVE  CountInv'
<1>1. \A t \in Tasks : task[t] \in Row /\ task'[t] = Elapsed(task[t])
    BY DEF TypeOK, Tick
<1>2. \A t \in Tasks : /\ task'[t].status = task[t].status
                      /\ task'[t].retryCount = task[t].retryCount
    BY <1>1, ElapsedRow
<1>3. RowsInv'
    BY <1>2, VouchedSame, RowsChange DEF CountInv, Tick
<1>4. QED
    BY <1>3, VouchedSame, FewerJobs, FewerJobsAttempts DEF CountInv, Tick

LEMMA CountSend ==
    ASSUME TypeOK, CountInv, NEW j \in jobs, SendReturns(j)
    PROVE  CountInv'
<1>1. PICK effect \in BOOLEAN, ok \in BOOLEAN :
        /\ ok => effect \/ j.task \in Webhooks
        /\ delivered' = [delivered EXCEPT ![j.task] = Heard(@, effect, ok)]
        /\ Becomes(j, [j EXCEPT !.pc = "record", !.ok = ok])
    BY DEF SendReturns
<1> DEFINE next == [j EXCEPT !.pc = "record", !.ok = ok]
<1>2. j \in Job /\ j.task \in Tasks /\ j.pc = "send"
    BY DEF TypeOK, Job, SendReturns
<1>3. /\ next.task = j.task /\ next.id = j.id /\ next.rc = j.rc
      /\ next.pc = "record" /\ next.ok = ok
    BY <1>2 DEF Job
<1>4. (\A t \in Tasks : Vouched(t) => Vouched(t)') /\ (ok => Vouched(j.task)')
    <2>1. \A t \in Tasks : delivered'[t] = IF t = j.task THEN Heard(delivered[t], effect, ok)
                                           ELSE delivered[t]
        BY <1>1, <1>2 DEF TypeOK
    <2>2. delivered[j.task] \in {"no", "blank", "yes"}
        BY <1>2 DEF TypeOK
    <2>3. QED
        BY <1>1, <1>2, <2>1, <2>2 DEF Vouched, Heard
<1> HIDE DEF next
<1>5. Becomes(j, next)
    BY <1>1 DEF next
<1>6. UNCHANGED <<task, claims, attempts>>
    BY DEF SendReturns
<1>7. RowsInv'
    BY <1>4, <1>6, RowsSame DEF CountInv
<1>8. JobsInv'
    BY <1>3, <1>4, <1>5, <1>6, VouchedSame, BecomesJobs DEF CountInv
<1>9. AttemptsInv'
    BY <1>2, <1>3, <1>5, <1>6, BecomesAttempts DEF CountInv
<1>10. QED
    BY <1>7, <1>8, <1>9 DEF CountInv

LEMMA CountRecord ==
    ASSUME TypeOK, CountInv, NEW j \in jobs, RecordAttempt(j)
    PROVE  CountInv'
<1> DEFINE next == [j EXCEPT !.pc = "update"]
           new  == [task |-> j.task, id |-> j.id, no |-> j.rc + 1, ok |-> j.ok]
<1>1. /\ j \in Job /\ j.task \in Tasks /\ j.pc = "record" /\ j.id \in Nat /\ j.rc \in Nat
      /\ claims[j.task] \in Nat
    BY DEF TypeOK, Job, RecordAttempt
<1>2. /\ next.task = j.task /\ next.id = j.id /\ next.rc = j.rc
      /\ next.pc = "update" /\ next.ok = j.ok
    BY <1>1 DEF Job
<1>3. j.rc = j.id - 1 /\ j.id <= claims[j.task]
    BY DEF CountInv, JobsInv
<1>4. new.task = j.task /\ new.id = j.id /\ new.no = j.id
    BY <1>1, <1>3
<1>5. attempts' = attempts \/ attempts' = attempts \cup {new}
    BY DEF RecordAttempt
<1>6. Becomes(j, next) /\ UNCHANGED <<task, claims, delivered>>
    BY DEF RecordAttempt
<1> HIDE DEF next, new
<1>7. RowsInv'
    BY <1>6, VouchedSame, RowsSame DEF CountInv
<1>8. next.ok => Vouched(j.task)'
    BY <1>2, <1>6, VouchedSame DEF CountInv, JobsInv
<1>9. JobsInv'
    BY <1>2, <1>6, <1>8, VouchedSame, BecomesJobs DEF CountInv
<1>10. AttemptsInv'
    <2>1. \A a \in attempts : ~(a.task = j.task /\ a.id = j.id)
        BY <1>1 DEF CountInv, AttemptsInv
    <2>2. \A a \in attempts' : a = new \/ a \in attempts
        BY <1>5
    <2>3. \A i \in jobs' : i = next \/ (i \in jobs /\ i # j)
        BY <1>6 DEF Becomes
    <2>4. \A a \in attempts' : a.no = a.id /\ a.id <= claims'[a.task]
        BY <1>3, <1>4, <1>6, <2>2 DEF CountInv, AttemptsInv
    <2>5. \A a, b \in attempts' : a.task = b.task /\ a.id = b.id => a = b
        BY <1>4, <2>1, <2>2 DEF CountInv, AttemptsInv
    <2>6. \A a \in attempts', i \in jobs' :
            a.task = i.task /\ a.id = i.id => i.pc \notin {"start", "send", "record"}
        BY <1>2, <1>4, <2>2, <2>3 DEF CountInv, JobsInv, AttemptsInv
    <2>7. QED
        BY <2>4, <2>5, <2>6 DEF AttemptsInv
<1>11. QED
    BY <1>7, <1>9, <1>10 DEF CountInv

(* A worker settles the row whose lease its process holds: the row is      *)
(* processing, and the count the worker read is not ahead of the row's.    *)
LEMMA CountUpdate ==
    ASSUME TypeOK, LeaseInv, CountInv, NEW j \in jobs, UpdateTask(j)
    PROVE  CountInv'
<1> DEFINE next == [j EXCEPT !.pc = "count"]
<1>1. /\ j \in Job /\ j.task \in Tasks /\ j.pc = "update" /\ j.id \in Nat /\ j.rc \in Nat
      /\ task[j.task] \in Row /\ task[j.task].retryCount \in Nat /\ claims[j.task] \in Nat
      /\ MaxRetry[j.task] \in Nat /\ j.owner # NoOwner
    BY DispatcherAssumption, StoreAssumption DEF TypeOK, Job, UpdateTask, Row
<1>2. /\ next.task = j.task /\ next.id = j.id /\ next.rc = j.rc
      /\ next.pc = "count" /\ next.ok = j.ok
    BY <1>1 DEF Job
<1> HIDE DEF next
<1>3. UNCHANGED <<claims, delivered, attempts>> /\ (Becomes(j, next) \/ Returns(j))
    BY DEF UpdateTask, next
<1>4. JobsInv'
    <2>1. j.ok => Vouched(j.task)'
        BY <1>3, VouchedSame DEF CountInv, JobsInv
    <2>2. CASE Becomes(j, next)
        BY <1>2, <1>3, <2>1, <2>2, VouchedSame, BecomesJobs DEF CountInv
    <2>3. CASE Returns(j)
        BY <1>3, <2>3, VouchedSame, FewerJobs DEF CountInv, Returns
    <2>4. QED
        BY <1>3, <2>2, <2>3
<1>5. AttemptsInv'
    <2>1. CASE Becomes(j, next)
        BY <1>2, <1>3, <2>1, BecomesAttempts DEF CountInv
    <2>2. CASE Returns(j)
        BY <1>3, <2>2, FewerJobsAttempts DEF CountInv, Returns
    <2>3. QED
        BY <1>3, <2>1, <2>2
<1>6. RowsInv'
    <2>1. CASE UNCHANGED task
        BY <1>3, <2>1, VouchedSame, RowsSame DEF CountInv
    <2>2. CASE LeaseHeld(task[j.task], j.owner) /\ task' = [task EXCEPT ![j.task] = Settled(j)]
        <3>1. task[j.task].status = "processing"
            BY <1>1, <2>2 DEF LeaseInv, NoStrandedRow, LeaseHeld
        <3>2. j.rc <= task[j.task].retryCount
            <4>1. claims[j.task] = task[j.task].retryCount + 1
                BY <1>1, <3>1 DEF CountInv, RowsInv, ClaimAccounting
            <4>2. j.rc = j.id - 1 /\ j.id <= claims[j.task]
                BY DEF CountInv, JobsInv
            <4>3. QED
                BY <1>1, <4>1, <4>2
        <3>3. \/ /\ Settled(j).status \in {"failed", "dead"}
                 /\ Settled(j).retryCount = task[j.task].retryCount + 1
                 /\ Settled(j).status = "dead" => task[j.task].retryCount >= MaxRetry[j.task]
              \/ /\ Settled(j).status = "success"
                 /\ Settled(j).retryCount = task[j.task].retryCount
                 /\ Vouched(j.task)
            <4>1. CASE j.ok
                BY <1>1, <4>1, SucceededRow DEF Settled, CountInv, JobsInv
            <4>2. CASE ~j.ok
                <5> DEFINE w == Failed(task[j.task], j.rc, MaxRetry[j.task])
                <5>1. /\ w.status \in {"failed", "dead"}
                      /\ w.status = "dead" => j.rc >= MaxRetry[j.task]
                      /\ w.retryCount = task[j.task].retryCount + 1
                    BY <1>1, FailedRow
                <5> HIDE DEF w
                <5>2. Settled(j) = w
                    BY <4>2 DEF Settled, w
                <5>3. QED
                    BY <1>1, <3>2, <5>1, <5>2
            <4>3. QED
                BY <4>1, <4>2
        <3>4. \A t \in Tasks : task'[t] = IF t = j.task THEN Settled(j) ELSE task[t]
            BY <2>2 DEF TypeOK
        <3>5. \A t \in Tasks :
                \/ task'[t] = task[t]
                \/ /\ task[t].status = "processing" /\ task'[t].status \in {"failed", "dead"}
                   /\ task'[t].retryCount = task[t].retryCount + 1
                   /\ task'[t].status = "dead" => task[t].retryCount >= MaxRetry[t]
                \/ /\ task[t].status = "processing" /\ task'[t].status = "success"
                   /\ task'[t].retryCount = task[t].retryCount /\ Vouched(t)
            BY <3>1, <3>3, <3>4
        <3>6. QED
            BY <1>3, <3>5, VouchedSame, RowsChange DEF CountInv
    <2>3. QED
        BY <2>1, <2>2 DEF UpdateTask
<1>7. QED
    BY <1>4, <1>5, <1>6 DEF CountInv

(* The worker steps that leave the rows, the attempts and the provider as  *)
(* they are.                                                               *)
LEMMA CountOther ==
    ASSUME TypeOK, CountInv, NEW j \in jobs,
           PrepareOk(j) \/ PrepareFails(j) \/ JobCount(j) \/ JobWrite(j)
    PROVE  CountInv'
<1>1. UNCHANGED <<task, claims, delivered, attempts>>
    BY DEF PrepareOk, PrepareFails, JobCount, JobWrite
<1>2. j \in Job
    BY DEF TypeOK
<1>3. \/ Returns(j)
      \/ \E pc \in {"send", "update", "write"}, agg \in {j.agg, Aggregate(NotificationOf[j.task])} :
            /\ Becomes(j, [j EXCEPT !.pc = pc, !.agg = agg])
            /\ pc = "send" => j.pc = "start"
    <2>1. \A pc \in {"send", "update"} : [j EXCEPT !.pc = pc] = [j EXCEPT !.pc = pc, !.agg = j.agg]
        BY <1>2 DEF Job
    <2>2. CASE PrepareOk(j)
        BY <2>1, <2>2 DEF PrepareOk
    <2>3. CASE PrepareFails(j)
        BY <2>1, <2>3 DEF PrepareFails
    <2>4. CASE JobCount(j) \/ JobWrite(j)
        BY <2>4 DEF JobCount, JobWrite
    <2>5. QED
        BY <2>2, <2>3, <2>4
<1>4. RowsInv'
    BY <1>1, VouchedSame, RowsSame DEF CountInv
<1>5. CASE Returns(j)
    BY <1>1, <1>4, <1>5, VouchedSame, FewerJobs, FewerJobsAttempts DEF CountInv, Returns
<1>6. ASSUME NEW pc \in {"send", "update", "write"}, NEW agg,
             Becomes(j, [j EXCEPT !.pc = pc, !.agg = agg]), pc = "send" => j.pc = "start"
      PROVE  CountInv'
    <2> DEFINE next == [j EXCEPT !.pc = pc, !.agg = agg]
    <2>1. /\ next.task = j.task /\ next.id = j.id /\ next.rc = j.rc
          /\ next.pc = pc /\ next.ok = j.ok
        BY <1>2 DEF Job
    <2>2. Becomes(j, next)
        BY <1>6
    <2> HIDE DEF next
    <2>3. next.ok => Vouched(j.task)'
        BY <1>1, <2>1, VouchedSame DEF CountInv, JobsInv
    <2>4. JobsInv'
        BY <1>1, <2>1, <2>2, <2>3, VouchedSame, BecomesJobs DEF CountInv
    <2>5. AttemptsInv'
        BY <1>1, <1>6, <2>1, <2>2, BecomesAttempts DEF CountInv
    <2>6. QED
        BY <1>4, <2>4, <2>5 DEF CountInv
<1>7. QED
    BY <1>3, <1>5, <1>6

LEMMA CountInit == Init => CountInv
BY DEF Init, CountInv, RowsInv, ClaimAccounting, SuccessWasDelivered, JobsInv, AttemptsInv,
       AbsentRow

LEMMA CountStep == TypeOK /\ LeaseInv /\ CountInv /\ [Next]_vars => CountInv'
<1> SUFFICES ASSUME TypeOK, LeaseInv, CountInv, [Next]_vars PROVE CountInv'
    OBVIOUS
<1>1. ASSUME UNCHANGED <<task, claims, delivered, attempts>>, jobs' \subseteq jobs
      PROVE  CountInv'
    BY <1>1, VouchedSame, RowsSame, FewerJobs, FewerJobsAttempts DEF CountInv
<1>2. ASSUME NEW d \in Dispatchers,
             \/ Start(d) \/ Terminate(d) \/ LoopExit(d) \/ StopReturns(d) \/ Crash(d)
             \/ ExpireSelect(d) \/ LoopCount(d) \/ LoopWrite(d)
             \/ \E k \in FetchKinds : AcquireSelect(d, k)
      PROVE  CountInv'
    BY <1>1, <1>2 DEF Start, Terminate, LoopExit, StopReturns, Crash, ExpireSelect, LoopCount,
                      LoopWrite, AcquireSelect
<1>3. CASE UNCHANGED vars
    BY <1>1, <1>3 DEF vars
<1>4. ASSUME NEW j \in jobs, JobStep(j) PROVE CountInv'
    BY <1>4, CountSend, CountRecord, CountUpdate, CountOther DEF JobStep
<1>5. QED
    BY <1>2, <1>3, <1>4, CountEnqueue, CountExpireEnd, CountAcquireEnd, CountTick
       DEF Next, LoopStep

LEMMA CountAlways == Spec => [](TypeOK /\ LeaseInv /\ CountInv)
BY TypeCorrect, LeaseInit, LeaseStep, CountInit, CountStep, PTL DEF Spec

(* retry_count and the claim in progress count the claims exactly.         *)
THEOREM ClaimsCounted == Spec => []ClaimAccounting
<1>1. CountInv => ClaimAccounting
    BY DEF CountInv, RowsInv
<1>2. QED
    BY <1>1, CountAlways, PTL

(* No two attempts of a task have the same number.                         *)
THEOREM AttemptsNumbered == Spec => []AttemptNumbersUnique
<1>1. CountInv => AttemptNumbersUnique
    BY DEF CountInv, AttemptsInv, AttemptNumbersUnique
<1>2. QED
    BY <1>1, CountAlways, PTL

(* A task dies only after max_retry + 1 claims.                            *)
THEOREM DeathNeedsBudget == Spec => []DeadOnlyAfterBudget
<1>1. TypeOK /\ CountInv => DeadOnlyAfterBudget
    BY DispatcherAssumption
       DEF TypeOK, Row, CountInv, RowsInv, ClaimAccounting, DeadOnlyAfterBudget
<1>2. QED
    BY <1>1, CountAlways, PTL

(* A task is marked success only if the provider delivered its message or, *)
(* for a task that goes to a bot, answered 2xx without a body.             *)
THEOREM SuccessDelivered == Spec => []SuccessWasDelivered
<1>1. CountInv => SuccessWasDelivered
    BY DEF CountInv, RowsInv
<1>2. QED
    BY <1>1, CountAlways, PTL

-----------------------------------------------------------------------------
(* What no step does to a row. *)

(* A row that is over stays as it is, a lease changes hands only by being  *)
(* released, and only the engine inserts rows.                             *)
RowKept(t) ==
    /\ task[t].status \in Terminal => /\ task'[t].status = task[t].status
                                     /\ task'[t].retryCount = task[t].retryCount
    /\ task[t].leaseOwner # NoOwner => task'[t].leaseOwner \in {task[t].leaseOwner, NoOwner}
    /\ task[t].status # "absent" => task'[t].status # "absent"

LEMMA RowsKept ==
    TypeOK /\ LeaseInv /\ [Next]_vars => \A t \in Tasks : RowKept(t)
<1> SUFFICES ASSUME TypeOK, LeaseInv, [Next]_vars, NEW t \in Tasks PROVE RowKept(t)
    OBVIOUS
<1>1. task[t] \in Row
    BY DEF TypeOK
<1>2. CASE task'[t] = task[t]
    BY <1>2 DEF RowKept
<1>3. ASSUME NEW n \in Notifications, NEW S \in SUBSET TasksOf(n), Enqueue(n, S)
      PROVE  RowKept(t)
    <2>1. task'[t] = task[t] \/ task[t].status = "absent"
        BY <1>3 DEF Enqueue, RowsOf
    <2>2. task[t].status = "absent" => task[t].leaseOwner = NoOwner
        BY DEF LeaseInv, NoStrandedRow
    <2>3. QED
        BY <1>2, <2>1, <2>2 DEF RowKept, Terminal
<1>4. ASSUME NEW d \in Dispatchers, NEW k \in Kinds, Commit(d, k) PROVE RowKept(t)
    <2>1. CASE t \notin DOMAIN tx[d][k]
        BY <1>2, <1>4, <2>1 DEF Commit
    <2>2. CASE t \in DOMAIN tx[d][k]
        <3>1. task'[t] = tx[d][k][t]
            BY <1>4, <2>2 DEF Commit
        <3>2. /\ task[t].status = LockedStatus(k)
              /\ k # "expire" => ClaimWrites(d, task[t], tx[d][k][t])
              /\ k = "expire" => ExpiryWrites(t, task[t], tx[d][k][t])
            BY <2>2 DEF LeaseInv, WritesFollow
        <3>3. LockedStatus(k) \in Active /\ (k # "expire" => LockedStatus(k) # "processing")
            BY DEF LockedStatus, Kinds, Active
        <3>4. task[t].status # "processing" => task[t].leaseOwner = NoOwner
            BY DEF LeaseInv, NoStrandedRow
        <3>5. QED
            BY <3>1, <3>2, <3>3, <3>4
               DEF RowKept, ClaimWrites, ExpiryWrites, Terminal, Active
    <2>3. QED
        BY <2>1, <2>2
<1>5. ASSUME NEW j \in jobs, LeaseHeld(task[j.task], j.owner),
             task' = [task EXCEPT ![j.task] = Settled(j)]
      PROVE  RowKept(t)
    <2>1. /\ j.task \in Tasks /\ j.rc \in Nat /\ MaxRetry[j.task] \in Nat
          /\ task[j.task] \in Row /\ j.owner # NoOwner
        BY DispatcherAssumption, StoreAssumption DEF TypeOK, Job
    <2>2. task[j.task].status = "processing"
        BY <1>5, <2>1 DEF LeaseInv, NoStrandedRow, LeaseHeld
    <2>3. Settled(j).leaseOwner = NoOwner /\ Settled(j).status # "absent"
        BY <2>1, SucceededRow, FailedRow DEF Settled
    <2>4. task'[t] = IF t = j.task THEN Settled(j) ELSE task[t]
        BY <1>5 DEF TypeOK
    <2>5. QED
        BY <1>2, <2>2, <2>3, <2>4 DEF RowKept, Terminal
<1>6. CASE Tick
    BY <1>1, <1>6, ElapsedRow DEF Tick, RowKept
<1>7. QED
    BY <1>2, <1>3, <1>4, <1>5, <1>6, TableSteps DEF TableStep, RowStep, Crash

(* A task that is over is never claimed, settled or expired again.         *)
THEOREM Finality == Spec => TerminalIsFinal
<1>1. TypeOK /\ LeaseInv /\ [Next]_vars =>
        [\A t \in Tasks :
            task[t].status \in Terminal => /\ task'[t].status = task[t].status
                                           /\ task'[t].retryCount = task[t].retryCount]_task
    BY RowsKept DEF RowKept
<1>2. QED
    BY <1>1, CountAlways, PTL DEF Spec, TerminalIsFinal

(* No dispatcher takes a lease from another.                               *)
THEOREM LeasesHandedOver == Spec => LeaseHandover
<1>1. TypeOK /\ LeaseInv /\ [Next]_vars =>
        [\A t \in Tasks :
            \/ task[t].leaseOwner = NoOwner
            \/ task'[t].leaseOwner \in {task[t].leaseOwner, NoOwner}]_task
    BY RowsKept DEF RowKept
<1>2. QED
    BY <1>1, CountAlways, PTL DEF Spec, LeaseHandover

-----------------------------------------------------------------------------
(* Verdicts. *)

(* A count taken now is sound now.                                         *)
LEMMA AggregateSound ==
    ASSUME TypeOK, NEW n \in Notifications
    PROVE  Sound(n, Aggregate(n))
<1> DEFINE statuses == {task[t].status : t \in RowsOf(n)}
<1>1. Aggregate(n) = IF statuses = {} THEN "pending"
                     ELSE IF statuses \cap Active # {} THEN "processing"
                     ELSE IF "dead" \in statuses THEN "failed"
                     ELSE "success"
    BY DEF Aggregate
<1>2. \A t \in RowsOf(n) : task[t].status \in TaskStatus \ {"absent"}
    BY DEF TypeOK, Row, RowsOf, TasksOf
<1>3. \A t \in RowsOf(n) : task[t].status \in statuses
    OBVIOUS
<1>4. "dead" \in statuses => \E t \in RowsOf(n) : task[t].status = "dead"
    OBVIOUS
<1>5. statuses # {} => RowsOf(n) # {}
    OBVIOUS
<1> HIDE DEF statuses
<1>6. ASSUME statuses \cap Active = {}, NEW t \in RowsOf(n) PROVE task[t].status \in Terminal
    BY <1>2, <1>3, <1>6 DEF TaskStatus, Active, Terminal
<1>7. ASSUME Aggregate(n) = "success"
      PROVE  RowsOf(n) # {} /\ \A t \in RowsOf(n) : task[t].status = "success"
    <2>1. statuses # {} /\ statuses \cap Active = {} /\ "dead" \notin statuses
        BY <1>1, <1>7
    <2>2. QED
        BY <1>3, <1>5, <1>6, <2>1 DEF Terminal
<1>8. ASSUME Aggregate(n) = "failed"
      PROVE  /\ \A t \in RowsOf(n) : task[t].status \in Terminal
             /\ \E t \in RowsOf(n) : task[t].status = "dead"
    <2>1. statuses # {} /\ statuses \cap Active = {} /\ "dead" \in statuses
        BY <1>1, <1>8
    <2>2. QED
        BY <1>4, <1>6, <2>1
<1>9. QED
    BY <1>7, <1>8 DEF Sound

(* Nobody but the engine makes a row.                                      *)
LEMMA RowsMade ==
    ASSUME TypeOK, LeaseInv, RowStep, NEW u \in Tasks, task[u].status = "absent"
    PROVE  task'[u].status = "absent"
<1>1. CASE task'[u] = task[u]
    BY <1>1
<1>2. ASSUME NEW d \in Dispatchers, NEW k \in Kinds, Commit(d, k)
      PROVE  task'[u].status = "absent"
    <2>1. u \notin DOMAIN tx[d][k]
        BY DEF LeaseInv, WritesFollow, LockedStatus, Kinds
    <2>2. QED
        BY <1>1, <1>2, <2>1 DEF Commit
<1>3. ASSUME NEW j \in jobs, LeaseHeld(task[j.task], j.owner),
             task' = [task EXCEPT ![j.task] = Settled(j)]
      PROVE  task'[u].status = "absent"
    <2>1. j.task \in Tasks /\ j.owner # NoOwner
        BY StoreAssumption DEF TypeOK, Job
    <2>2. task[j.task].status = "processing"
        BY <1>3, <2>1 DEF LeaseInv, NoStrandedRow, LeaseHeld
    <2>3. QED
        BY <1>3, <2>2 DEF TypeOK
<1>4. CASE Tick
    BY <1>4, ElapsedRow DEF Tick, TypeOK
<1>5. QED
    BY <1>1, <1>2, <1>3, <1>4 DEF RowStep, Crash

(* A notification that has rows gets no other.                             *)
LEMMA RowsStay ==
    ASSUME TypeOK, LeaseInv, [Next]_vars, NEW n \in Notifications, RowsOf(n) # {}
    PROVE  RowsOf(n)' = RowsOf(n)
<1>1. RowsOf(n) \subseteq RowsOf(n)'
    BY RowsKept DEF RowKept, RowsOf, TasksOf
<1>2. SUFFICES ASSUME NEW u \in TasksOf(n), task[u].status = "absent"
               PROVE  task'[u].status = "absent"
    BY <1>1, <1>2 DEF RowsOf
<1>3. u \in Tasks /\ NotificationOf[u] = n
    BY DEF TasksOf
<1>4. ASSUME NEW m \in Notifications, NEW S \in SUBSET TasksOf(m), Enqueue(m, S)
      PROVE  task'[u].status = "absent"
    <2>1. m # n
        BY <1>4 DEF Enqueue
    <2>2. u \notin S
        BY <1>3, <2>1 DEF TasksOf
    <2>3. QED
        BY <1>2, <1>3, <1>4, <2>2 DEF Enqueue
<1>5. QED
    BY <1>2, <1>3, <1>4, RowsMade, TableSteps DEF TableStep

(* What a step writes to notifications.status was counted before, and what *)
(* it counts is sound.                                                     *)
LEMMA VerdictSources ==
    ASSUME TypeOK, VerdictInv, [Next]_vars
    PROVE  /\ \A n \in Notifications : Sound(n, notif'[n])
           /\ \A d \in Dispatchers : \A w \in loop'[d].write : Sound(w[1], w[2])
           /\ \A j \in jobs' : j.pc = "write" => Sound(NotificationOf[j.task], j.agg)
<1> DEFINE Written1 == \A n \in Notifications : Sound(n, notif'[n])
           Counted1 == \A d \in Dispatchers : \A w \in loop'[d].write : Sound(w[1], w[2])
           Jobs1    == \A j \in jobs' : j.pc = "write" => Sound(NotificationOf[j.task], j.agg)
<1>1. ASSUME UNCHANGED notif PROVE Written1
    BY <1>1 DEF VerdictInv
<1>2. ASSUME UNCHANGED loop PROVE Counted1
    BY <1>2 DEF VerdictInv
<1>3. ASSUME jobs' \subseteq jobs PROVE Jobs1
    BY <1>3 DEF VerdictInv
<1>4. /\ \A pc : At(pc).write = {}
      /\ \A S : Acquiring(S).write = {}
      /\ \A S : Refreshing(S).write = {}
    BY DEF At, Acquiring, Refreshing
<1>5. ASSUME NEW d \in Dispatchers, NEW l, l.write = {}, loop' = [loop EXCEPT ![d] = l]
      PROVE  Counted1
    BY <1>5 DEF VerdictInv, TypeOK
<1>6. ASSUME NEW j \in jobs, NEW next, next.pc # "write", Becomes(j, next) PROVE Jobs1
    BY <1>6 DEF VerdictInv, Becomes
<1>7. ASSUME NEW d \in Dispatchers, Start(d) \/ LoopExit(d) \/ Crash(d)
      PROVE  Written1 /\ Counted1 /\ Jobs1
    <2>1. UNCHANGED notif /\ jobs' \subseteq jobs
        BY <1>7 DEF Start, LoopExit, Crash
    <2>2. loop' = [loop EXCEPT ![d] = At("poll")] \/ loop' = [loop EXCEPT ![d] = At("off")]
        BY <1>7 DEF Start, LoopExit, Crash
    <2>3. QED
        BY <1>1, <1>3, <1>4, <1>5, <2>1, <2>2
<1>8. ASSUME NEW d \in Dispatchers, ExpireSelect(d) \/ ExpireEnd(d)
      PROVE  Written1 /\ Counted1 /\ Jobs1
    <2>1. UNCHANGED <<notif, jobs>>
        BY <1>8 DEF ExpireSelect, ExpireEnd
    <2>2. \/ UNCHANGED loop
          \/ \E S : loop' = [loop EXCEPT ![d] = Acquiring(S)]
          \/ \E S : loop' = [loop EXCEPT ![d] = Refreshing(S)]
        BY <1>8 DEF ExpireSelect, ExpireEnd
    <2>3. QED
        BY <1>1, <1>2, <1>3, <1>4, <1>5, <2>1, <2>2
<1>9. ASSUME NEW d \in Dispatchers, LoopCount(d)
      PROVE  Written1 /\ Counted1 /\ Jobs1
    <2>1. UNCHANGED <<notif, jobs>>
        BY <1>9 DEF LoopCount
    <2>2. PICK n \in loop[d].todo :
            \/ loop' = [loop EXCEPT ![d] = [@ EXCEPT !.write = {<<n, Aggregate(n)>>}]]
            \/ loop' = [loop EXCEPT ![d] = Refreshing(@.todo \ {n})]
        BY <1>9 DEF LoopCount
    <2>3. n \in Notifications /\ loop[d] \in Loop
        BY DEF TypeOK, Loop
    <2>4. CASE loop' = [loop EXCEPT ![d] = [@ EXCEPT !.write = {<<n, Aggregate(n)>>}]]
        <3>1. \A e \in Dispatchers :
                loop'[e].write = IF e = d THEN {<<n, Aggregate(n)>>} ELSE loop[e].write
            BY <2>3, <2>4 DEF TypeOK, Loop
        <3>2. Counted1
            BY <2>3, <3>1, AggregateSound DEF VerdictInv
        <3>3. QED
            BY <1>1, <1>3, <2>1, <3>2
    <2>5. CASE loop' = [loop EXCEPT ![d] = Refreshing(@.todo \ {n})]
        BY <1>1, <1>3, <1>4, <1>5, <2>1, <2>5
    <2>6. QED
        BY <2>2, <2>4, <2>5
<1>10. ASSUME NEW d \in Dispatchers, LoopWrite(d)
       PROVE  Written1 /\ Counted1 /\ Jobs1
    <2>1. PICK w \in loop[d].write :
            /\ notif' = notif \/ notif' = [notif EXCEPT ![w[1]] = w[2]]
            /\ loop' = [loop EXCEPT ![d] = Refreshing(@.todo \ {w[1]})]
        BY <1>10 DEF LoopWrite
    <2>2. Sound(w[1], w[2])
        BY DEF VerdictInv
    <2>3. Written1
        BY <2>1, <2>2 DEF VerdictInv, TypeOK
    <2>4. jobs' = jobs
        BY <1>10 DEF LoopWrite
    <2>5. QED
        BY <1>3, <1>4, <1>5, <2>1, <2>3, <2>4
<1>11. ASSUME NEW d \in Dispatchers, NEW k \in FetchKinds,
              AcquireSelect(d, k) \/ AcquireEnd(d, k)
       PROVE  Written1 /\ Counted1 /\ Jobs1
    <2>1. UNCHANGED notif
        BY <1>11 DEF AcquireSelect, AcquireEnd
    <2>2. UNCHANGED loop \/ \E S : loop' = [loop EXCEPT ![d] = Acquiring(S)]
        BY <1>11 DEF AcquireSelect, AcquireEnd
    <2>3. jobs' = jobs \/ jobs' = jobs \cup NewJobs(d, k)
        BY <1>11 DEF AcquireSelect, AcquireEnd
    <2>4. \A j \in NewJobs(d, k) : j.pc = "start"
        BY DEF NewJobs
    <2>5. Jobs1
        BY <2>3, <2>4 DEF VerdictInv
    <2>6. QED
        BY <1>1, <1>2, <1>4, <1>5, <2>1, <2>2, <2>5
<1>12. ASSUME NEW j \in jobs, JobStep(j) PROVE Written1 /\ Counted1 /\ Jobs1
    <2>1. j \in Job /\ j.task \in Tasks /\ NotificationOf[j.task] \in Notifications
        BY DispatcherAssumption DEF TypeOK, Job
    <2>2. UNCHANGED loop
        BY <1>12 DEF JobStep, PrepareOk, PrepareFails, SendReturns, RecordAttempt, UpdateTask,
                     JobCount, JobWrite
    <2>3. CASE PrepareOk(j) \/ PrepareFails(j) \/ SendReturns(j) \/ RecordAttempt(j)
               \/ UpdateTask(j)
        <3>1. UNCHANGED notif
            BY <2>3 DEF PrepareOk, PrepareFails, SendReturns, RecordAttempt, UpdateTask
        <3>2. \A pc, ok : [j EXCEPT !.pc = pc].pc = pc /\ [j EXCEPT !.pc = pc, !.ok = ok].pc = pc
            BY <2>1 DEF Job
        <3>3. \/ Returns(j)
              \/ \E pc \in {"send", "update", "count"} : Becomes(j, [j EXCEPT !.pc = pc])
              \/ \E ok : Becomes(j, [j EXCEPT !.pc = "record", !.ok = ok])
            BY <2>3 DEF PrepareOk, PrepareFails, SendReturns, RecordAttempt, UpdateTask
        <3>4. Jobs1
            BY <1>3, <1>6, <3>2, <3>3 DEF Returns
        <3>5. QED
            BY <1>1, <1>2, <2>2, <3>1, <3>4
    <2>4. CASE JobCount(j)
        <3> DEFINE next == [j EXCEPT !.pc = "write", !.agg = Aggregate(NotificationOf[j.task])]
        <3>1. next.task = j.task /\ next.agg = Aggregate(NotificationOf[j.task])
            BY <2>1 DEF Job
        <3>2. Becomes(j, next) \/ Returns(j)
            BY <2>4 DEF JobCount
        <3> HIDE DEF next
        <3>3. Sound(NotificationOf[next.task], next.agg)
            BY <2>1, <3>1, AggregateSound
        <3>4. Jobs1
            BY <3>2, <3>3 DEF Becomes, Returns, VerdictInv
        <3>5. UNCHANGED notif
            BY <2>4 DEF JobCount
        <3>6. QED
            BY <1>1, <1>2, <2>2, <3>4, <3>5
    <2>5. CASE JobWrite(j)
        <3>1. Sound(NotificationOf[j.task], j.agg)
            BY <2>5 DEF VerdictInv, JobWrite
        <3>2. Written1
            BY <2>1, <2>5, <3>1 DEF JobWrite, VerdictInv, TypeOK
        <3>3. Jobs1
            BY <1>3, <2>5 DEF JobWrite, Returns
        <3>4. QED
            BY <1>2, <2>2, <3>2, <3>3
    <2>6. QED
        BY <1>12, <2>3, <2>4, <2>5 DEF JobStep
<1>13. ASSUME UNCHANGED <<notif, loop, jobs>> PROVE Written1 /\ Counted1 /\ Jobs1
    BY <1>1, <1>2, <1>3, <1>13
<1> HIDE DEF Written1, Counted1, Jobs1
<1>14. Written1 /\ Counted1 /\ Jobs1
    BY <1>7, <1>8, <1>9, <1>10, <1>11, <1>12, <1>13
       DEF Next, LoopStep, Enqueue, Terminate, StopReturns, Tick, vars
<1>15. QED
    BY <1>14 DEF Written1, Counted1, Jobs1

LEMMA VerdictInit == Init => VerdictInv
BY DEF Init, VerdictInv, AbsentRow, Sound, At

(* A verdict that is sound stays so.                                       *)
LEMMA SoundStays ==
    ASSUME TypeOK, LeaseInv, [Next]_vars, NEW CONSTANT n \in Notifications, NEW CONSTANT v,
           Sound(n, v)
    PROVE  Sound(n, v)'
<1>1. CASE v \notin {"success", "failed"}
    BY <1>1 DEF Sound
<1>2. CASE v \in {"success", "failed"}
    <2>1. RowsOf(n)' = RowsOf(n)
        BY <1>2, RowsStay DEF Sound
    <2>2. \A t \in RowsOf(n) : task[t].status \in Terminal => task'[t].status = task[t].status
        BY RowsKept DEF RowKept, RowsOf, TasksOf
    <2>3. QED
        BY <2>1, <2>2 DEF Sound, Terminal
<1>3. QED
    BY <1>1, <1>2

LEMMA VerdictStep == TypeOK /\ LeaseInv /\ VerdictInv /\ [Next]_vars /\ TypeOK' => VerdictInv'
<1> SUFFICES ASSUME TypeOK, LeaseInv, VerdictInv, [Next]_vars, TypeOK' PROVE VerdictInv'
    OBVIOUS
<1>1. \A n \in Notifications : Sound(n, notif[n])'
    <2> SUFFICES ASSUME NEW n \in Notifications PROVE Sound(n, notif[n])'
        OBVIOUS
    <2>1. PICK v : v = notif'[n]
        OBVIOUS
    <2>2. Sound(n, v)
        BY <2>1, VerdictSources
    <2>3. Sound(n, v)'
        BY <2>2, SoundStays
    <2>4. QED
        BY <2>1, <2>3
<1>2. \A d \in Dispatchers : \A w \in loop'[d].write : Sound(w[1], w[2])'
    <2> SUFFICES ASSUME NEW d \in Dispatchers, NEW w \in loop'[d].write PROVE Sound(w[1], w[2])'
        OBVIOUS
    <2>1. Sound(w[1], w[2])
        BY VerdictSources
    <2>2. w[1] \in Notifications
        BY DEF TypeOK, Loop
    <2>3. QED
        BY <2>1, <2>2, SoundStays
<1>3. \A j \in jobs' : j.pc = "write" => Sound(NotificationOf[j.task], j.agg)'
    <2> SUFFICES ASSUME NEW j \in jobs', j.pc = "write"
                 PROVE  Sound(NotificationOf[j.task], j.agg)'
        OBVIOUS
    <2>1. Sound(NotificationOf[j.task], j.agg)
        BY VerdictSources
    <2>2. NotificationOf[j.task] \in Notifications
        BY DispatcherAssumption DEF TypeOK, Job
    <2>3. QED
        BY <2>1, <2>2, SoundStays
<1>4. QED
    BY <1>1, <1>2, <1>3 DEF VerdictInv

LEMMA VerdictAlways == Spec => [](TypeOK /\ LeaseInv /\ VerdictInv)
BY VerdictStep, CountAlways, VerdictInit, PTL DEF Spec

(* A notification is announced to be over only when it is.                 *)
THEOREM VerdictsSound == Spec => []VerdictSound
<1>1. VerdictInv => VerdictSound
    BY DEF VerdictInv, Sound, VerdictSound
<1>2. QED
    BY <1>1, VerdictAlways, PTL

(* Not both verdicts are sound, and the sound one stays sound.             *)
LEMMA OneVerdict ==
    ASSUME NEW CONSTANT n \in Notifications
    PROVE  Spec => /\ [](notif[n] = "success" => [](notif[n] # "failed"))
                   /\ [](notif[n] = "failed" => [](notif[n] # "success"))
<1>1. ASSUME NEW CONSTANT v
      PROVE  TypeOK /\ LeaseInv /\ Sound(n, v) /\ [Next]_vars => Sound(n, v)'
    BY SoundStays
<1>2. TypeOK /\ LeaseInv /\ Sound(n, "success") /\ [Next]_vars => Sound(n, "success")'
    BY <1>1
<1>3. TypeOK /\ LeaseInv /\ Sound(n, "failed") /\ [Next]_vars => Sound(n, "failed")'
    BY <1>1
<1>4. VerdictInv => /\ notif[n] = "success" => Sound(n, "success")
                    /\ notif[n] = "failed" => Sound(n, "failed")
    BY DEF VerdictInv
<1>5. VerdictInv => /\ Sound(n, "success") => notif[n] # "failed"
                    /\ Sound(n, "failed") => notif[n] # "success"
    BY DEF VerdictInv, Sound
<1>6. QED
    BY <1>2, <1>3, <1>4, <1>5, VerdictAlways, PTL DEF Spec

(* A client that has been told the end of its notification is never told   *)
(* the opposite end, however many refreshes are late.                      *)
THEOREM VerdictsStand == Spec => VerdictStands
<1> SUFFICES ASSUME NEW CONSTANT n \in Notifications
             PROVE  Spec => /\ [](notif[n] = "success" => [](notif[n] # "failed"))
                            /\ [](notif[n] = "failed" => [](notif[n] # "success"))
    BY DEF VerdictStands
<1>1. QED
    BY OneVerdict
-----------------------------------------------------------------------------
(* What an adapter call may add to what is known of a message.             *)
Learned(t) ==
    \/ delivered' = [delivered EXCEPT ![t] = "yes"]
    \/ /\ t \in Webhooks /\ delivered[t] = "no"
       /\ delivered' = [delivered EXCEPT ![t] = "blank"]

(* What a client can see of a step of the dispatchers: a message arrives,  *)
(* or may have arrived, a task whose message did so is done, or tasks fail *)
(* or die.                                                                 *)
LEMMA VisibleSteps ==
    ASSUME TypeOK, LeaseInv, CountInv, DispatchStep
    PROVE  \/ /\ UNCHANGED task
              /\ \E t \in Tasks : task[t].status # "absent" /\ Learned(t)
           \/ /\ UNCHANGED delivered
              /\ \E t \in Tasks :
                    /\ task[t].status \in Active /\ Vouched(t)
                    /\ task'[t].status = "success"
                    /\ \A u \in Tasks \ {t} : task'[u] = task[u]
           \/ /\ UNCHANGED delivered
              /\ \A t \in Tasks :
                    \/ task'[t].status = task[t].status
                    \/ task[t].status \in Active /\ task'[t].status \in Active \cup {"dead"}
<1> DEFINE Moves(t) == \/ task'[t].status = task[t].status
                       \/ /\ task[t].status \in Active
                          /\ task'[t].status \in Active \cup {"dead"}
<1>1. ASSUME NEW j \in jobs
      PROVE  /\ j \in Job /\ j.task \in Tasks /\ j.rc \in Nat /\ task[j.task] \in Row
             /\ MaxRetry[j.task] \in Nat /\ j.owner # NoOwner
             /\ task[j.task].status # "absent"
    <2>1. /\ j \in Job /\ j.task \in Tasks /\ j.rc \in Nat /\ task[j.task] \in Row
          /\ MaxRetry[j.task] \in Nat /\ j.owner # NoOwner
          /\ j.id \in Nat /\ claims[j.task] \in Nat
        BY DispatcherAssumption, StoreAssumption DEF TypeOK, Job
    <2>2. claims[j.task] # 0
        BY <2>1 DEF CountInv, JobsInv
    <2>3. task[j.task].status # "absent"
        BY <2>1, <2>2 DEF CountInv, RowsInv, ClaimAccounting
    <2>4. QED
        BY <2>1, <2>3
<1>2. ASSUME NEW j \in jobs, SendReturns(j)
      PROVE  /\ UNCHANGED task
             /\ UNCHANGED delivered \/ Learned(j.task)
    <2>1. UNCHANGED task
        BY <1>2 DEF SendReturns
    <2>2. PICK e \in BOOLEAN, ok \in BOOLEAN :
            /\ ok => e \/ j.task \in Webhooks
            /\ delivered' = [delivered EXCEPT ![j.task] = Heard(@, e, ok)]
        BY <1>2 DEF SendReturns
    <2>3. CASE Heard(delivered[j.task], e, ok) = "yes"
        BY <2>1, <2>2, <2>3 DEF Learned
    <2>4. CASE Heard(delivered[j.task], e, ok) = "blank" /\ delivered[j.task] = "no"
        <3>1. j.task \in Webhooks
            BY <2>2, <2>4 DEF Heard
        <3>2. QED
            BY <2>1, <2>2, <2>4, <3>1 DEF Learned
    <2>5. CASE Heard(delivered[j.task], e, ok) = delivered[j.task]
        BY <1>1, <2>1, <2>2, <2>5 DEF TypeOK
    <2>6. QED
        BY <2>1, <2>3, <2>4, <2>5 DEF Heard
<1>3. UNCHANGED delivered \/ \E j \in jobs : SendReturns(j)
    BY DEF DispatchStep, Start, Terminate, LoopExit, StopReturns, Crash, LoopStep, ExpireSelect,
           ExpireEnd, LoopCount, LoopWrite, AcquireSelect, AcquireEnd, JobStep, PrepareOk,
           PrepareFails, RecordAttempt, UpdateTask, JobCount, JobWrite, Tick
<1>4. ASSUME NEW d \in Dispatchers, NEW k \in Kinds, Commit(d, k), NEW t \in Tasks PROVE Moves(t)
    <2>1. CASE t \notin DOMAIN tx[d][k]
        BY <1>4, <2>1 DEF Commit
    <2>2. CASE t \in DOMAIN tx[d][k]
        <3>1. task'[t] = tx[d][k][t]
            BY <1>4, <2>2 DEF Commit
        <3>2. /\ task[t].status = LockedStatus(k)
              /\ k # "expire" => ClaimWrites(d, task[t], tx[d][k][t])
              /\ k = "expire" => ExpiryWrites(t, task[t], tx[d][k][t])
            BY <2>2 DEF LeaseInv, WritesFollow
        <3>3. LockedStatus(k) \in Active
            BY DEF LockedStatus, Kinds, Active
        <3>4. QED
            BY <3>1, <3>2, <3>3 DEF ClaimWrites, ExpiryWrites, Active
    <2>3. QED
        BY <2>1, <2>2
<1>5. ASSUME NEW j \in jobs, LeaseHeld(task[j.task], j.owner),
             task' = [task EXCEPT ![j.task] = Settled(j)]
      PROVE  \/ /\ task[j.task].status \in Active /\ Vouched(j.task)
                /\ task'[j.task].status = "success"
                /\ \A u \in Tasks \ {j.task} : task'[u] = task[u]
             \/ \A t \in Tasks : Moves(t)
    <2>1. task[j.task].status = "processing" /\ "processing" \in Active
        BY <1>1, <1>5 DEF LeaseInv, NoStrandedRow, LeaseHeld, Active
    <2>2. \A t \in Tasks : task'[t] = IF t = j.task THEN Settled(j) ELSE task[t]
        BY <1>5 DEF TypeOK
    <2>3. CASE j.ok
        <3>1. Settled(j).status = "success" /\ Vouched(j.task)
            BY <1>1, <2>3, SucceededRow DEF Settled, CountInv, JobsInv
        <3>2. QED
            BY <1>1, <2>1, <2>2, <3>1
    <2>4. CASE ~j.ok
        <3>1. Settled(j).status \in {"failed", "dead"}
            BY <1>1, <2>4, FailedRow DEF Settled
        <3>2. QED
            BY <2>1, <2>2, <3>1 DEF Active
    <2>5. QED
        BY <2>3, <2>4
<1>6. ASSUME Tick, NEW t \in Tasks PROVE Moves(t)
    BY <1>6, ElapsedRow DEF Tick, TypeOK
<1>7. UNCHANGED task => \A t \in Tasks : Moves(t)
    OBVIOUS
<1>8. \/ \E t \in Tasks :
            /\ task[t].status \in Active /\ Vouched(t)
            /\ task'[t].status = "success"
            /\ \A u \in Tasks \ {t} : task'[u] = task[u]
      \/ \A t \in Tasks : Moves(t)
    <2>1. RowStep
        BY RowSteps
    <2> HIDE DEF Moves
    <2>2. QED
        BY <1>1, <1>4, <1>5, <1>6, <1>7, <2>1 DEF RowStep, Crash
<1>9. ASSUME NEW j \in jobs, SendReturns(j), delivered' # delivered
      PROVE  /\ UNCHANGED task
             /\ \E t \in Tasks : task[t].status # "absent" /\ Learned(t)
    BY <1>1, <1>2, <1>9
<1>10. QED
    BY <1>3, <1>8, <1>9
=============================================================================
