--------------------------- MODULE QueueRefinement ---------------------------
(***************************************************************************)
(* The dispatchers implement RetryQueue: the proof that every step of      *)
(* theirs, whatever fails, is a step of the queue or invisible to it.      *)
(* And what the queue leaves open: when the last announcement is the final *)
(* one.                                                                    *)
(***************************************************************************)
EXTENDS DispatcherProofs

-----------------------------------------------------------------------------
(* Refreshes.                                                              *)

(* A count of a notification with tasks is a status they can have.         *)
LEMMA AggregateOfTasks ==
    ASSUME NEW n, RowsOf(n) # {}
    PROVE  Aggregate(n) \in {"processing", "success", "failed"}
<1> DEFINE statuses == {task[t].status : t \in RowsOf(n)}
<1>1. statuses # {}
    OBVIOUS
<1>2. Aggregate(n) = IF statuses = {} THEN "pending"
                     ELSE IF statuses \cap Active # {} THEN "processing"
                     ELSE IF "dead" \in statuses THEN "failed"
                     ELSE "success"
    BY DEF Aggregate
<1>3. QED
    BY <1>1, <1>2

LEMMA RefreshInit == Init => RefreshInv
BY DEF Init, RefreshInv, At

(* The task of a worker has a row.                                         *)
LEMMA JobHasRow ==
    ASSUME TypeOK, CountInv, NEW j \in jobs
    PROVE  j.task \in Tasks /\ j.task \in RowsOf(NotificationOf[j.task])
<1>1. j.task \in Tasks /\ j.id \in Nat /\ claims[j.task] \in Nat
    BY DEF TypeOK, Job
<1>2. claims[j.task] # 0
    BY <1>1 DEF CountInv, JobsInv
<1>3. task[j.task].status # "absent"
    BY <1>1, <1>2 DEF CountInv, RowsInv, ClaimAccounting
<1>4. QED
    BY <1>1, <1>3 DEF RowsOf, TasksOf

(* The loops and the workers, once the rows that exist are known to stay.  *)
LEMMA RefreshStep ==
    TypeOK /\ LeaseInv /\ CountInv /\ RefreshInv /\ [Next]_vars => RefreshInv'
<1> SUFFICES ASSUME TypeOK, LeaseInv, CountInv, RefreshInv, [Next]_vars PROVE RefreshInv'
    OBVIOUS
<1> DEFINE Todo1  == \A d \in Dispatchers : \A n \in loop'[d].todo : RowsOf(n) # {}
           Count1 == \A d \in Dispatchers : \A w \in loop'[d].write :
                        w[1] \in loop'[d].todo /\ w[2] # "pending"
           Jobs1  == \A j \in jobs' : j.pc = "write" => j.agg # "pending"
<1>1. ASSUME UNCHANGED loop PROVE Todo1 /\ Count1
    BY <1>1 DEF RefreshInv
<1>2. ASSUME jobs' \subseteq jobs PROVE Jobs1
    BY <1>2 DEF RefreshInv
<1>3. /\ \A pc : At(pc).todo = {} /\ At(pc).write = {}
      /\ \A S : Acquiring(S).todo = {} /\ Acquiring(S).write = {}
      /\ \A S : Refreshing(S).todo = S /\ Refreshing(S).write = {}
    <2>1. \A pc : At(pc).todo = {} /\ At(pc).write = {}
        BY DEF At
    <2>2. \A S : Acquiring(S).todo = {} /\ Acquiring(S).write = {}
        BY DEF At, Acquiring
    <2>3. \A S : Refreshing(S).todo = S /\ Refreshing(S).write = {}
        BY <2>2 DEF At, Refreshing
    <2>4. QED
        BY <2>1, <2>2, <2>3
<1>4. ASSUME NEW d \in Dispatchers, NEW l, loop' = [loop EXCEPT ![d] = l],
             l.write = {}, \A n \in l.todo : RowsOf(n) # {}
      PROVE  Todo1 /\ Count1
    BY <1>4 DEF RefreshInv, TypeOK
<1>5. ASSUME NEW d \in Dispatchers, NEW S, loop' = [loop EXCEPT ![d] = Refreshing(S)],
             \A n \in S : RowsOf(n) # {}
      PROVE  Todo1 /\ Count1
    <2>1. PICK l : l = Refreshing(S)
        OBVIOUS
    <2>2. l.write = {} /\ l.todo = S /\ loop' = [loop EXCEPT ![d] = l]
        BY <1>3, <1>5, <2>1
    <2>3. QED
        BY <1>4, <1>5, <2>2
<1>6. ASSUME NEW j \in jobs, NEW next, next.pc # "write", Becomes(j, next) PROVE Jobs1
    BY <1>6 DEF RefreshInv, Becomes
<1>7. ASSUME NEW d \in Dispatchers, Start(d) \/ LoopExit(d) \/ Crash(d)
      PROVE  Todo1 /\ Count1 /\ Jobs1
    <2>1. jobs' \subseteq jobs
        BY <1>7 DEF Start, LoopExit, Crash
    <2>2. loop' = [loop EXCEPT ![d] = At("poll")] \/ loop' = [loop EXCEPT ![d] = At("off")]
        BY <1>7 DEF Start, LoopExit, Crash
    <2>3. QED
        BY <1>2, <1>3, <1>4, <2>1, <2>2
<1>8. ASSUME NEW d \in Dispatchers, ExpireSelect(d) PROVE Todo1 /\ Count1 /\ Jobs1
    BY <1>1, <1>2, <1>3, <1>4, <1>8 DEF ExpireSelect
<1>9. ASSUME NEW d \in Dispatchers, ExpireEnd(d) PROVE Todo1 /\ Count1 /\ Jobs1
    <2> DEFINE N == {NotificationOf[t] : t \in DOMAIN tx[d]["expire"]}
    <2>1. \A n \in N : RowsOf(n) # {}
        <3>1. \A t \in DOMAIN tx[d]["expire"] : t \in Tasks /\ task[t].status = "processing"
            BY DEF LeaseInv, WritesFollow, LockedStatus, TypeOK, Kinds
        <3>2. QED
            BY <3>1 DEF RowsOf, TasksOf
    <2>2. \/ loop' = [loop EXCEPT ![d] = Refreshing(N)]
          \/ loop' = [loop EXCEPT ![d] = Acquiring(FetchKinds)]
        BY <1>9 DEF ExpireEnd
    <2> HIDE DEF N
    <2>3. Todo1 /\ Count1
        BY <1>3, <1>4, <2>1, <2>2
    <2>4. QED
        BY <1>2, <1>9, <2>3 DEF ExpireEnd
<1>10. ASSUME NEW d \in Dispatchers, LoopCount(d) PROVE Todo1 /\ Count1 /\ Jobs1
    <2>0. jobs' \subseteq jobs
        BY <1>10 DEF LoopCount
    <2>1. PICK n \in loop[d].todo :
            \/ loop' = [loop EXCEPT ![d] = [@ EXCEPT !.write = {<<n, Aggregate(n)>>}]]
            \/ loop' = [loop EXCEPT ![d] = Refreshing(@.todo \ {n})]
        BY <1>10 DEF LoopCount
    <2>2. RowsOf(n) # {} /\ loop[d] \in Loop
        BY DEF RefreshInv, TypeOK
    <2>3. CASE loop' = [loop EXCEPT ![d] = [@ EXCEPT !.write = {<<n, Aggregate(n)>>}]]
        <3>1. \A e \in Dispatchers :
                /\ loop'[e].todo = loop[e].todo
                /\ loop'[e].write = IF e = d THEN {<<n, Aggregate(n)>>} ELSE loop[e].write
            BY <2>2, <2>3 DEF TypeOK, Loop
        <3>2. Aggregate(n) # "pending"
            BY <2>2, AggregateOfTasks
        <3>3. Todo1 /\ Count1
            BY <3>1, <3>2 DEF RefreshInv
        <3>4. QED
            BY <1>2, <2>0, <3>3
    <2>4. CASE loop' = [loop EXCEPT ![d] = Refreshing(@.todo \ {n})]
        <3> DEFINE left == loop[d].todo \ {n}
        <3>1. loop' = [loop EXCEPT ![d] = Refreshing(left)]
            BY <2>4
        <3>2. \A m \in left : RowsOf(m) # {}
            BY DEF RefreshInv
        <3> HIDE DEF left
        <3>3. Todo1 /\ Count1
            BY <1>5, <3>1, <3>2
        <3>4. QED
            BY <1>2, <2>0, <3>3
    <2>5. QED
        BY <2>1, <2>3, <2>4
<1>11. ASSUME NEW d \in Dispatchers, LoopWrite(d) PROVE Todo1 /\ Count1 /\ Jobs1
    <2>1. PICK w \in loop[d].write :
            loop' = [loop EXCEPT ![d] = Refreshing(loop[d].todo \ {w[1]})]
        BY <1>11 DEF LoopWrite
    <2> DEFINE left == loop[d].todo \ {w[1]}
    <2>2. /\ \A m \in left : RowsOf(m) # {}
          /\ loop' = [loop EXCEPT ![d] = Refreshing(left)]
        BY <2>1 DEF RefreshInv
    <2> HIDE DEF left
    <2>3. Todo1 /\ Count1
        BY <1>5, <2>2
    <2>4. jobs' \subseteq jobs
        BY <1>11 DEF LoopWrite
    <2>5. QED
        BY <1>2, <2>3, <2>4
<1>12. ASSUME NEW d \in Dispatchers, NEW k \in FetchKinds,
              AcquireSelect(d, k) \/ AcquireEnd(d, k)
       PROVE  Todo1 /\ Count1 /\ Jobs1
    <2>1. UNCHANGED loop \/ \E S : loop' = [loop EXCEPT ![d] = Acquiring(S)]
        BY <1>12 DEF AcquireSelect, AcquireEnd
    <2>2. jobs' = jobs \/ jobs' = jobs \cup NewJobs(d, k)
        BY <1>12 DEF AcquireSelect, AcquireEnd
    <2>3. Jobs1
        BY <2>2 DEF NewJobs, RefreshInv
    <2>4. QED
        BY <1>1, <1>3, <1>4, <2>1, <2>3
<1>13. ASSUME NEW j \in jobs, JobStep(j) PROVE Todo1 /\ Count1 /\ Jobs1
    <2>1. j \in Job
        BY DEF TypeOK
    <2>2. UNCHANGED loop
        BY <1>13 DEF JobStep, PrepareOk, PrepareFails, SendReturns, RecordAttempt, UpdateTask,
                     JobCount, JobWrite
    <2>3. CASE JobCount(j)
        <3> DEFINE next == [j EXCEPT !.pc = "write", !.agg = Aggregate(NotificationOf[j.task])]
        <3>1. next.agg # "pending"
            BY <2>1, AggregateOfTasks, JobHasRow DEF Job
        <3>2. Becomes(j, next) \/ Returns(j)
            BY <2>3 DEF JobCount
        <3> HIDE DEF next
        <3>3. QED
            BY <1>1, <2>2, <3>1, <3>2 DEF Becomes, Returns, RefreshInv
    <2>4. CASE ~JobCount(j)
        <3>1. \A pc, ok : [j EXCEPT !.pc = pc].pc = pc /\ [j EXCEPT !.pc = pc, !.ok = ok].pc = pc
            BY <2>1 DEF Job
        <3>2. \/ Returns(j)
              \/ \E pc \in {"send", "update", "count"} : Becomes(j, [j EXCEPT !.pc = pc])
              \/ \E ok : Becomes(j, [j EXCEPT !.pc = "record", !.ok = ok])
            BY <1>13, <2>4 DEF JobStep, PrepareOk, PrepareFails, SendReturns, RecordAttempt,
                               UpdateTask, JobWrite
        <3>3. ASSUME Returns(j) PROVE Jobs1
            BY <1>2, <3>3 DEF Returns
        <3>4. ASSUME NEW pc \in {"send", "update", "count"}, Becomes(j, [j EXCEPT !.pc = pc])
              PROVE  Jobs1
            BY <1>6, <3>1, <3>4
        <3>5. ASSUME NEW ok, Becomes(j, [j EXCEPT !.pc = "record", !.ok = ok]) PROVE Jobs1
            <4> DEFINE next == [j EXCEPT !.pc = "record", !.ok = ok]
            <4>1. next.pc = "record"
                BY <2>1 DEF Job
            <4>2. Becomes(j, next)
                BY <3>5
            <4> HIDE DEF next
            <4>3. QED
                BY <1>6, <4>1, <4>2
        <3>6. QED
            BY <1>1, <2>2, <3>2, <3>3, <3>4, <3>5
    <2>5. QED
        BY <2>3, <2>4
<1>14. ASSUME UNCHANGED <<loop, jobs>> PROVE Todo1 /\ Count1 /\ Jobs1
    BY <1>1, <1>2, <1>14
<1> HIDE DEF Todo1, Count1, Jobs1
<1>15. Todo1 /\ Count1 /\ Jobs1
    BY <1>7, <1>8, <1>9, <1>10, <1>11, <1>12, <1>13, <1>14
       DEF Next, LoopStep, Enqueue, Terminate, StopReturns, Tick, vars
<1>16. \A d \in Dispatchers : \A n \in loop'[d].todo : RowsOf(n)' # {}
    <2> SUFFICES ASSUME NEW d \in Dispatchers, NEW n \in loop'[d].todo PROVE RowsOf(n)' # {}
        OBVIOUS
    <2>1. PICK t \in RowsOf(n) : TRUE
        BY <1>15 DEF Todo1
    <2>2. t \in RowsOf(n)'
        BY <2>1, RowsKept DEF RowKept, RowsOf, TasksOf
    <2>3. QED
        BY <2>2
<1>17. QED
    BY <1>15, <1>16 DEF Count1, Jobs1, RefreshInv

-----------------------------------------------------------------------------
(* The mapping.                                                            *)

(* What the queue sees of a row.                                           *)
LEMMA QueueNames ==
    /\ QueueName["absent"] = "none" /\ QueueName["pending"] = "waiting"
    /\ QueueName["failed"] = "waiting" /\ QueueName["processing"] = "working"
    /\ QueueName["success"] = "delivered" /\ QueueName["dead"] = "dead"
BY DEF QueueName

LEMMA QueueRows ==
    ASSUME NEW n
    PROVE  TypeOK => Queue!Submitted(n) = RowsOf(n)
<1> SUFFICES ASSUME TypeOK PROVE Queue!Submitted(n) = RowsOf(n)
    OBVIOUS
<1>1. \A t \in Tasks : QueueState[t] = "none" <=> task[t].status = "absent"
    BY QueueNames DEF QueueState, TypeOK, Row, TaskStatus
<1>2. QED
    BY <1>1 DEF Queue!Submitted, Queue!TasksOf, RowsOf, TasksOf

(* A step that changes no status, no count and no verdict is invisible.    *)
LEMMA Invisible ==
    ASSUME UNCHANGED notif,
           \A t \in Tasks : /\ task'[t].status = task[t].status
                            /\ task'[t].retryCount = task[t].retryCount
    PROVE  UNCHANGED Queue!vars
BY DEF Queue!vars, QueueState

LEMMA QueueInit == Init => Queue!Init
BY QueueNames DEF Init, Queue!Init, QueueState, AbsentRow

(* The engine submits tasks.                                               *)
LEMMA EnqueueSubmits ==
    ASSUME TypeOK, CountInv, NEW n \in Notifications, NEW S \in SUBSET TasksOf(n), Enqueue(n, S)
    PROVE  Queue!Submit(n, S)
<1>1. NewRow.status = "pending" /\ NewRow.retryCount = 0
    BY DEF NewRow, AbsentRow
<1>2. S \subseteq Tasks /\ (\A t \in S : task[t].status = "absent" /\ task[t].retryCount = 0)
    BY DEF Enqueue, RowsOf, TasksOf, CountInv, RowsInv
<1>3. Queue!Submitted(n) = {}
    BY QueueRows DEF Enqueue
<1>4. \A t \in Tasks : task'[t] = IF t \in S THEN NewRow ELSE task[t]
    BY DEF Enqueue
<1>5. QueueState' = [t \in Tasks |-> IF t \in S THEN "waiting" ELSE QueueState[t]]
    BY <1>1, <1>4, QueueNames DEF QueueState
<1>6. \A t \in Tasks : task'[t].retryCount = task[t].retryCount
    BY <1>1, <1>2, <1>4
<1>7. QED
    BY <1>3, <1>5, <1>6 DEF Queue!Submit, Enqueue

(* A committed claim takes its batch.                                      *)
LEMMA ClaimTakes ==
    ASSUME TypeOK, LeaseInv, NEW d \in Dispatchers, NEW k \in FetchKinds, Commit(d, k),
           UNCHANGED notif
    PROVE  Queue!Take(DOMAIN tx[d][k])
<1>1. k \in Kinds /\ k # "expire" /\ LockedStatus(k) \in {"pending", "failed"}
    BY DEF Kinds, FetchKinds, LockedStatus
<1>2. \A t \in DOMAIN tx[d][k] :
        /\ t \in Tasks /\ task[t].status \in {"pending", "failed"}
        /\ tx[d][k][t].status = "processing"
        /\ tx[d][k][t].retryCount = task[t].retryCount
    BY <1>1 DEF LeaseInv, WritesFollow, ClaimWrites, TypeOK
<1>3. \A t \in Tasks : task'[t] = IF t \in DOMAIN tx[d][k] THEN tx[d][k][t] ELSE task[t]
    BY DEF Commit
<1>4. \A t \in DOMAIN tx[d][k] : QueueState[t] = "waiting"
    BY <1>2, QueueNames DEF QueueState
<1>5. QueueState' = [t \in Tasks |-> IF t \in DOMAIN tx[d][k] THEN "working" ELSE QueueState[t]]
    BY <1>2, <1>3, QueueNames DEF QueueState
<1>6. \A t \in Tasks : task'[t].retryCount = task[t].retryCount
    BY <1>2, <1>3
<1>7. QED
    BY <1>4, <1>5, <1>6 DEF Queue!Take

(* Rows of a batch that fail or die while they are processed are given up. *)
LEMMA FailuresGiveUp ==
    ASSUME TypeOK, NEW S \in SUBSET Tasks, UNCHANGED notif,
           \A t \in Tasks \ S : task'[t] = task[t],
           \A t \in S : /\ task[t].status = "processing"
                        /\ task'[t].status \in {"failed", "dead"}
                        /\ task'[t].retryCount = task[t].retryCount + 1
                        /\ task'[t].status = "dead" => task[t].retryCount >= MaxRetry[t]
    PROVE  \E B \in SUBSET S : Queue!GiveUp(S, B)
<1>1. PICK B \in SUBSET S : B = {t \in S : task'[t].status = "dead"}
    OBVIOUS
<1>2. /\ \A t \in S : QueueState[t] = "working"
      /\ \A t \in B : t \in S /\ task[t].retryCount >= MaxRetry[t]
    BY <1>1, QueueNames DEF QueueState
<1>3. QueueState' = [t \in Tasks |-> IF t \in B THEN "dead"
                                     ELSE IF t \in S THEN "waiting" ELSE QueueState[t]]
    BY <1>1, QueueNames DEF QueueState
<1>4. [t \in Tasks |-> task'[t].retryCount]
        = [t \in Tasks |-> IF t \in S THEN task[t].retryCount + 1 ELSE task[t].retryCount]
    OBVIOUS
<1>5. Queue!GiveUp(S, B)
    BY <1>2, <1>3, <1>4 DEF Queue!GiveUp
<1>6. QED
    BY <1>5

LEMMA ExpiryGivesUp ==
    ASSUME TypeOK, LeaseInv, NEW d \in Dispatchers, Commit(d, "expire"), UNCHANGED notif
    PROVE  \E S \in SUBSET Tasks : \E B \in SUBSET S : Queue!GiveUp(S, B)
<1> DEFINE S == DOMAIN tx[d]["expire"]
<1>1. S \in SUBSET Tasks
    BY DEF TypeOK, Kinds
<1>2. \A t \in Tasks : task'[t] = IF t \in S THEN tx[d]["expire"][t] ELSE task[t]
    BY DEF Commit
<1>3. \A t \in S : task[t].status = "processing" /\ ExpiryWrites(t, task[t], tx[d]["expire"][t])
    BY DEF LeaseInv, WritesFollow, LockedStatus, Kinds
<1> HIDE DEF S
<1>4. \E B \in SUBSET S : Queue!GiveUp(S, B)
    <2>1. \A t \in Tasks \ S : task'[t] = task[t]
        BY <1>2
    <2>2. \A t \in S : /\ task[t].status = "processing"
                       /\ task'[t].status \in {"failed", "dead"}
                       /\ task'[t].retryCount = task[t].retryCount + 1
                       /\ task'[t].status = "dead" => task[t].retryCount >= MaxRetry[t]
        BY <1>1, <1>2, <1>3 DEF ExpiryWrites
    <2>3. QED
        BY <1>1, <2>1, <2>2, FailuresGiveUp
<1>5. QED
    BY <1>1, <1>4

(* A worker settles its task: delivered or given up.                       *)
LEMMA UpdateSettles ==
    ASSUME TypeOK, LeaseInv, CountInv, NEW j \in jobs, LeaseHeld(task[j.task], j.owner),
           task' = [task EXCEPT ![j.task] = Settled(j)], UNCHANGED notif
    PROVE  \/ Queue!Deliver(j.task)
           \/ \E B \in SUBSET {j.task} : Queue!GiveUp({j.task}, B)
<1>1. /\ j \in Job /\ j.task \in Tasks /\ j.id \in Nat /\ j.rc \in Nat
      /\ task[j.task] \in Row /\ task[j.task].retryCount \in Nat /\ claims[j.task] \in Nat
      /\ MaxRetry[j.task] \in Nat /\ j.owner # NoOwner
    BY DispatcherAssumption, StoreAssumption DEF TypeOK, Job, Row
<1>2. task[j.task].status = "processing"
    BY <1>1 DEF LeaseInv, NoStrandedRow, LeaseHeld
<1>3. \A t \in Tasks : task'[t] = IF t = j.task THEN Settled(j) ELSE task[t]
    BY DEF TypeOK
<1>4. CASE j.ok
    <2>1. /\ task'[j.task].status = "success"
          /\ task'[j.task].retryCount = task[j.task].retryCount
        BY <1>1, <1>3, <1>4, SucceededRow DEF Settled
    <2>2. QueueState[j.task] = "working"
        BY <1>1, <1>2, QueueNames DEF QueueState
    <2>3. QueueState' = [QueueState EXCEPT ![j.task] = "delivered"]
        <3>1. \A t \in Tasks : QueueState'[t] = IF t = j.task THEN "delivered" ELSE QueueState[t]
            BY <1>3, <2>1, QueueNames DEF QueueState
        <3>2. QED
            BY <3>1 DEF QueueState
    <2>4. \A t \in Tasks : task'[t].retryCount = task[t].retryCount
        BY <1>3, <2>1
    <2>5. QED
        BY <2>2, <2>3, <2>4 DEF Queue!Deliver
<1>5. CASE ~j.ok
    <2>1. j.rc <= task[j.task].retryCount
        <3>1. claims[j.task] = task[j.task].retryCount + 1
            BY <1>1, <1>2 DEF CountInv, RowsInv, ClaimAccounting
        <3>2. j.rc = j.id - 1 /\ j.id <= claims[j.task]
            BY DEF CountInv, JobsInv
        <3>3. QED
            BY <1>1, <3>1, <3>2
    <2> DEFINE w == Failed(task[j.task], j.rc, MaxRetry[j.task])
    <2>2. /\ w.status \in {"failed", "dead"}
          /\ w.status = "dead" => j.rc >= MaxRetry[j.task]
          /\ w.retryCount = task[j.task].retryCount + 1
        BY <1>1, FailedRow
    <2>3. task'[j.task] = w
        BY <1>1, <1>3, <1>5 DEF Settled
    <2> HIDE DEF w
    <2>4. w.status = "dead" => task[j.task].retryCount >= MaxRetry[j.task]
        BY <1>1, <2>1, <2>2
    <2>5. \A t \in Tasks \ {j.task} : task'[t] = task[t]
        BY <1>3
    <2>6. \A t \in {j.task} : /\ task[t].status = "processing"
                              /\ task'[t].status \in {"failed", "dead"}
                              /\ task'[t].retryCount = task[t].retryCount + 1
                              /\ task'[t].status = "dead" => task[t].retryCount >= MaxRetry[t]
        BY <1>2, <2>2, <2>3, <2>4
    <2>7. {j.task} \in SUBSET Tasks
        BY <1>1
    <2>8. QED
        BY <2>5, <2>6, <2>7, FailuresGiveUp
<1>6. QED
    BY <1>4, <1>5

(* A refresh announces what it counted.                                    *)
LEMMA RefreshAnnounces ==
    ASSUME TypeOK, NEW n \in Notifications, NEW v \in {"processing", "success", "failed"},
           Sound(n, v), RowsOf(n) # {}, UNCHANGED task, notif' = [notif EXCEPT ![n] = v]
    PROVE  Queue!Announce(n, v)
<1>1. Queue!Submitted(n) = RowsOf(n)
    BY QueueRows
<1>2. \A t \in RowsOf(n) :
        /\ task[t].status = "success" => QueueState[t] = "delivered"
        /\ task[t].status = "dead" => QueueState[t] = "dead"
    BY QueueNames DEF QueueState, RowsOf, TasksOf
<1>3. Queue!MayAnnounce(n, v)
    BY <1>1, <1>2 DEF Sound, Queue!MayAnnounce, Terminal
<1>4. QED
    BY <1>1, <1>3 DEF Queue!Announce, QueueState

-----------------------------------------------------------------------------
(* The refinement. *)

(* The writes of notifications.status.                                     *)
LEMMA NotifSteps ==
    ASSUME TypeOK, VerdictInv, RefreshInv, CountInv, [Next]_vars
    PROVE  \/ UNCHANGED notif
           \/ /\ UNCHANGED task
              /\ \E n \in Notifications, v \in {"processing", "success", "failed"} :
                    Sound(n, v) /\ RowsOf(n) # {} /\ notif' = [notif EXCEPT ![n] = v]
<1> DEFINE Announced ==
        /\ UNCHANGED task
        /\ \E n \in Notifications, v \in {"processing", "success", "failed"} :
              Sound(n, v) /\ RowsOf(n) # {} /\ notif' = [notif EXCEPT ![n] = v]
<1>1. ASSUME NEW d \in Dispatchers, LoopWrite(d) PROVE UNCHANGED notif \/ Announced
    <2>1. PICK w \in loop[d].write : notif' = notif \/ notif' = [notif EXCEPT ![w[1]] = w[2]]
        BY <1>1 DEF LoopWrite
    <2>2. /\ w[1] \in Notifications /\ w[2] \in {"processing", "success", "failed"}
          /\ RowsOf(w[1]) # {} /\ Sound(w[1], w[2])
        BY DEF TypeOK, Loop, VerdictInv, RefreshInv, NotificationStatus
    <2>3. QED
        BY <1>1, <2>1, <2>2 DEF LoopWrite
<1>2. ASSUME NEW j \in jobs, JobWrite(j) PROVE UNCHANGED notif \/ Announced
    <2>1. /\ NotificationOf[j.task] \in Notifications
          /\ j.agg \in {"processing", "success", "failed"}
          /\ Sound(NotificationOf[j.task], j.agg)
        BY <1>2, DispatcherAssumption
           DEF JobWrite, TypeOK, Job, VerdictInv, RefreshInv, NotificationStatus
    <2>2. RowsOf(NotificationOf[j.task]) # {}
        BY JobHasRow
    <2>3. QED
        BY <1>2, <2>1, <2>2 DEF JobWrite
<1>3. ASSUME NEW d \in Dispatchers, LoopStep(d) PROVE UNCHANGED notif \/ Announced
    BY <1>1, <1>3 DEF LoopStep, ExpireSelect, ExpireEnd, LoopCount, AcquireSelect, AcquireEnd
<1>4. ASSUME NEW j \in jobs, JobStep(j) PROVE UNCHANGED notif \/ Announced
    BY <1>2, <1>4 DEF JobStep, PrepareOk, PrepareFails, SendReturns, RecordAttempt,
                      UpdateTask, JobCount
<1>5. ASSUME NEW d \in Dispatchers,
             Start(d) \/ Terminate(d) \/ LoopExit(d) \/ StopReturns(d) \/ Crash(d)
      PROVE  UNCHANGED notif
    BY <1>5 DEF Start, Terminate, LoopExit, StopReturns, Crash
<1>6. ASSUME NEW n \in Notifications, NEW S \in SUBSET TasksOf(n), Enqueue(n, S)
      PROVE  UNCHANGED notif
    BY <1>6 DEF Enqueue
<1>7. ASSUME Tick PROVE UNCHANGED notif
    BY <1>7 DEF Tick
<1>8. ASSUME UNCHANGED vars PROVE UNCHANGED notif
    BY <1>8 DEF vars
<1> HIDE DEF Announced
<1>9. UNCHANGED notif \/ Announced
    BY <1>3, <1>4, <1>5, <1>6, <1>7, <1>8 DEF Next
<1>10. QED
    BY <1>9 DEF Announced

(* Every step of the dispatchers is one of the queue, or invisible.        *)
LEMMA QueueStep ==
    TypeOK /\ LeaseInv /\ CountInv /\ VerdictInv /\ RefreshInv /\ [Next]_vars
        => [Queue!Next]_Queue!vars
<1> SUFFICES ASSUME TypeOK, LeaseInv, CountInv, VerdictInv, RefreshInv, [Next]_vars
             PROVE  Queue!Next \/ UNCHANGED Queue!vars
    OBVIOUS
<1>1. CASE ~UNCHANGED notif
    <2>1. PICK n \in Notifications, v \in {"processing", "success", "failed"} :
            /\ UNCHANGED task
            /\ Sound(n, v) /\ RowsOf(n) # {} /\ notif' = [notif EXCEPT ![n] = v]
        BY <1>1, NotifSteps
    <2>2. Queue!Announce(n, v)
        BY <2>1, RefreshAnnounces
    <2>3. QED
        BY <2>2 DEF Queue!Next
<1>2. CASE UNCHANGED notif
    <2>1. CASE UNCHANGED task
        BY <1>2, <2>1, Invisible
    <2>2. ASSUME NEW n \in Notifications, NEW S \in SUBSET TasksOf(n), Enqueue(n, S)
          PROVE  Queue!Next
        <3>1. Queue!TasksOf(n) = TasksOf(n)
            BY DEF Queue!TasksOf, TasksOf
        <3>2. QED
            BY <2>2, <3>1, EnqueueSubmits DEF Queue!Next
    <2>3. ASSUME NEW d \in Dispatchers, NEW k \in Kinds, Commit(d, k) PROVE Queue!Next
        <3>1. CASE k = "expire"
            BY <1>2, <2>3, <3>1, ExpiryGivesUp DEF Queue!Next
        <3>2. CASE k # "expire"
            <4>1. k \in FetchKinds /\ DOMAIN tx[d][k] \in SUBSET Tasks
                BY <3>2 DEF Kinds, FetchKinds, TypeOK
            <4>2. QED
                BY <1>2, <2>3, <4>1, ClaimTakes DEF Queue!Next
        <3>3. QED
            BY <3>1, <3>2
    <2>4. ASSUME NEW j \in jobs, LeaseHeld(task[j.task], j.owner),
                 task' = [task EXCEPT ![j.task] = Settled(j)]
          PROVE  Queue!Next
        <3>1. j.task \in Tasks /\ {j.task} \in SUBSET Tasks
            BY DEF TypeOK, Job
        <3>2. QED
            BY <1>2, <2>4, <3>1, UpdateSettles DEF Queue!Next
    <2>5. CASE Tick
        <3>1. \A t \in Tasks : task[t] \in Row /\ task'[t] = Elapsed(task[t])
            BY <2>5 DEF TypeOK, Tick
        <3>2. QED
            BY <1>2, <3>1, ElapsedRow, Invisible
    <2>6. QED
        BY <2>1, <2>2, <2>3, <2>4, <2>5, TableSteps DEF TableStep, RowStep, Crash
<1>3. QED
    BY <1>1, <1>2

LEMMA RefreshAlways == Spec => [](TypeOK /\ LeaseInv /\ CountInv /\ VerdictInv /\ RefreshInv)
<1>1. TypeOK /\ LeaseInv /\ CountInv /\ VerdictInv /\ [Next]_vars /\ TypeOK' => VerdictInv'
    BY VerdictStep
<1>2. QED
    BY <1>1, CountAlways, VerdictInit, RefreshInit, RefreshStep, PTL DEF Spec

(* Any number of dispatchers that crash, outlive their leases and lose the *)
(* answers of the database behave, seen from the tables, like one queue.   *)
THEOREM DispatchersImplementQueue == Spec => ImplementsQueue
BY RefreshAlways, QueueInit, QueueStep, PTL DEF Spec, ImplementsQueue, Queue!Spec
-----------------------------------------------------------------------------
(* When the announcement is complete: if no call fails and no two          *)
(* refreshes of a notification overlap, its status follows its tasks.      *)
NoFailures == Faults \subseteq {"delay"}

LEMMA LoopShapes ==
    /\ \A S : /\ Acquiring(S).todo = {} /\ Acquiring(S).write = {}
              /\ Acquiring(S).pc \in {"poll", "acquire"}
              /\ Acquiring(S).pc # "acquire" => Acquiring(S).fetch = {}
    /\ \A S : /\ Refreshing(S).todo = S /\ Refreshing(S).write = {}
              /\ Refreshing(S).pc # "refresh" => S = {}
              /\ Refreshing(S).pc # "acquire" => Refreshing(S).fetch = {}
    /\ \A pc : At(pc).pc = pc /\ At(pc).todo = {} /\ At(pc).write = {} /\ At(pc).fetch = {}
<1>1. \A pc : At(pc).pc = pc /\ At(pc).todo = {} /\ At(pc).write = {} /\ At(pc).fetch = {}
    BY DEF At
<1>2. ASSUME NEW S
      PROVE  /\ Acquiring(S).todo = {} /\ Acquiring(S).write = {}
             /\ Acquiring(S).pc \in {"poll", "acquire"}
             /\ Acquiring(S).pc # "acquire" => Acquiring(S).fetch = {}
    BY DEF Acquiring, At
<1>3. ASSUME NEW S
      PROVE  /\ Refreshing(S).todo = S /\ Refreshing(S).write = {}
             /\ Refreshing(S).pc # "refresh" => S = {}
             /\ Refreshing(S).pc # "acquire" => Refreshing(S).fetch = {}
    BY <1>2 DEF Refreshing, At
<1>4. QED
    BY <1>1, <1>2, <1>3

LEMMA AllCallsReturn ==
    ASSUME NoFailures, PlaceInv, NEW d \in Dispatchers, NEW o \in Outcomes(d)
    PROVE  o = "ok"
BY DEF NoFailures, PlaceInv, Outcomes

LEMMA PlaceInit == Init => PlaceInv
<1> SUFFICES ASSUME Init PROVE PlaceInv
    OBVIOUS
<1>1. ASSUME NEW d \in Dispatchers
      PROVE  phase[d] = "new" /\ loop[d] = At("off") /\ DOMAIN tx[d]["expire"] = {}
    BY DEF Init, NoWrites, Kinds
<1>2. QED
    BY <1>1, LoopShapes DEF PlaceInv, Open

(* A process that is not up does nothing; the loop of one that is takes    *)
(* one step, or another goroutine does.                                    *)
LEMMA PlaceStep == NoFailures /\ TypeOK /\ PlaceInv /\ [Next]_vars => PlaceInv'
<1> SUFFICES ASSUME NoFailures, TypeOK, PlaceInv, [Next]_vars PROVE PlaceInv'
    OBVIOUS
<1>1. ASSUME UNCHANGED <<phase, loop>>,
             \A d \in Dispatchers : Open(d, "expire")' => Open(d, "expire")
      PROVE  PlaceInv'
    BY <1>1 DEF PlaceInv
<1>2. ASSUME NEW d \in Dispatchers, NEW l, phase'[d] = "running",
             loop' = [loop EXCEPT ![d] = l],
             l.pc # "refresh" => l.todo = {},
             l.pc # "acquire" => l.fetch = {},
             Open(d, "expire")' => l.pc = "poll",
             \A e \in Dispatchers \ {d} :
                phase'[e] = phase[e] /\ (Open(e, "expire")' => Open(e, "expire"))
      PROVE  PlaceInv'
    <2>1. loop'[d] = l /\ \A e \in Dispatchers \ {d} : loop'[e] = loop[e]
        BY <1>2 DEF TypeOK
    <2>2. QED
        BY <1>2, <2>1 DEF PlaceInv
<1>3. /\ "expire" \in Kinds /\ FetchKinds \subseteq Kinds /\ "expire" \notin FetchKinds
    BY DEF Kinds, FetchKinds
<1>4. UNCHANGED tx => \A d \in Dispatchers : Open(d, "expire")' = Open(d, "expire")
    BY DEF Open
<1>5. ASSUME NEW d \in Dispatchers, loop[d].pc # "off" PROVE phase[d] = "running"
    BY <1>5, LoopShapes DEF PlaceInv
<1>6. ASSUME NEW d \in Dispatchers, Start(d) PROVE PlaceInv'
    <2>1. phase'[d] = "running" /\ \A e \in Dispatchers \ {d} : phase'[e] = phase[e]
        BY <1>6 DEF Start, TypeOK
    <2>2. PICK l : l = At("poll")
        OBVIOUS
    <2>3. l.pc = "poll" /\ l.todo = {} /\ l.fetch = {} /\ loop' = [loop EXCEPT ![d] = l]
        BY <1>6, <2>2, LoopShapes DEF Start
    <2>4. QED
        BY <1>2, <1>4, <1>6, <2>1, <2>3 DEF Start
<1>7. ASSUME NEW d \in Dispatchers, Terminate(d) \/ LoopExit(d) \/ StopReturns(d) \/ Crash(d)
      PROVE  FALSE
    BY <1>7 DEF NoFailures, PlaceInv, Terminate, LoopExit, StopReturns, Crash
<1>8. ASSUME NEW d \in Dispatchers, ExpireSelect(d) PROVE PlaceInv'
    <2>1. loop[d].pc = "poll" /\ phase[d] = "running" /\ UNCHANGED phase
        BY <1>5, <1>8 DEF ExpireSelect
    <2>2. CASE UNCHANGED loop
        <3>1. \A e \in Dispatchers \ {d} : tx'[e] = tx[e]
            BY <1>8 DEF ExpireSelect, OpenTx, TypeOK
        <3>2. QED
            BY <2>1, <2>2, <3>1 DEF PlaceInv, Open
    <2>3. CASE loop' = [loop EXCEPT ![d] = Acquiring(FetchKinds)] /\ UNCHANGED tx
        <3>1. PICK l : l = Acquiring(FetchKinds)
            OBVIOUS
        <3>2. ~Open(d, "expire")'
            BY <1>4, <1>8, <2>3 DEF ExpireSelect
        <3>3. l.todo = {} /\ (l.pc # "acquire" => l.fetch = {})
            BY <3>1, LoopShapes
        <3>4. QED
            BY <1>2, <1>4, <2>1, <2>3, <3>1, <3>2, <3>3
    <2>4. QED
        BY <1>8, <2>2, <2>3 DEF ExpireSelect
<1>9. ASSUME NEW d \in Dispatchers, ExpireEnd(d) PROVE PlaceInv'
    <2>1. loop[d].pc = "poll" /\ phase[d] = "running" /\ UNCHANGED phase
        BY <1>5, <1>9 DEF ExpireEnd, PlaceInv
    <2>2. ~Open(d, "expire")' /\ \A e \in Dispatchers \ {d} : tx'[e] = tx[e]
        BY <1>3, <1>9 DEF ExpireEnd, CloseTx, TypeOK, Open, NoWrites
    <2>3. PICK l : /\ loop' = [loop EXCEPT ![d] = l]
                   /\ \/ l = Acquiring(FetchKinds)
                      \/ l = Refreshing({NotificationOf[t] : t \in DOMAIN tx[d]["expire"]})
        BY <1>9 DEF ExpireEnd
    <2>4. (l.pc # "refresh" => l.todo = {}) /\ (l.pc # "acquire" => l.fetch = {})
        BY <2>3, LoopShapes
    <2>5. QED
        BY <1>2, <2>1, <2>2, <2>3, <2>4 DEF Open
<1>10. ASSUME NEW d \in Dispatchers, LoopCount(d) \/ LoopWrite(d) PROVE PlaceInv'
    <2>1. loop[d].pc = "refresh" /\ phase[d] = "running" /\ UNCHANGED <<phase, tx>>
        BY <1>5, <1>10 DEF LoopCount, LoopWrite
    <2>2. ~Open(d, "expire")'
        BY <1>4, <2>1 DEF PlaceInv
    <2>3. PICK l : /\ loop' = [loop EXCEPT ![d] = l]
                   /\ \/ \E S : l = Refreshing(S)
                      \/ \E x : l = [loop[d] EXCEPT !.write = x]
        BY <1>10 DEF LoopCount, LoopWrite
    <2>4. (l.pc # "refresh" => l.todo = {}) /\ (l.pc # "acquire" => l.fetch = {})
        <3>1. loop[d] \in Loop /\ loop[d].fetch = {}
            BY <2>1 DEF TypeOK, PlaceInv
        <3>2. CASE \E S : l = Refreshing(S)
            BY <3>2, LoopShapes
        <3>3. CASE \E x : l = [loop[d] EXCEPT !.write = x]
            BY <2>1, <3>1, <3>3 DEF Loop
        <3>4. QED
            BY <2>3, <3>2, <3>3
    <2>5. QED
        BY <1>2, <1>4, <2>1, <2>2, <2>3, <2>4
<1>11. ASSUME NEW d \in Dispatchers, NEW k \in FetchKinds, AcquireSelect(d, k) \/ AcquireEnd(d, k)
       PROVE  PlaceInv'
    <2>1. loop[d].pc = "acquire" /\ UNCHANGED phase
        BY <1>11 DEF AcquireSelect, AcquireEnd, PlaceInv
    <2>2. \A e \in Dispatchers : tx'[e]["expire"] = tx[e]["expire"]
        BY <1>3, <1>11 DEF AcquireSelect, AcquireEnd, OpenTx, CloseTx, TypeOK
    <2>3. \A e \in Dispatchers : Open(e, "expire")' = Open(e, "expire")
        BY <2>2 DEF Open
    <2>4. CASE UNCHANGED loop
        BY <1>1, <2>1, <2>3, <2>4
    <2>5. ASSUME loop' = [loop EXCEPT ![d] = Acquiring(loop[d].fetch \ {k})] PROVE PlaceInv'
        <3>1. PICK l : l = Acquiring(loop[d].fetch \ {k})
            OBVIOUS
        <3>2. l.todo = {} /\ (l.pc # "acquire" => l.fetch = {})
            BY <3>1, LoopShapes
        <3>3. ~Open(d, "expire")' /\ phase[d] = "running"
            BY <1>5, <2>1, <2>3 DEF PlaceInv
        <3>4. QED
            BY <1>2, <2>1, <2>3, <2>5, <3>1, <3>2, <3>3
    <2>6. QED
        BY <1>11, <2>4, <2>5 DEF AcquireSelect, AcquireEnd
<1>12. ASSUME NEW j \in jobs, JobStep(j) PROVE PlaceInv'
    BY <1>1, <1>4, <1>12 DEF JobStep, PrepareOk, PrepareFails, SendReturns, RecordAttempt,
                             UpdateTask, JobCount, JobWrite
<1>13. ASSUME Tick PROVE PlaceInv'
    <2>1. \A d \in Dispatchers : DOMAIN tx'[d]["expire"] = DOMAIN tx[d]["expire"]
        BY <1>3, <1>13 DEF Tick, TypeOK
    <2>2. QED
        BY <1>1, <1>13, <2>1 DEF Tick, Open
<1>14. ASSUME NEW n \in Notifications, NEW S \in SUBSET TasksOf(n), Enqueue(n, S)
       PROVE  PlaceInv'
    BY <1>1, <1>4, <1>14 DEF Enqueue
<1>15. CASE UNCHANGED vars
    BY <1>1, <1>4, <1>15 DEF vars
<1>16. QED
    BY <1>6, <1>7, <1>8, <1>9, <1>10, <1>11, <1>12, <1>13, <1>14, <1>15 DEF Next, LoopStep

-----------------------------------------------------------------------------
(* A notification whose tasks are over after a step that makes none of     *)
(* them terminal was over before it, with the same verdict.                *)
LEMMA OverBefore ==
    ASSUME NEW n \in Notifications, Over(n)',
           \A t \in TasksOf(n) : \/ task'[t].status = task[t].status
                                 \/ task'[t].status \in Active
    PROVE  Over(n) /\ Aggregate(n)' = Aggregate(n)
<1>1. \A t \in TasksOf(n) : task'[t].status = task[t].status
    BY DEF Over, RowsOf, TasksOf, Active, Terminal
<1>2. RowsOf(n)' = RowsOf(n)
    BY <1>1 DEF RowsOf, TasksOf
<1>3. {task'[t].status : t \in RowsOf(n)'} = {task[t].status : t \in RowsOf(n)}
    BY <1>1, <1>2 DEF RowsOf
<1>4. Over(n)
    BY <1>1, <1>2 DEF Over, RowsOf
<1>5. QED
    BY <1>3, <1>4 DEF Aggregate

(* Steps that neither refresh it nor make any of its tasks terminal.       *)
LEMMA Untouched ==
    ASSUME NEW n \in Notifications, Attended(n), notif'[n] = notif[n],
           \A t \in TasksOf(n) : \/ task'[t].status = task[t].status
                                 \/ task'[t].status \in Active,
           \A d \in Dispatchers : n \in loop'[d].todo <=> n \in loop[d].todo,
           \A d \in Dispatchers : \A w : w[1] = n => (w \in loop'[d].write <=> w \in loop[d].write),
           \A j : j.pc \in {"count", "write"} /\ NotificationOf[j.task] = n
                    => (j \in jobs' <=> j \in jobs)
    PROVE  Attended(n)'
<1> SUFFICES ASSUME Over(n)' PROVE ToCount(n)' \/ Refreshed(n)'
    BY DEF Attended
<1>1. Over(n) /\ Aggregate(n)' = Aggregate(n)
    BY OverBefore
<1>2. JobsWriting(n)' = JobsWriting(n) /\ LoopsWriting(n)' = LoopsWriting(n)
    BY DEF JobsWriting, LoopsWriting
<1>3. CASE ToCount(n)
    BY <1>2, <1>3 DEF ToCount
<1>4. CASE Refreshed(n)
    BY <1>1, <1>2, <1>4 DEF Refreshed
<1>5. QED
    BY <1>1, <1>3, <1>4 DEF Attended

(* The loop of a process moves to a place where it refreshes nothing.      *)
LEMMA LoopLeaves ==
    ASSUME TypeOK, RefreshInv, NEW n \in Notifications, Attended(n), notif'[n] = notif[n],
           NEW d \in Dispatchers, NEW l, loop' = [loop EXCEPT ![d] = l],
           n \notin loop[d].todo, n \notin l.todo, l.write = {},
           \A t \in TasksOf(n) : \/ task'[t].status = task[t].status
                                 \/ task'[t].status \in Active,
           \A j : j.pc \in {"count", "write"} => (j \in jobs' <=> j \in jobs)
    PROVE  Attended(n)'
<1>1. loop'[d] = l /\ \A e \in Dispatchers \ {d} : loop'[e] = loop[e]
    BY DEF TypeOK
<1>2. \A w \in loop[d].write : w[1] # n
    BY DEF RefreshInv
<1>3. QED
    BY <1>1, <1>2, Untouched

(* The count of a loop: no other refresh of the notification has counted   *)
(* and not written yet.                                                    *)
LEMMA LoopCounts ==
    ASSUME TypeOK, NoFailures, PlaceInv, RefreshesApart',
           NEW d \in Dispatchers, LoopCount(d), NEW n \in Notifications, Attended(n)
    PROVE  Attended(n)'
<1>1. PICK m \in loop[d].todo :
        loop' = [loop EXCEPT ![d] = [@ EXCEPT !.write = {<<m, Aggregate(m)>>}]]
    BY AllCallsReturn DEF LoopCount
<1>2. /\ loop[d] \in Loop /\ loop[d].write = {} /\ UNCHANGED <<task, notif, jobs>>
    BY DEF LoopCount, TypeOK
<1>3. /\ loop'[d].todo = loop[d].todo /\ loop'[d].write = {<<m, Aggregate(m)>>}
      /\ \A e \in Dispatchers \ {d} : loop'[e] = loop[e]
    BY <1>1, <1>2 DEF TypeOK, Loop
<1>4. CASE n # m
    BY <1>2, <1>3, <1>4, Untouched
<1>5. CASE n = m
    <2>1. d \in LoopsWriting(n)'
        <3>1. PICK w \in loop'[d].write : w = <<m, Aggregate(m)>>
            BY <1>3
        <3>2. w[1] = n
            BY <1>5, <3>1
        <3>3. QED
            BY <3>2 DEF LoopsWriting
    <2>2. JobsWriting(n)' = {} /\ \A e \in LoopsWriting(n)' : e = d
        BY <2>1 DEF RefreshesApart
    <2>3. Aggregate(n)' = Aggregate(n)
        BY <1>2 DEF Aggregate, RowsOf
    <2>4. \A e \in Dispatchers : \A w \in loop'[e].write : w[1] = n => w[2] = Aggregate(n)'
        BY <1>3, <1>5, <2>2, <2>3 DEF LoopsWriting
    <2>5. QED
        BY <2>1, <2>2, <2>4 DEF Attended, Refreshed
<1>6. QED
    BY <1>4, <1>5

LEMMA LoopWrites ==
    ASSUME TypeOK, NoFailures, PlaceInv, RefreshInv,
           NEW d \in Dispatchers, LoopWrite(d), NEW n \in Notifications, Attended(n)
    PROVE  Attended(n)'
<1>1. PICK w \in loop[d].write :
        /\ notif' = [notif EXCEPT ![w[1]] = w[2]]
        /\ loop' = [loop EXCEPT ![d] = Refreshing(loop[d].todo \ {w[1]})]
    BY AllCallsReturn DEF LoopWrite
<1>2. UNCHANGED <<task, jobs>>
    BY DEF LoopWrite
<1>3. PICK l : l = Refreshing(loop[d].todo \ {w[1]})
    OBVIOUS
<1>4. /\ loop'[d] = l /\ l.todo = loop[d].todo \ {w[1]} /\ l.write = {}
      /\ \A e \in Dispatchers \ {d} : loop'[e] = loop[e]
    BY <1>1, <1>3, LoopShapes DEF TypeOK
<1>5. CASE n \notin loop[d].todo
    <2>1. w[1] # n
        BY <1>5 DEF RefreshInv
    <2>2. notif'[n] = notif[n]
        BY <1>1, <2>1 DEF TypeOK
    <2>3. QED
        BY <1>1, <1>2, <1>3, <1>4, <1>5, <2>2, LoopLeaves
<1>6. CASE n \in loop[d].todo /\ n # w[1]
    BY <1>4, <1>6 DEF Attended, ToCount, LoopsWriting
<1>7. CASE n = w[1]
    <2> SUFFICES ASSUME Over(n)' PROVE ToCount(n)' \/ Refreshed(n)'
        BY DEF Attended
    <2>1. Over(n) /\ Aggregate(n)' = Aggregate(n) /\ JobsWriting(n)' = JobsWriting(n)
        BY <1>2, OverBefore DEF JobsWriting
    <2>2. d \in LoopsWriting(n) /\ \A e \in Dispatchers \ {d} :
            e \in LoopsWriting(n)' <=> e \in LoopsWriting(n)
        BY <1>4, <1>7 DEF LoopsWriting
    <2>3. CASE ToCount(n)
        BY <1>2, <1>4, <2>2, <2>3 DEF ToCount
    <2>4. CASE Refreshed(n)
        <3>1. notif'[n] = Aggregate(n)
            BY <1>1, <1>7, <2>4 DEF Refreshed, TypeOK
        <3>2. QED
            BY <1>4, <2>1, <2>4, <3>1 DEF Refreshed
    <2>5. QED
        BY <2>1, <2>3, <2>4 DEF Attended
<1>8. QED
    BY <1>5, <1>6, <1>7

(* The same of a worker.                                                   *)
LEMMA JobCounts ==
    ASSUME TypeOK, CountInv, NoFailures, PlaceInv, RefreshesApart',
           NEW j \in jobs, JobCount(j), NEW n \in Notifications, Attended(n)
    PROVE  Attended(n)'
<1> DEFINE next == [j EXCEPT !.pc = "write", !.agg = Aggregate(NotificationOf[j.task])]
<1>1. j \in Job /\ j.pc = "count" /\ UNCHANGED <<task, notif, loop>>
    BY DEF JobCount, TypeOK
<1>2. jobs' = (jobs \ {j}) \cup {next}
    BY <1>1, AllCallsReturn DEF JobCount, Becomes, Job
<1>3. /\ next.pc = "write" /\ next.task = j.task
      /\ next.agg = Aggregate(NotificationOf[j.task])
    BY <1>1 DEF Job
<1> HIDE DEF next
<1>4. CASE n # NotificationOf[j.task]
    BY <1>1, <1>2, <1>3, <1>4, Untouched
<1>5. CASE n = NotificationOf[j.task]
    <2>1. next \in JobsWriting(n)'
        BY <1>2, <1>3, <1>5 DEF JobsWriting
    <2>2. LoopsWriting(n)' = {} /\ \A i \in JobsWriting(n)' : i = next
        BY <2>1 DEF RefreshesApart
    <2>3. Aggregate(n)' = Aggregate(n)
        BY <1>1 DEF Aggregate, RowsOf
    <2>4. \A d \in Dispatchers : \A w \in loop'[d].write : w[1] # n
        BY <2>2 DEF LoopsWriting
    <2>5. \A i \in JobsWriting(n)' : i.agg = Aggregate(n)'
        BY <1>3, <1>5, <2>2, <2>3
    <2>6. QED
        BY <2>1, <2>4, <2>5 DEF Attended, Refreshed
<1>6. QED
    BY <1>4, <1>5

LEMMA JobWrites ==
    ASSUME TypeOK, NoFailures, PlaceInv,
           NEW j \in jobs, JobWrite(j), NEW n \in Notifications, Attended(n)
    PROVE  Attended(n)'
<1>1. j \in Job /\ j.pc = "write" /\ UNCHANGED <<task, loop>> /\ jobs' = jobs \ {j}
    BY DEF JobWrite, TypeOK, Returns
<1>2. notif' = [notif EXCEPT ![NotificationOf[j.task]] = j.agg]
    BY <1>1, AllCallsReturn DEF JobWrite, Job
<1>3. CASE n # NotificationOf[j.task]
    BY <1>1, <1>2, <1>3, Untouched DEF TypeOK
<1>4. CASE n = NotificationOf[j.task]
    <2> SUFFICES ASSUME Over(n)' PROVE ToCount(n)' \/ Refreshed(n)'
        BY DEF Attended
    <2>1. Over(n) /\ Aggregate(n)' = Aggregate(n) /\ LoopsWriting(n)' = LoopsWriting(n)
        BY <1>1, OverBefore DEF LoopsWriting
    <2>2. j \in JobsWriting(n) /\ JobsWriting(n)' \subseteq JobsWriting(n)
        BY <1>1, <1>4 DEF JobsWriting
    <2>3. CASE ToCount(n)
        BY <1>1, <2>1, <2>3 DEF ToCount
    <2>4. CASE Refreshed(n)
        <3>1. notif'[n] = Aggregate(n)
            BY <1>2, <1>4, <2>2, <2>4 DEF Refreshed, TypeOK
        <3>2. QED
            BY <1>1, <2>1, <2>2, <2>4, <3>1 DEF Refreshed
    <2>5. QED
        BY <2>1, <2>3, <2>4 DEF Attended
<1>5. QED
    BY <1>3, <1>4

(* Who makes a task terminal refreshes its notification next.              *)
LEMMA WorkerSettles ==
    ASSUME TypeOK, NoFailures, PlaceInv,
           NEW j \in jobs, UpdateTask(j), NEW n \in Notifications, Attended(n)
    PROVE  Attended(n)'
<1> DEFINE next == [j EXCEPT !.pc = "count"]
<1>1. j \in Job /\ j.pc = "update" /\ UNCHANGED <<notif, loop>>
    BY DEF UpdateTask, TypeOK
<1>2. \/ UNCHANGED task /\ jobs' = jobs \ {j}
      \/ /\ task' = [task EXCEPT ![j.task] = Settled(j)]
         /\ jobs' = (jobs \ {j}) \cup {next}
    BY <1>1, AllCallsReturn DEF UpdateTask, Becomes, Returns, Job
<1>3. next.pc = "count" /\ next.task = j.task
    BY <1>1 DEF Job
<1> HIDE DEF next
<1>4. CASE UNCHANGED task /\ jobs' = jobs \ {j}
    BY <1>1, <1>4, Untouched
<1>5. CASE next \in jobs' /\ n = NotificationOf[j.task]
    BY <1>3, <1>5 DEF Attended, ToCount
<1>6. CASE /\ task' = [task EXCEPT ![j.task] = Settled(j)]
           /\ jobs' = (jobs \ {j}) \cup {next}
           /\ n # NotificationOf[j.task]
    <2>1. \A t \in TasksOf(n) : task'[t] = task[t]
        BY <1>6 DEF TypeOK, TasksOf
    <2>2. QED
        BY <1>1, <1>3, <1>6, <2>1, Untouched
<1>7. QED
    BY <1>2, <1>4, <1>5, <1>6

LEMMA LoopExpires ==
    ASSUME TypeOK, NoFailures, PlaceInv, RefreshInv,
           NEW d \in Dispatchers, ExpireEnd(d), NEW n \in Notifications, Attended(n)
    PROVE  Attended(n)'
<1> DEFINE N == {NotificationOf[t] : t \in DOMAIN tx[d]["expire"]}
<1>1. /\ Commit(d, "expire") /\ UNCHANGED <<notif, jobs>>
      /\ loop' = [loop EXCEPT ![d] = Refreshing(N)]
    BY AllCallsReturn DEF ExpireEnd
<1>2. loop[d].todo = {}
    BY DEF ExpireEnd, PlaceInv
<1>3. PICK l : l = Refreshing(N)
    OBVIOUS
<1>4. l.todo = N /\ l.write = {}
    BY <1>3, LoopShapes
<1>5. CASE n \in N
    <2>1. loop'[d] = l
        BY <1>1, <1>3 DEF TypeOK
    <2>2. QED
        BY <1>4, <1>5, <2>1 DEF Attended, ToCount, LoopsWriting
<1>6. CASE n \notin N
    <2>1. \A t \in TasksOf(n) : t \notin DOMAIN tx[d]["expire"]
        BY <1>6 DEF TasksOf
    <2>2. \A t \in TasksOf(n) : task'[t] = task[t]
        BY <1>1, <2>1 DEF Commit, TasksOf
    <2>3. QED
        BY <1>1, <1>2, <1>3, <1>4, <1>6, <2>2, LoopLeaves
<1>7. QED
    BY <1>5, <1>6

LEMMA LoopSelectsOrClaims ==
    ASSUME TypeOK, LeaseInv, NoFailures, PlaceInv, RefreshInv, NEW d \in Dispatchers,
           \/ ExpireSelect(d)
           \/ \E k \in FetchKinds : AcquireSelect(d, k) \/ AcquireEnd(d, k),
           NEW n \in Notifications, Attended(n)
    PROVE  Attended(n)'
<1>1. UNCHANGED notif /\ loop[d].todo = {}
    BY DEF ExpireSelect, AcquireSelect, AcquireEnd, PlaceInv
<1>2. \A j : j.pc \in {"count", "write"} => (j \in jobs' <=> j \in jobs)
    <2>1. \A k : \A j \in NewJobs(d, k) : j.pc = "start"
        BY DEF NewJobs
    <2>2. UNCHANGED jobs \/ \E k \in FetchKinds : jobs' = jobs \cup NewJobs(d, k)
        BY DEF ExpireSelect, AcquireSelect, AcquireEnd
    <2>3. QED
        BY <2>1, <2>2
<1>3. \A t \in Tasks : task'[t].status = task[t].status \/ task'[t].status \in Active
    <2>1. CASE UNCHANGED task
        BY <2>1
    <2>2. ASSUME NEW k \in FetchKinds, Commit(d, k)
          PROVE  \A t \in Tasks : task'[t].status = task[t].status \/ task'[t].status \in Active
        BY <2>2 DEF Commit, LeaseInv, WritesFollow, ClaimWrites, Kinds, FetchKinds, Active
    <2>3. QED
        BY <2>1, <2>2 DEF ExpireSelect, AcquireSelect, AcquireEnd
<1>4. UNCHANGED loop \/ \E S : loop' = [loop EXCEPT ![d] = Acquiring(S)]
    BY DEF ExpireSelect, AcquireSelect, AcquireEnd
<1>5. CASE UNCHANGED loop
    BY <1>1, <1>2, <1>3, <1>5, Untouched DEF TasksOf
<1>6. ASSUME NEW S, loop' = [loop EXCEPT ![d] = Acquiring(S)] PROVE Attended(n)'
    <2>1. PICK l : l = Acquiring(S)
        OBVIOUS
    <2>2. l.todo = {} /\ l.write = {}
        BY <2>1, LoopShapes
    <2>3. QED
        BY <1>1, <1>2, <1>3, <1>6, <2>1, <2>2, LoopLeaves DEF TasksOf
<1>7. QED
    BY <1>4, <1>5, <1>6

LEMMA AttendedStep ==
    ASSUME NoFailures, TypeOK, LeaseInv, CountInv, RefreshInv, PlaceInv, RefreshesApart',
           [Next]_vars, NEW n \in Notifications, Attended(n)
    PROVE  Attended(n)'
<1>1. ASSUME NEW m \in Notifications, NEW S \in (SUBSET TasksOf(m)) \ {{}}, Enqueue(m, S)
      PROVE  Attended(n)'
    <2>1. \A t \in S : task'[t].status = "pending"
        BY <1>1 DEF Enqueue, NewRow, AbsentRow, TasksOf
    <2>2. \A t \in Tasks \ S : task'[t] = task[t]
        BY <1>1 DEF Enqueue
    <2>3. \A t \in TasksOf(n) : task'[t].status = task[t].status \/ task'[t].status \in Active
        BY <2>1, <2>2 DEF TasksOf, Active
    <2>4. QED
        BY <1>1, <2>3, Untouched DEF Enqueue
<1>2. ASSUME NEW d \in Dispatchers, Start(d) PROVE Attended(n)'
    <2>1. PICK l : l = At("poll")
        OBVIOUS
    <2>2. loop[d].todo = {} /\ l.todo = {} /\ l.write = {} /\ loop' = [loop EXCEPT ![d] = l]
        BY <1>2, <2>1, LoopShapes DEF Start, PlaceInv
    <2>3. QED
        BY <1>2, <2>2, LoopLeaves DEF Start
<1>3. ASSUME NEW d \in Dispatchers, Terminate(d) \/ LoopExit(d) \/ StopReturns(d) \/ Crash(d)
      PROVE  FALSE
    BY <1>3 DEF NoFailures, PlaceInv, Terminate, LoopExit, StopReturns, Crash
<1>4. ASSUME NEW d \in Dispatchers, LoopStep(d) PROVE Attended(n)'
    BY <1>4, LoopCounts, LoopWrites, LoopExpires, LoopSelectsOrClaims DEF LoopStep
<1>5. ASSUME NEW j \in jobs, PrepareOk(j) \/ PrepareFails(j) \/ SendReturns(j) \/ RecordAttempt(j)
      PROVE  Attended(n)'
    <2>0. j \in Job
        BY DEF TypeOK
    <2>1. PICK i : /\ jobs' = (jobs \ {j}) \cup {i}
                   /\ i.pc \in {"send", "update", "record"}
        <3>1. PICK pc \in {"send", "update", "record"}, ok \in BOOLEAN :
                Becomes(j, [j EXCEPT !.pc = pc]) \/ Becomes(j, [j EXCEPT !.pc = pc, !.ok = ok])
            BY <1>5 DEF PrepareOk, PrepareFails, SendReturns, RecordAttempt
        <3>2. [j EXCEPT !.pc = pc].pc = pc /\ [j EXCEPT !.pc = pc, !.ok = ok].pc = pc
            BY <2>0 DEF Job
        <3>3. QED
            BY <3>1, <3>2 DEF Becomes
    <2>2. j.pc \notin {"count", "write"} /\ UNCHANGED <<task, notif, loop>>
        BY <1>5 DEF PrepareOk, PrepareFails, SendReturns, RecordAttempt
    <2>3. QED
        BY <2>1, <2>2, Untouched
<1>6. ASSUME NEW j \in jobs, JobStep(j) PROVE Attended(n)'
    BY <1>5, <1>6, JobCounts, JobWrites, WorkerSettles DEF JobStep
<1>7. ASSUME Tick PROVE Attended(n)'
    <2>1. \A t \in TasksOf(n) : task'[t].status = task[t].status
        BY <1>7, ElapsedRow DEF Tick, TypeOK, TasksOf
    <2>2. QED
        BY <1>7, <2>1, Untouched DEF Tick
<1>8. CASE UNCHANGED vars
    BY <1>8, Untouched DEF vars
<1>9. QED
    BY <1>1, <1>2, <1>3, <1>4, <1>6, <1>7, <1>8 DEF Next

LEMMA ApartAlways ==
    ASSUME NoFailures
    PROVE  Spec /\ []RefreshesApart => [](RefreshInv /\ ApartInv)
<1> DEFINE Known == TypeOK /\ LeaseInv /\ CountInv /\ VerdictInv /\ RefreshInv
<1>1. Init => ApartInv
    <2>1. Init => \A n \in Notifications : RowsOf(n) = {}
        BY DEF Init, RowsOf, TasksOf, AbsentRow
    <2>2. QED
        BY <2>1, PlaceInit DEF ApartInv, Attended, Over
<1>2. Known /\ ApartInv /\ [Next]_vars /\ RefreshesApart' => ApartInv'
    BY PlaceStep, AttendedStep DEF ApartInv
<1>3. Spec => []Known
    BY RefreshAlways
<1> HIDE DEF Known
<1>4. Known => RefreshInv
    BY DEF Known
<1>5. QED
    BY <1>1, <1>2, <1>3, <1>4, PTL DEF Spec

(* The documented meaning of a notification's status, which overlapping    *)
(* refreshes violate, holds where no two overlap and no call fails: the    *)
(* overlap is the only cause (notification.go:87-136,                      *)
(* docs/notification-center-workflow.md:404).                              *)
THEOREM StatusFollowsTasks ==
    ASSUME NoFailures
    PROVE  Spec /\ []RefreshesApart => []NotificationSettles
<1>1. RefreshInv /\ ApartInv => NotificationSettles
    <2> SUFFICES ASSUME RefreshInv, ApartInv, NEW n \in Notifications,
                        RowsOf(n) # {}, \A t \in RowsOf(n) : task[t].status \in Terminal,
                        \A j \in jobs : NotificationOf[j.task] # n,
                        \A d \in Dispatchers : n \notin loop[d].todo
                 PROVE  notif[n] = Aggregate(n)
        BY DEF NotificationSettles
    <2>1. Over(n) /\ ~ToCount(n)
        BY DEF Over, ToCount
    <2>2. JobsWriting(n) = {} /\ LoopsWriting(n) = {}
        BY DEF JobsWriting, LoopsWriting, RefreshInv
    <2>3. QED
        BY <2>1, <2>2 DEF ApartInv, Attended, Refreshed
<1>2. QED
    BY <1>1, ApartAlways, PTL
=============================================================================
