----------------------------- MODULE Dispatcher -----------------------------
(***************************************************************************)
(* The delivery queue: any number of sealos-notify processes, each with    *)
(* one dispatcher (pkg/dispatcher), share the tables delivery_tasks,       *)
(* notifications and delivery_attempts of one PostgreSQL database.         *)
(*                                                                         *)
(* A dispatcher is its dispatch loop (expire, refresh, then two acquiring  *)
(* goroutines in parallel) and one goroutine per task it claimed, a "job". *)
(* A step is one SQL statement, one transaction's SELECT, one transaction's*)
(* end, one adapter call, or one event of the process's life.  A statement *)
(* may fail with or without its effect, the process may be told to stop or *)
(* crash between any two steps, and a job may outlive its lease.           *)
(***************************************************************************)
EXTENDS DeliveryTaskStore, FiniteSets

CONSTANTS Tasks, Notifications,
          NotificationOf,       \* delivery_tasks.notification_id
          MaxRetry,             \* delivery_tasks.max_retry of each task
          BatchSize,            \* config dispatcher.batchSize
          Webhooks,             \* the tasks that a feishu_webhook adapter may send
          Replicas,             \* how many processes are up at a time at most
          Faults                \* what may happen: see below

ASSUME DispatcherAssumption ==
    /\ NotificationOf \in [Tasks -> Notifications]
    /\ MaxRetry \in [Tasks -> Nat \ {0}]    \* a 0 is stored as the column default 3
    /\ BatchSize \in Nat \ {0}
    /\ Webhooks \subseteq Tasks
    /\ Replicas \in Nat
    /\ Faults \subseteq {"delay", "db", "sigterm", "crash"}

(* "delay": a lease may run out under a live worker, a retry may be late.  *)
(* "db": a database call may fail.  "sigterm": a process may be told to    *)
(* stop.  "crash": it may die.                                             *)

VARIABLES
    task,       \* the rows of delivery_tasks
    notif,      \* notifications.status
    phase,      \* the life of each process
    loop,       \* where the dispatch loop of each process is
    tx,         \* uncommitted writes of each open transaction; their domain is locked
    jobs,       \* the task goroutines of all processes
    attempts,   \* the rows of delivery_attempts
    claims,     \* history: how often each task was claimed
    delivered   \* history: whether the provider has delivered each task's message;
                \* "blank" if all that was heard of it is a 2xx answer without a body

vars == <<task, notif, phase, loop, tx, jobs, attempts, claims, delivered>>

-----------------------------------------------------------------------------
NotificationStatus == {"pending", "processing", "success", "failed"}

(* The tasks that a notification may get, and the rows it has.             *)
TasksOf(n) == {t \in Tasks : NotificationOf[t] = n}
RowsOf(n)  == {t \in TasksOf(n) : task[t].status # "absent"}

Phases == {"new", "running", "stopping", "stopped", "crashed"}

Loop == [pc    : {"off", "poll", "refresh", "acquire"},
         todo  : SUBSET Notifications,                        \* still to refresh
         write : SUBSET (Notifications \X NotificationStatus),\* counted, not written
         fetch : SUBSET FetchKinds]                           \* still to acquire

At(pc)           == [pc |-> pc, todo |-> {}, write |-> {}, fetch |-> {}]
Acquiring(fetch) == IF fetch = {} THEN At("poll") ELSE [At("acquire") EXCEPT !.fetch = fetch]
Refreshing(todo) == IF todo = {} THEN Acquiring(FetchKinds)
                    ELSE [At("refresh") EXCEPT !.todo = todo]

(* A goroutine of processTask: id tells apart the claims of a task, rc is  *)
(* the retry_count it read, ok the answer of the adapter, agg the status   *)
(* it counted for the notification.                                        *)
Job == [task : Tasks, id : Nat, owner : Dispatchers, rc : Nat,
        pc   : {"start", "send", "record", "update", "count", "write"},
        ok   : BOOLEAN, agg : NotificationStatus]

Attempt == [task : Tasks, id : Nat, no : Nat, ok : BOOLEAN]

NoWrites == [t \in {} |-> AbsentRow]

-----------------------------------------------------------------------------
(* The ends a database call of process d may come to: done; failed; done,  *)
(* but d sees an error because the answer is lost or its context is        *)
(* cancelled (every call of the loop and of the jobs carries the context   *)
(* that SIGTERM cancels).                                                  *)
Outcomes(d) ==
    (IF phase[d] = "running" THEN {"ok"} ELSE {}) \cup
    (IF phase[d] = "stopping" \/ "db" \in Faults THEN {"failed", "unacknowledged"} ELSE {})

Alive(d) == phase[d] \in {"running", "stopping"}

(* Mistake: SELECT without FOR UPDATE. *)
Locked_Never(t) == FALSE

Open(d, k) == DOMAIN tx[d][k] # {}
Locked(t)  == \E d \in Dispatchers, k \in Kinds : t \in DOMAIN tx[d][k]

Selectable(k) == {t \in Tasks : Selects(k, task[t]) /\ ~Locked(t)}

(* What ORDER BY ... LIMIT BatchSize FOR UPDATE SKIP LOCKED can return,    *)
(* whichever the order of the rows is.                                     *)
Batches(k) ==
    {S \in SUBSET Selectable(k) :
        /\ Cardinality(S) <= BatchSize
        /\ S = Selectable(k) \/ Cardinality(S) = BatchSize}

OpenTx(d, k, S) ==
    tx' = [tx EXCEPT ![d][k] = [t \in S |-> Written(k, task[t], d, MaxRetry[t])]]

CloseTx(d, k) == tx' = [tx EXCEPT ![d][k] = NoWrites]

Commit(d, k) ==
    task' = [t \in Tasks |-> IF t \in DOMAIN tx[d][k] THEN tx[d][k][t] ELSE task[t]]

(* Mistake: a notification with a dead task is called dead itself, which   *)
(* is no status of a notification.                                         *)
Aggregate_Dead(n) ==
    LET statuses == {task[t].status : t \in RowsOf(n)}
    IN  IF statuses = {} THEN "pending"
        ELSE IF statuses \cap Active # {} THEN "processing"
        ELSE IF "dead" \in statuses THEN "dead"
        ELSE "success"

(* Mistake: a failed task counts as over. *)
Aggregate_FailedIsOver(n) ==
    LET statuses == {task[t].status : t \in RowsOf(n)}
    IN  IF statuses = {} THEN "pending"
        ELSE IF statuses \cap {"pending", "processing"} # {} THEN "processing"
        ELSE IF statuses \cap {"failed", "dead"} # {} THEN "failed"
        ELSE "success"

(* The SELECT ... GROUP BY of RefreshStatusFromDeliveryTasks.              *)
Aggregate(n) ==
    LET statuses == {task[t].status : t \in RowsOf(n)}
    IN  IF statuses = {} THEN "pending"
        ELSE IF statuses \cap Active # {} THEN "processing"
        ELSE IF "dead" \in statuses THEN "failed"
        ELSE "success"

Init ==
    /\ task = [t \in Tasks |-> AbsentRow]
    /\ notif = [n \in Notifications |-> "pending"]
    /\ phase = [d \in Dispatchers |-> "new"]
    /\ loop = [d \in Dispatchers |-> At("off")]
    /\ tx = [d \in Dispatchers |-> [k \in Kinds |-> NoWrites]]
    /\ jobs = {}
    /\ attempts = {}
    /\ claims = [t \in Tasks |-> 0]
    /\ delivered = [t \in Tasks |-> "no"]

-----------------------------------------------------------------------------
(* The engine inserts the tasks of a notification with one INSERT.         *)
Enqueue(n, S) ==
    /\ RowsOf(n) = {}
    /\ task' = [t \in Tasks |-> IF t \in S THEN NewRow ELSE task[t]]
    /\ UNCHANGED <<notif, phase, loop, tx, jobs, attempts, claims, delivered>>

(* The life of a process: main and Server.Init start its dispatcher.       *)
Start(d) ==
    /\ phase[d] = "new"
    /\ Cardinality({e \in Dispatchers : Alive(e)}) < Replicas
    /\ phase' = [phase EXCEPT ![d] = "running"]
    /\ loop' = [loop EXCEPT ![d] = At("poll")]
    /\ UNCHANGED <<task, notif, tx, jobs, attempts, claims, delivered>>

(* SIGINT or SIGTERM cancels the context given to Dispatcher.Start.        *)
Terminate(d) ==
    /\ "sigterm" \in Faults
    /\ phase[d] = "running"
    /\ phase' = [phase EXCEPT ![d] = "stopping"]
    /\ UNCHANGED <<task, notif, loop, tx, jobs, attempts, claims, delivered>>

(* Mistake: the loop leaves only when the queue is empty. *)
LoopExit_WhenDrained(d) ==
    /\ phase[d] = "stopping"
    /\ loop[d].pc = "poll"
    /\ \A t \in Tasks : task[t].status \notin Active
    /\ loop' = [loop EXCEPT ![d] = At("off")]
    /\ UNCHANGED <<task, notif, phase, tx, jobs, attempts, claims, delivered>>

(* The loop sees ctx.Done.                                                 *)
LoopExit(d) ==
    /\ phase[d] = "stopping"
    /\ loop[d].pc = "poll"
    /\ ~Open(d, "expire")
    /\ loop' = [loop EXCEPT ![d] = At("off")]
    /\ UNCHANGED <<task, notif, phase, tx, jobs, attempts, claims, delivered>>

(* Stop: wg.Wait returns when the loop and every job have returned.        *)
StopReturns(d) ==
    /\ phase[d] = "stopping"
    /\ loop[d].pc = "off"
    /\ \A j \in jobs : j.owner # d
    /\ phase' = [phase EXCEPT ![d] = "stopped"]
    /\ UNCHANGED <<task, notif, loop, tx, jobs, attempts, claims, delivered>>

(* The process dies: the database rolls its transactions back.             *)
Crash(d) ==
    /\ "crash" \in Faults
    /\ Alive(d)
    /\ phase' = [phase EXCEPT ![d] = "crashed"]
    /\ loop' = [loop EXCEPT ![d] = At("off")]
    /\ tx' = [tx EXCEPT ![d] = [k \in Kinds |-> NoWrites]]
    /\ jobs' = {j \in jobs : j.owner # d}
    /\ UNCHANGED <<task, notif, attempts, claims, delivered>>

-----------------------------------------------------------------------------
(* dispatchBatch begins with expireProcessingTasks: the transaction's      *)
(* SELECT.  No row, or an error, ends the call.                            *)
ExpireSelect(d) ==
    /\ loop[d].pc = "poll" /\ ~Open(d, "expire")
    /\ \E o \in Outcomes(d), S \in Batches("expire") :
        IF o = "ok" /\ S # {}
        THEN OpenTx(d, "expire", S) /\ UNCHANGED loop
        ELSE loop' = [loop EXCEPT ![d] = Acquiring(FetchKinds)] /\ UNCHANGED tx
    /\ UNCHANGED <<task, notif, phase, jobs, attempts, claims, delivered>>

(* Its UPDATEs and its end.  After an error the loop goes on without       *)
(* refreshing the notifications, whether or not the rows were changed.     *)
ExpireEnd(d) ==
    /\ Open(d, "expire")
    /\ \E o \in Outcomes(d) :
        /\ IF o = "failed" THEN UNCHANGED task ELSE Commit(d, "expire")
        /\ loop' = [loop EXCEPT ![d] =
                      IF o = "ok"
                      THEN Refreshing({NotificationOf[t] : t \in DOMAIN tx[d]["expire"]})
                      ELSE Acquiring(FetchKinds)]
    /\ CloseTx(d, "expire")
    /\ UNCHANGED <<notif, phase, jobs, attempts, claims, delivered>>

(* refreshNotificationStatus of the loop: the count ...                    *)
LoopCount(d) ==
    /\ loop[d].pc = "refresh" /\ loop[d].write = {}
    /\ \E o \in Outcomes(d), n \in loop[d].todo :
        loop' = [loop EXCEPT ![d] =
                   IF o = "ok" THEN [@ EXCEPT !.write = {<<n, Aggregate(n)>>}]
                               ELSE Refreshing(@.todo \ {n})]
    /\ UNCHANGED <<task, notif, phase, tx, jobs, attempts, claims, delivered>>

(* ... and, in another statement, the write of what was counted.           *)
LoopWrite(d) ==
    /\ loop[d].pc = "refresh"
    /\ \E o \in Outcomes(d), w \in loop[d].write :
        /\ notif' = IF o = "failed" THEN notif ELSE [notif EXCEPT ![w[1]] = w[2]]
        /\ loop' = [loop EXCEPT ![d] = Refreshing(@.todo \ {w[1]})]
    /\ UNCHANGED <<task, phase, tx, jobs, attempts, claims, delivered>>

(* AcquirePendingTasks and AcquireRetryTasks run in parallel goroutines.   *)
AcquireSelect(d, k) ==
    /\ k \in loop[d].fetch /\ ~Open(d, k)
    /\ \E o \in Outcomes(d), S \in Batches(k) :
        IF o = "ok" /\ S # {}
        THEN OpenTx(d, k, S) /\ UNCHANGED loop
        ELSE loop' = [loop EXCEPT ![d] = Acquiring(@.fetch \ {k})] /\ UNCHANGED tx
    /\ UNCHANGED <<task, notif, phase, jobs, attempts, claims, delivered>>

(* The rows a transaction claimed become jobs, except when the process     *)
(* never learns that the commit went through.                              *)
NewJobs(d, k) ==
    {[task |-> t, id |-> claims[t] + 1, owner |-> d, rc |-> tx[d][k][t].retryCount,
      pc |-> "start", ok |-> FALSE, agg |-> "pending"] : t \in DOMAIN tx[d][k]}

AcquireEnd(d, k) ==
    /\ k \in loop[d].fetch /\ Open(d, k)
    /\ \E o \in Outcomes(d) :
        /\ IF o = "failed"
           THEN UNCHANGED <<task, claims>>
           ELSE /\ Commit(d, k)
                /\ claims' = [t \in Tasks |-> IF t \in DOMAIN tx[d][k]
                                              THEN claims[t] + 1 ELSE claims[t]]
        /\ jobs' = IF o = "ok" THEN jobs \cup NewJobs(d, k) ELSE jobs
    /\ CloseTx(d, k)
    /\ loop' = [loop EXCEPT ![d] = Acquiring(@.fetch \ {k})]
    /\ UNCHANGED <<notif, phase, attempts, delivered>>

LoopStep(d) ==
    \/ ExpireSelect(d)
    \/ ExpireEnd(d)
    \/ LoopCount(d)
    \/ LoopWrite(d)
    \/ \E k \in FetchKinds : AcquireSelect(d, k) \/ AcquireEnd(d, k)

-----------------------------------------------------------------------------
(* processTask. *)
Becomes(j, next) == jobs' = (jobs \ {j}) \cup {next}
Returns(j)       == jobs' = jobs \ {j}

(* Adapter, recipient, template and address are found and the template     *)
(* renders.  The lookups are queries: they fail once the context is        *)
(* cancelled.                                                              *)
PrepareOk(j) ==
    /\ j.pc = "start" /\ phase[j.owner] = "running"
    /\ Becomes(j, [j EXCEPT !.pc = "send"])
    /\ UNCHANGED <<task, notif, phase, loop, tx, attempts, claims, delivered>>

(* One of them is missing: handleTaskFailure, without a delivery attempt.  *)
PrepareFails(j) ==
    /\ j.pc = "start"
    /\ Becomes(j, [j EXCEPT !.pc = "update"])
    /\ UNCHANGED <<task, notif, phase, loop, tx, attempts, claims, delivered>>

(* What a Send that delivers, or answers success without, adds to what is  *)
(* known of the message.                                                   *)
Heard(known, effect, ok) ==
    IF effect THEN "yes" ELSE IF ok /\ known = "no" THEN "blank" ELSE known

(* adapter.Send (Adapters has the exchange itself): the provider may       *)
(* deliver although the caller sees an error.  A success is a delivery,    *)
(* but for the webhook adapter: it takes a 2xx answer of whose body        *)
(* nothing arrived, which may have been a refusal, for a success, too.     *)
SendReturns(j) ==
    /\ j.pc = "send"
    /\ \E effect, ok \in BOOLEAN :
        /\ ok => effect \/ j.task \in Webhooks
        /\ delivered' = [delivered EXCEPT ![j.task] = Heard(@, effect, ok)]
        /\ Becomes(j, [j EXCEPT !.pc = "record", !.ok = ok])
    /\ UNCHANGED <<task, notif, phase, loop, tx, attempts, claims>>

(* deliveryAttemptStore.Create; an error is only logged.                   *)
RecordAttempt(j) ==
    /\ j.pc = "record"
    /\ \E o \in Outcomes(j.owner) :
        attempts' = IF o = "failed" THEN attempts
                    ELSE attempts \cup {[task |-> j.task, id |-> j.id,
                                         no |-> j.rc + 1, ok |-> j.ok]}
    /\ Becomes(j, [j EXCEPT !.pc = "update"])
    /\ UNCHANGED <<task, notif, phase, loop, tx, claims, delivered>>

(* Mistake: response.Success is not looked at. *)
Settled_IgnoresAnswer(j) == Succeeded(task[j.task])

Settled(j) == IF j.ok THEN Succeeded(task[j.task])
              ELSE Failed(task[j.task], j.rc, MaxRetry[j.task])

(* UpdateSuccess or UpdateFailure.  The statement waits for a transaction  *)
(* that locked the row, then looks at lease_owner.                         *)
UpdateTask(j) ==
    /\ j.pc = "update"
    /\ \E o \in Outcomes(j.owner) :
        /\ o # "failed" => ~Locked(j.task)
        /\ task' = IF o # "failed" /\ LeaseHeld(task[j.task], j.owner)
                   THEN [task EXCEPT ![j.task] = Settled(j)] ELSE task
        /\ IF o = "ok" /\ LeaseHeld(task[j.task], j.owner)
           THEN Becomes(j, [j EXCEPT !.pc = "count"])
           ELSE Returns(j)
    /\ UNCHANGED <<notif, phase, loop, tx, attempts, claims, delivered>>

(* refreshNotificationStatus, in two statements as above.                  *)
JobCount(j) ==
    /\ j.pc = "count"
    /\ \E o \in Outcomes(j.owner) :
        IF o = "ok"
        THEN Becomes(j, [j EXCEPT !.pc = "write", !.agg = Aggregate(NotificationOf[j.task])])
        ELSE Returns(j)
    /\ UNCHANGED <<task, notif, phase, loop, tx, attempts, claims, delivered>>

JobWrite(j) ==
    /\ j.pc = "write"
    /\ \E o \in Outcomes(j.owner) :
        notif' = IF o = "failed" THEN notif ELSE [notif EXCEPT ![NotificationOf[j.task]] = j.agg]
    /\ Returns(j)
    /\ UNCHANGED <<task, phase, loop, tx, attempts, claims, delivered>>

JobStep(j) ==
    \/ PrepareOk(j) \/ PrepareFails(j) \/ SendReturns(j)
    \/ RecordAttempt(j) \/ UpdateTask(j) \/ JobCount(j) \/ JobWrite(j)

-----------------------------------------------------------------------------
(* Time passes for the rows, committed or not.                             *)
Tick ==
    /\ "delay" \in Faults
    /\ \/ \E t \in Tasks : Ticking(task[t])
       \/ \E d \in Dispatchers, k \in Kinds : \E t \in DOMAIN tx[d][k] : Ticking(tx[d][k][t])
    /\ task' = [t \in Tasks |-> Elapsed(task[t])]
    /\ tx' = [d \in Dispatchers |-> [k \in Kinds |->
                [t \in DOMAIN tx[d][k] |-> Elapsed(tx[d][k][t])]]]
    /\ UNCHANGED <<notif, phase, loop, jobs, attempts, claims, delivered>>

Next ==
    \/ \E n \in Notifications : \E S \in (SUBSET TasksOf(n)) \ {{}} : Enqueue(n, S)
    \/ \E d \in Dispatchers :
        \/ Start(d) \/ Terminate(d) \/ LoopExit(d) \/ StopReturns(d) \/ Crash(d)
        \/ LoopStep(d)
    \/ \E j \in jobs : JobStep(j)
    \/ Tick

Spec == Init /\ [][Next]_vars

(* The Go scheduler runs every goroutine, the ticker of the loop keeps     *)
(* firing, adapter and database calls return, and time passes.  When both  *)
(* the ticker and ctx.Done are ready, select picks one at random: the loop *)
(* cannot miss ctx.Done for ever (strong fairness of LoopExit).            *)
Fairness ==
    /\ WF_vars(Tick)
    /\ \A d \in Dispatchers :
        /\ WF_vars(ExpireSelect(d) \/ ExpireEnd(d) \/ LoopCount(d) \/ LoopWrite(d))
        /\ \A k \in FetchKinds : WF_vars(AcquireSelect(d, k) \/ AcquireEnd(d, k))
        /\ WF_vars(\E j \in jobs : j.owner = d /\ JobStep(j))
        /\ SF_vars(LoopExit(d))
        /\ WF_vars(StopReturns(d))

FairSpec == Spec /\ Fairness

-----------------------------------------------------------------------------
TypeOK ==
    /\ task \in [Tasks -> Row]
    /\ notif \in [Notifications -> NotificationStatus]
    /\ phase \in [Dispatchers -> Phases]
    /\ loop \in [Dispatchers -> Loop]
    /\ DOMAIN tx = Dispatchers
    /\ \A d \in Dispatchers :
        /\ DOMAIN tx[d] = Kinds
        /\ \A k \in Kinds : /\ DOMAIN tx[d][k] \subseteq Tasks
                            /\ tx[d][k] \in [DOMAIN tx[d][k] -> Row]
    /\ jobs \subseteq Job
    /\ attempts \subseteq Attempt
    /\ claims \in [Tasks -> Nat]
    /\ delivered \in [Tasks -> {"no", "blank", "yes"}]

(* A row is leased exactly while it is processing, and every row that is   *)
(* not over can be selected again: the lease of a processing row can       *)
(* expire and a failed row has a retry time.  Otherwise no query of any    *)
(* dispatcher would ever see the task again (delivery.go:49-190).          *)
NoStrandedRow ==
    \A t \in Tasks :
        LET row == task[t] IN
        /\ row.status = "processing" <=> row.leaseOwner # NoOwner
        /\ row.status = "processing" <=> row.leaseExpireAt # Null
        /\ row.status = "failed" => row.nextRetryAt # Null

(* However many dispatchers, expired leases and late workers there are,    *)
(* retry_count plus the claim in progress counts the claims exactly: no    *)
(* claim is taken twice, skipped or counted twice.                         *)
ClaimAccounting ==
    \A t \in Tasks :
        claims[t] = task[t].retryCount
                    + (IF task[t].status \in {"processing", "success"} THEN 1 ELSE 0)

(* attempt_no, computed from the retry_count a worker once read, is unique *)
(* among the attempts of a task although several workers of the same task  *)
(* may be in flight (dispatcher.go:263-280).                               *)
AttemptNumbersUnique ==
    \A a, b \in attempts : a.task = b.task /\ a.no = b.no => a = b

(* A task is given up only after max_retry + 1 claims, although a late     *)
(* worker and the expiry both count failures (dispatcher.go:311-315,       *)
(* delivery.go:161-168).                                                   *)
DeadOnlyAfterBudget ==
    \A t \in Tasks : task[t].status = "dead" => claims[t] > MaxRetry[t]

(* A late worker can reopen a task whose budget is used up, but each       *)
(* worker that read a count within the budget can do so once only.         *)
RetriesBounded ==
    \A t \in Tasks : task[t].retryCount <= 2 * MaxRetry[t] + 1

(* The provider has the message, or a bot answered 2xx without a body.     *)
Vouched(t) == delivered[t] = "yes" \/ (t \in Webhooks /\ delivered[t] = "blank")

(* A task is marked success only if the provider delivered its message,    *)
(* also when the success is written by a worker that lost its claim, or    *)
(* if it goes to a bot, whose 2xx answer without a body, whatever became   *)
(* of the message, is taken for a success (dispatcher.go:283-292,          *)
(* feishu_webhook/adapter.go:101-123).                                     *)
SuccessWasDelivered ==
    \A t \in Tasks : task[t].status = "success" => Vouched(t)

(* A notification is announced as a success only when all its tasks are,   *)
(* and as failed only when all are over and one is dead, although the      *)
(* count and the write of a refresh are two statements and refreshes of    *)
(* several workers overlap (notification.go:87-136).                       *)
VerdictSound ==
    \A n \in Notifications :
        /\ notif[n] = "success" => /\ RowsOf(n) # {}
                                  /\ \A t \in RowsOf(n) : task[t].status = "success"
        /\ notif[n] = "failed" => /\ \A t \in RowsOf(n) : task[t].status \in Terminal
                                 /\ \E t \in RowsOf(n) : task[t].status = "dead"

(* Once a notification was announced to have succeeded it is never         *)
(* announced to have failed, nor the other way round, even if a stale      *)
(* refresh takes the first verdict back (notification.go:87-136,           *)
(* dispatcher.go:332).                                                     *)
VerdictStands ==
    \A n \in Notifications :
        /\ [](notif[n] = "success" => [](notif[n] # "failed"))
        /\ [](notif[n] = "failed" => [](notif[n] # "success"))

(* No step changes a task that is over: a late worker, an expiry or a      *)
(* claim selected earlier never revives it.                                *)
TerminalIsFinal ==
    [][\A t \in Tasks :
        task[t].status \in Terminal => /\ task'[t].status = task[t].status
                                       /\ task'[t].retryCount = task[t].retryCount]_task

(* A lease passes from one dispatcher to another only by being released.   *)
LeaseHandover ==
    [][\A t \in Tasks :
        \/ task[t].leaseOwner = NoOwner
        \/ task'[t].leaseOwner \in {task[t].leaseOwner, NoOwner}]_task

(* As long as one dispatcher stays up every accepted task is delivered or  *)
(* buried, whatever happens to the other dispatchers and their leases.     *)
EveryTaskSettles ==
    (\E d \in Dispatchers : <>[](phase[d] = "running"))
        => \A t \in Tasks : task[t].status = "pending" ~> task[t].status \in Terminal

(* No dispatcher that is told to stop is stopping for ever: Stop comes to  *)
(* the end of its wait for the jobs (dispatcher.go:84-92).                 *)
StopTerminates ==
    \A d \in Dispatchers : <>[](phase[d] # "stopping")

-----------------------------------------------------------------------------
(* The dispatcher implements the queue: a failed task waits again.         *)
QueueName == [absent |-> "none", pending |-> "waiting", failed |-> "waiting",
              processing |-> "working", success |-> "delivered", dead |-> "dead"]

QueueState == [t \in Tasks |-> QueueName[task[t].status]]

Queue == INSTANCE RetryQueue WITH state   <- QueueState,
                                  tries   <- [t \in Tasks |-> task[t].retryCount],
                                  verdict <- notif

(* Every step of the dispatchers is a step of the queue or invisible to it.*)
ImplementsQueue == Queue!Spec

-----------------------------------------------------------------------------
(* What the documentation says, and the code does not do.                  *)

(* README.md:28 "Tasks that exceed `maxRetry` are marked `dead`."          *)
RetryBudget ==
    \A t \in Tasks : task[t].status = "failed" => task[t].retryCount <= MaxRetry[t]

(* docs/notification-center-workflow.md:404: the status of a notification  *)
(* is the aggregate of its tasks (once no refresh is under way).           *)
NotificationSettles ==
    \A n \in Notifications :
        (/\ RowsOf(n) # {}
         /\ \A t \in RowsOf(n) : task[t].status \in Terminal
         /\ \A j \in jobs : NotificationOf[j.task] # n
         /\ \A d \in Dispatchers : n \notin loop[d].todo)
        => notif[n] = Aggregate(n)

(* README.md:15 "the service waits for in-flight delivery tasks before     *)
(* exiting", dispatcher.go:84 "waits for all in-flight tasks to complete". *)
StopLeavesNoTaskBehind ==
    \A d \in Dispatchers, t \in Tasks :
        phase[d] = "stopped" => task[t].leaseOwner # d
=============================================================================
