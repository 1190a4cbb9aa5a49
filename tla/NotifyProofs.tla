---------------------------- MODULE NotifyProofs ----------------------------
(***************************************************************************)
(* Theorems about the whole way of a notification: in the composition the  *)
(* engine takes steps of Engine and the dispatchers steps of Dispatcher,   *)
(* so that what was proved of each holds of both; on it rest the           *)
(* properties that relate the two.                                         *)
(***************************************************************************)
EXTENDS NotifyInvariant, TLAPS

(* The theorems about the engine and the dispatchers, for these tables.    *)
EP == INSTANCE EngineProofs WITH tasks <- Stored, Faults <- EngineFaults

DP == INSTANCE RetryBudgetProofs WITH Notifications <- Requests,
                                      NotificationOf <- [t \in Tasks |-> t[1]],
                                      Faults <- DispatcherFaults

LEMMA Assumptions ==
    EP!EngineAssumption /\ DP!StoreAssumption /\ DP!DispatcherAssumption
BY NotifyAssumption
   DEF E!EngineAssumption, EP!EngineAssumption, E!ChannelState, EP!ChannelState,
       E!RecipientType, EP!RecipientType, D!StoreAssumption, DP!StoreAssumption,
       D!DispatcherAssumption, DP!DispatcherAssumption

-----------------------------------------------------------------------------
(* EP and DP are the modules E and D with their theorems.                  *)
LEMMA SameEngine ==
    /\ E!Init <=> EP!Init
    /\ E!Reload <=> EP!Reload
    /\ \A n : /\ E!CreateTemplate(n) <=> EP!CreateTemplate(n)
              /\ E!DeleteTemplate(n) <=> EP!DeleteTemplate(n)
    /\ \A r : /\ E!Receive(r) <=> EP!Receive(r)
              /\ E!ValidateChannel(r) <=> EP!ValidateChannel(r)
              /\ E!ValidateTemplate(r) <=> EP!ValidateTemplate(r)
              /\ E!InsertNotification(r) <=> EP!InsertNotification(r)
              /\ E!LoadExisting(r) <=> EP!LoadExisting(r)
              /\ E!InsertRecipients(r) <=> EP!InsertRecipients(r)
              /\ E!GenerateTask(r) <=> EP!GenerateTask(r)
              /\ E!InsertTasks(r) <=> EP!InsertTasks(r)
              /\ E!Crash(r) <=> EP!Crash(r)
BY DEF E!Init, EP!Init, E!Served, EP!Served, E!Reload, EP!Reload, E!CreateTemplate,
       EP!CreateTemplate, E!DeleteTemplate, EP!DeleteTemplate, E!Receive, EP!Receive,
       E!ValidateChannel, EP!ValidateChannel, E!ValidateTemplate, EP!ValidateTemplate,
       E!InsertNotification, EP!InsertNotification, E!LoadExisting, EP!LoadExisting,
       E!InsertRecipients, EP!InsertRecipients, E!GenerateTask, EP!GenerateTask,
       E!InsertTasks, EP!InsertTasks,
       E!Crash, EP!Crash, E!database, EP!database, E!local, EP!local, E!Goto, EP!Goto,
       E!Remember, EP!Remember, E!Outcomes, EP!Outcomes, E!WellFormed, EP!WellFormed,
       E!Fits, EP!Fits, E!Inserts, EP!Inserts, E!Holders, EP!Holders, E!SameKey, EP!SameKey,
       E!Reread, EP!Reread, E!AllPairs, EP!AllPairs, E!AfterRecipients, EP!AfterRecipients,
       E!Generates, EP!Generates, E!Compatible, EP!Compatible, E!RecipientIdentifierKeys,
       EP!RecipientIdentifierKeys, E!AfterTasks, EP!AfterTasks

LEMMA SameTypes == (E!TypeOK <=> EP!TypeOK) /\ (D!TypeOK <=> DP!TypeOK)
BY DEF E!TypeOK, EP!TypeOK, E!ChannelState, EP!ChannelState, E!Position, EP!Position,
       E!Served, EP!Served, E!Answers, EP!Answers, D!TypeOK, DP!TypeOK, D!Row, DP!Row,
       D!TaskStatus, DP!TaskStatus, D!Null, DP!Null, D!NotificationStatus,
       DP!NotificationStatus, D!Phases, DP!Phases, D!Loop, DP!Loop, D!FetchKinds,
       DP!FetchKinds, D!Kinds, DP!Kinds, D!Job, DP!Job, D!Attempt, DP!Attempt

LEMMA SameDispatchers ==
    /\ D!Init <=> DP!Init
    /\ D!Next <=> DP!Next
    /\ \A n, S : D!Enqueue(n, S) <=> DP!Enqueue(n, S)
    /\ Dispatch => DP!DispatchStep
    /\ \A j \in jobs : D!PrepareOk(j) => DP!DispatchStep
<1>1. D!Init <=> DP!Init
    BY DEF D!Init, DP!Init, D!AbsentRow, DP!AbsentRow, D!Null, DP!Null, D!At, DP!At,
           D!NoWrites, DP!NoWrites, D!Kinds, DP!Kinds
<1>2. \A n, S : D!Enqueue(n, S) <=> DP!Enqueue(n, S)
    BY DEF D!Enqueue, DP!Enqueue, D!RowsOf, DP!RowsOf, D!TasksOf, DP!TasksOf, D!NewRow,
           DP!NewRow, D!AbsentRow, DP!AbsentRow, D!Null, DP!Null
<1>3. \A d : D!Start(d) <=> DP!Start(d)
    BY DEF D!Start, DP!Start, D!Alive, DP!Alive, D!Cardinality, DP!Cardinality, D!At,
           DP!At
<1>4. \A d : D!Terminate(d) <=> DP!Terminate(d)
    BY DEF D!Terminate, DP!Terminate
<1>5. \A d : D!LoopExit(d) <=> DP!LoopExit(d)
    BY DEF D!LoopExit, DP!LoopExit, D!At, DP!At, D!Open, DP!Open
<1>6. \A d : D!StopReturns(d) <=> DP!StopReturns(d)
    BY DEF D!StopReturns, DP!StopReturns
<1>7. \A d : D!Crash(d) <=> DP!Crash(d)
    BY DEF D!Crash, DP!Crash, D!Alive, DP!Alive, D!At, DP!At, D!NoWrites, DP!NoWrites,
           D!AbsentRow, DP!AbsentRow, D!Null, DP!Null, D!Kinds, DP!Kinds
<1>8. \A d : D!ExpireSelect(d) <=> DP!ExpireSelect(d)
    BY DEF D!ExpireSelect, DP!ExpireSelect, D!Open, DP!Open, D!Outcomes, DP!Outcomes,
           D!Batches, DP!Batches, D!Cardinality, DP!Cardinality, D!Selectable,
           DP!Selectable, D!Selects, DP!Selects, D!Locked, DP!Locked, D!Kinds,
           DP!Kinds, D!OpenTx, DP!OpenTx, D!Written, DP!Written, D!Expired, DP!Expired,
           D!Acquired, DP!Acquired, D!Released, DP!Released, D!Retried, DP!Retried,
           D!Buried, DP!Buried, D!RetryBackoff, DP!RetryBackoff, D!Null, DP!Null,
           D!Acquiring, DP!Acquiring, D!At, DP!At, D!FetchKinds, DP!FetchKinds
<1>9. \A d : D!ExpireEnd(d) <=> DP!ExpireEnd(d)
    BY DEF D!ExpireEnd, DP!ExpireEnd, D!Open, DP!Open, D!Outcomes, DP!Outcomes,
           D!Commit, DP!Commit, D!Refreshing, DP!Refreshing, D!Acquiring, DP!Acquiring,
           D!At, DP!At, D!FetchKinds, DP!FetchKinds, D!CloseTx, DP!CloseTx, D!NoWrites,
           DP!NoWrites, D!AbsentRow, DP!AbsentRow, D!Null, DP!Null
<1>10. \A d : D!LoopCount(d) <=> DP!LoopCount(d)
    BY DEF D!LoopCount, DP!LoopCount, D!Outcomes, DP!Outcomes, D!Aggregate,
           DP!Aggregate, D!RowsOf, DP!RowsOf, D!TasksOf, DP!TasksOf, D!Active,
           DP!Active, D!Refreshing, DP!Refreshing, D!Acquiring, DP!Acquiring, D!At,
           DP!At, D!FetchKinds, DP!FetchKinds
<1>11. \A d : D!LoopWrite(d) <=> DP!LoopWrite(d)
    BY DEF D!LoopWrite, DP!LoopWrite, D!Outcomes, DP!Outcomes, D!Refreshing,
           DP!Refreshing, D!Acquiring, DP!Acquiring, D!At, DP!At, D!FetchKinds,
           DP!FetchKinds
<1>12. \A d, k : D!AcquireSelect(d, k) <=> DP!AcquireSelect(d, k)
    BY DEF D!AcquireSelect, DP!AcquireSelect, D!Open, DP!Open, D!Outcomes, DP!Outcomes,
           D!Batches, DP!Batches, D!Cardinality, DP!Cardinality, D!Selectable,
           DP!Selectable, D!Selects, DP!Selects, D!Locked, DP!Locked, D!Kinds,
           DP!Kinds, D!OpenTx, DP!OpenTx, D!Written, DP!Written, D!Expired, DP!Expired,
           D!Acquired, DP!Acquired, D!Released, DP!Released, D!Retried, DP!Retried,
           D!Buried, DP!Buried, D!RetryBackoff, DP!RetryBackoff, D!Null, DP!Null,
           D!Acquiring, DP!Acquiring, D!At, DP!At, D!FetchKinds, DP!FetchKinds
<1>13. \A d, k : D!AcquireEnd(d, k) <=> DP!AcquireEnd(d, k)
    BY DEF D!AcquireEnd, DP!AcquireEnd, D!Open, DP!Open, D!Outcomes, DP!Outcomes,
           D!Commit, DP!Commit, D!NewJobs, DP!NewJobs, D!CloseTx, DP!CloseTx,
           D!NoWrites, DP!NoWrites, D!AbsentRow, DP!AbsentRow, D!Null, DP!Null,
           D!Acquiring, DP!Acquiring, D!At, DP!At
<1>14. \A j : D!PrepareOk(j) <=> DP!PrepareOk(j)
    BY DEF D!PrepareOk, DP!PrepareOk, D!Becomes, DP!Becomes
<1>15. \A j : D!PrepareFails(j) <=> DP!PrepareFails(j)
    BY DEF D!PrepareFails, DP!PrepareFails, D!Becomes, DP!Becomes
<1>16. \A j : D!SendReturns(j) <=> DP!SendReturns(j)
    BY DEF D!SendReturns, DP!SendReturns, D!Heard, DP!Heard, D!Becomes, DP!Becomes
<1>17. \A j : D!RecordAttempt(j) <=> DP!RecordAttempt(j)
    BY DEF D!RecordAttempt, DP!RecordAttempt, D!Becomes, DP!Becomes, D!Outcomes,
           DP!Outcomes
<1>18. \A j : D!UpdateTask(j) <=> DP!UpdateTask(j)
    BY DEF D!UpdateTask, DP!UpdateTask, D!Outcomes, DP!Outcomes, D!Locked, DP!Locked,
           D!Kinds, DP!Kinds, D!LeaseHeld, DP!LeaseHeld, D!Settled, DP!Settled,
           D!Succeeded, DP!Succeeded, D!Released, DP!Released, D!Failed, DP!Failed,
           D!Retried, DP!Retried, D!RetryBackoff, DP!RetryBackoff, D!Buried, DP!Buried,
           D!Null, DP!Null, D!Becomes, DP!Becomes, D!Returns, DP!Returns
<1>19. \A j : D!JobCount(j) <=> DP!JobCount(j)
    BY DEF D!JobCount, DP!JobCount, D!Outcomes, DP!Outcomes, D!Aggregate, DP!Aggregate,
           D!RowsOf, DP!RowsOf, D!TasksOf, DP!TasksOf, D!Active, DP!Active, D!Becomes,
           DP!Becomes, D!Returns, DP!Returns
<1>20. \A j : D!JobWrite(j) <=> DP!JobWrite(j)
    BY DEF D!JobWrite, DP!JobWrite, D!Outcomes, DP!Outcomes, D!Returns, DP!Returns
<1>21. D!Tick <=> DP!Tick
    BY DEF D!Tick, DP!Tick, D!Ticking, DP!Ticking, D!Elapsed, DP!Elapsed, D!Countdown,
           DP!Countdown, D!Kinds, DP!Kinds
<1>22. D!FetchKinds = DP!FetchKinds /\ \A n : D!TasksOf(n) = DP!TasksOf(n)
    BY DEF D!FetchKinds, DP!FetchKinds, D!TasksOf, DP!TasksOf
<1>23. \A d : D!LoopStep(d) <=> DP!LoopStep(d)
    BY <1>8, <1>9, <1>10, <1>11, <1>12, <1>13, <1>22 DEF D!LoopStep, DP!LoopStep
<1>24. \A j : D!JobStep(j) <=> DP!JobStep(j)
    BY <1>14, <1>15, <1>16, <1>17, <1>18, <1>19, <1>20 DEF D!JobStep, DP!JobStep
<1>25. D!Next <=> DP!Next
    BY <1>2, <1>3, <1>4, <1>5, <1>6, <1>7, <1>21, <1>22, <1>23, <1>24 DEF D!Next, DP!Next
<1>26. Dispatch => DP!DispatchStep
    BY <1>3, <1>4, <1>5, <1>6, <1>7, <1>21, <1>23, <1>24
       DEF Dispatch, DP!DispatchStep, D!JobStep
<1>27. QED
    BY <1>1, <1>2, <1>24, <1>25, <1>26 DEF DP!DispatchStep, D!JobStep

-----------------------------------------------------------------------------
(* The invariants of the engine and of the dispatchers.                    *)
PartsInv == EP!IInv /\ DP!TypeOK /\ DP!LeaseInv /\ DP!CountInv /\ DP!VerdictInv

(* The dispatchers insert and delete no row.                               *)
LEMMA DispatchKeepsRows ==
    ASSUME DP!TypeOK, DP!LeaseInv, DP!DispatchStep
    PROVE  Stored' = Stored
<1>1. DP!RowStep
    BY Assumptions, DP!RowSteps
<1>2. ASSUME NEW t \in Tasks, task[t].status = "absent" PROVE task'[t].status = "absent"
    BY <1>1, <1>2, Assumptions, DP!RowsMade
<1>3. ASSUME NEW t \in Tasks, task[t].status # "absent" PROVE task'[t].status # "absent"
    <2>1. [DP!Next]_(DP!vars)
        BY DEF DP!DispatchStep, DP!Next
    <2>2. QED
        BY <1>3, <2>1, Assumptions, DP!RowsKept DEF DP!RowKept
<1>4. QED
    BY <1>2, <1>3 DEF Stored

(* The engine inserts the tasks of a request as the dispatchers expect.    *)
LEMMA InsertIsEnqueue ==
    ASSUME PartsInv, NEW r \in Requests, InsertTasks(r)
    PROVE  [DP!Next]_(DP!vars)
<1> DEFINE S == Tasks \cap ({r} \X made[r])
<1>1. S \in SUBSET DP!TasksOf(r)
    BY DEF DP!TasksOf
<1>2. DP!RowsOf(r) = {}
    <2>1. \A t \in Stored : t[1] # r
        BY DEF PartsInv, EP!IInv, EP!StoredInv, EP!Untasked, InsertTasks, E!InsertTasks
    <2>2. QED
        BY <2>1 DEF DP!RowsOf, DP!TasksOf, Stored
<1>3. task' = [t \in Tasks |-> IF t \in S THEN DP!NewRow ELSE task[t]]
    BY DEF InsertTasks, D!NewRow, DP!NewRow, D!AbsentRow, DP!AbsentRow, D!Null, DP!Null
<1>4. CASE S = {}
    <2>1. task' = task
        BY <1>3, <1>4 DEF PartsInv, DP!TypeOK
    <2>2. QED
        BY <2>1 DEF InsertTasks, DP!vars
<1>5. CASE S # {}
    <2>1. DP!Enqueue(r, S)
        BY <1>2, <1>3 DEF InsertTasks, DP!Enqueue
    <2>2. QED
        BY <1>1, <1>5, <2>1 DEF DP!Next
<1>6. QED
    BY <1>4, <1>5

(* Every step is one of the engine, of the dispatchers, or of neither.     *)
LEMMA PartSteps ==
    ASSUME PartsInv, [Next]_vars
    PROVE  [EP!Next]_(EP!vars) /\ [DP!Next]_(DP!vars)
<1>1. UNCHANGED dispatcherVars => Stored' = Stored /\ UNCHANGED DP!vars
    BY DEF dispatcherVars, Stored, DP!vars
<1>2. UNCHANGED engineVars /\ Stored' = Stored => UNCHANGED EP!vars
    BY DEF engineVars, EP!vars
<1>3. ASSUME NEW r \in Requests, Serve(r) PROVE EP!Next /\ UNCHANGED DP!vars
    BY <1>1, <1>3, SameEngine DEF Serve, EP!Next, EP!Step
<1>4. ASSUME NEW r \in Requests, InsertTasks(r) PROVE EP!Next
    BY <1>4, SameEngine DEF InsertTasks, EP!Next, EP!Step
<1>5. CASE Administer
    BY <1>1, <1>5, SameEngine DEF Administer, EP!Next
<1>6. ASSUME DP!DispatchStep, UNCHANGED engineVars
      PROVE  UNCHANGED EP!vars /\ DP!Next
    <2>1. Stored' = Stored
        BY <1>6, DispatchKeepsRows DEF PartsInv
    <2>2. DP!Next
        BY <1>6 DEF DP!DispatchStep, DP!Next
    <2>3. QED
        BY <1>2, <1>6, <2>1, <2>2
<1>7. CASE Dispatch
    <2>1. DP!DispatchStep /\ UNCHANGED engineVars
        BY <1>7, SameDispatchers DEF Dispatch
    <2>2. QED
        BY <1>6, <2>1
<1>8. ASSUME NEW j \in jobs, PrepareOk(j) PROVE UNCHANGED EP!vars /\ DP!Next
    <2>1. DP!DispatchStep /\ UNCHANGED engineVars
        BY <1>8, SameDispatchers DEF PrepareOk
    <2>2. QED
        BY <1>6, <2>1
<1>9. CASE UNCHANGED <<engineVars, dispatcherVars>>
    BY <1>1, <1>2, <1>9
<1>10. Query \/ UNCHANGED vars => UNCHANGED <<engineVars, dispatcherVars>>
    BY DEF Query, vars
<1>11. QED
    BY <1>3, <1>4, <1>5, <1>7, <1>8, <1>9, <1>10, InsertIsEnqueue DEF Next

LEMMA PartsInit == Init => PartsInv
<1> SUFFICES ASSUME Init PROVE PartsInv
    OBVIOUS
<1>1. EP!IInv
    BY SameEngine, Assumptions, EP!IInvInit DEF Init
<1>2. DP!TypeOK /\ DP!LeaseInv /\ DP!CountInv /\ DP!VerdictInv
    BY SameDispatchers, Assumptions, DP!TypeInit, DP!LeaseInit, DP!CountInit, DP!VerdictInit
       DEF Init
<1>3. QED
    BY <1>1, <1>2 DEF PartsInv

LEMMA PartsNext == PartsInv /\ [Next]_vars => PartsInv'
<1> SUFFICES ASSUME PartsInv, [Next]_vars PROVE PartsInv'
    OBVIOUS
<1>1. [EP!Next]_(EP!vars) /\ [DP!Next]_(DP!vars)
    BY PartSteps
<1>2. EP!IInv'
    BY <1>1, Assumptions, EP!IInvNext DEF PartsInv
<1>3. DP!TypeOK'
    BY <1>1, Assumptions, DP!TypeNext DEF PartsInv
<1>4. DP!LeaseInv' /\ DP!CountInv'
    BY <1>1, Assumptions, DP!LeaseStep, DP!CountStep DEF PartsInv
<1>5. DP!VerdictInv'
    BY <1>1, <1>3, Assumptions, DP!VerdictStep DEF PartsInv
<1>6. QED
    BY <1>2, <1>3, <1>4, <1>5 DEF PartsInv

LEMMA PartsAlways == Spec => []PartsInv
BY PartsInit, PartsNext, PTL DEF Spec

(* Whatever the engine, its faults and the template API do, they are the   *)
(* client the dispatchers' theorems assume.                                *)
THEOREM EngineServesDispatchers == Spec => ServesDispatcher
<1>1. Init => D!Init
    BY DEF Init
<1>2. PartsInv /\ [Next]_vars => [D!Next]_(D!vars)
    BY PartSteps, SameDispatchers DEF D!vars, DP!vars
<1>3. QED
    BY <1>1, <1>2, PartsAlways, PTL DEF Spec, ServesDispatcher, D!Spec

-----------------------------------------------------------------------------
(* The row of a task a worker has was inserted.                            *)
LEMMA WorkersHaveRows == PartsInv => \A j \in jobs : j.task \in Stored
<1> SUFFICES ASSUME PartsInv, NEW j \in jobs PROVE j.task \in Stored
    OBVIOUS
<1>1. j.task \in Tasks /\ j.id \in Nat
    BY DEF PartsInv, DP!TypeOK, DP!Job
<1>2. claims[j.task] >= 1
    BY <1>1 DEF PartsInv, DP!CountInv, DP!JobsInv, DP!TypeOK
<1>3. task[j.task].status # "absent"
    <2>1. task[j.task].status = "absent" => claims[j.task] = 0 + 0
        BY <1>1 DEF PartsInv, DP!CountInv, DP!RowsInv, DP!ClaimAccounting
    <2>2. QED
        BY <1>2, <2>1
<1>4. QED
    BY <1>1, <1>3 DEF Stored

(* A step of another request, or of nobody, leaves a request where it is.  *)
RequestKept(r) ==
    /\ pc'[r] = pc[r] /\ body'[r] = body[r] /\ left'[r] = left[r]
    /\ asked'[r] = asked[r] /\ pairs'[r] = pairs[r] /\ made'[r] = made[r]

RequestStep(r) ==
    \/ E!Receive(r) \/ E!ValidateChannel(r)
    \/ E!ValidateTemplate(r) /\ replaced' = [replaced EXCEPT ![r] = @ \ {asked[r]}]
    \/ E!InsertNotification(r) \/ E!LoadExisting(r) \/ E!InsertRecipients(r)
    \/ E!GenerateTask(r) \/ E!InsertTasks(r) \/ E!Crash(r)

LEMMA RequestSteps ==
    ASSUME PartsInv, [Next]_vars, NEW r \in Requests
    PROVE  RequestKept(r) \/ RequestStep(r)
<1>1. EP!TypeOK
    BY DEF PartsInv, EP!IInv
<1>2. ASSUME NEW s \in Requests, Serve(s) \/ InsertTasks(s), s # r PROVE RequestKept(r)
    BY <1>1, <1>2
       DEF RequestKept, Serve, InsertTasks, EP!TypeOK, E!Receive, E!ValidateChannel,
           E!ValidateTemplate, E!InsertNotification, E!LoadExisting, E!InsertRecipients,
           E!GenerateTask, E!InsertTasks, E!Crash, E!Goto, E!local
<1>3. Serve(r) \/ InsertTasks(r) => RequestStep(r)
    BY DEF Serve, InsertTasks, RequestStep
<1>4. Administer => RequestKept(r)
    BY DEF Administer, RequestKept, E!Reload, E!CreateTemplate, E!DeleteTemplate, E!local
<1>5. UNCHANGED engineVars => RequestKept(r)
    BY DEF engineVars, RequestKept
<1>6. QED
    BY <1>2, <1>3, <1>4, <1>5 DEF Next, Dispatch, PrepareOk, Query, vars

(* The rows a step adds are those a request generated.                     *)
LEMMA RowsAdded ==
    ASSUME PartsInv, [Next]_vars
    PROVE  /\ Stored \subseteq Stored'
           /\ \A t \in Stored' \ Stored :
                \E r \in Requests : InsertTasks(r) /\ t \in {r} \X made[r]
<1>1. UNCHANGED task => Stored' = Stored
    BY DEF Stored
<1>2. ASSUME NEW r \in Requests, InsertTasks(r)
      PROVE  Stored \subseteq Stored' /\ Stored' \subseteq Stored \cup ({r} \X made[r])
    BY <1>2 DEF InsertTasks, E!InsertTasks
<1>3. DP!DispatchStep => Stored' = Stored
    BY DispatchKeepsRows DEF PartsInv
<1>4. ASSUME Dispatch \/ \E j \in jobs : PrepareOk(j) PROVE Stored' = Stored
    BY <1>3, <1>4, SameDispatchers DEF PrepareOk
<1>5. QED
    BY <1>1, <1>2, <1>4 DEF Next, Serve, Administer, Query, dispatcherVars, vars

(* A request about to insert has generated pairs of its own.               *)
LEMMA MadeIsWanted ==
    ASSUME PartsInv, NEW r \in Requests, InsertTasks(r), NEW p \in made[r]
    PROVE  /\ pc[r] = "tasks"
           /\ p[1] \in DOMAIN body[r].recipients /\ p[2] \in DOMAIN body[r].template
<1>1. pc[r] = "tasks"
    BY DEF InsertTasks, E!InsertTasks
<1>2. p \in EP!AllPairs(body[r])
    BY <1>1 DEF PartsInv, EP!IInv, EP!GeneratedInv, EP!Generated, EP!Wanted
<1>3. QED
    BY <1>1, <1>2 DEF EP!AllPairs

LEMMA RecipientsNext ==
    ASSUME PartsInv, RecipientsInv, [Next]_vars
    PROVE  RecipientsInv'
<1>1. recipients \subseteq recipients'
    <2>1. ASSUME NEW r \in Requests, Serve(r) \/ InsertTasks(r)
          PROVE  recipients \subseteq recipients'
        BY <2>1 DEF Serve, InsertTasks, E!Receive, E!ValidateChannel, E!ValidateTemplate,
                    E!InsertNotification, E!LoadExisting, E!InsertRecipients, E!GenerateTask,
                    E!InsertTasks, E!Crash, E!database
    <2>2. Administer => UNCHANGED recipients
        BY DEF Administer, E!Reload, E!CreateTemplate, E!DeleteTemplate, E!database
    <2>3. QED
        BY <2>1, <2>2 DEF Next, Dispatch, PrepareOk, Query, vars, engineVars
<1>2. \A r \in Requests :
        pc'[r] \in {"generate", "tasks"} =>
            {r} \X (DOMAIN body'[r].recipients) \subseteq recipients'
    <2> SUFFICES ASSUME NEW r \in Requests, pc'[r] \in {"generate", "tasks"}
                 PROVE  {r} \X (DOMAIN body'[r].recipients) \subseteq recipients'
        OBVIOUS
    <2>1. CASE pc[r] \in {"generate", "tasks"} /\ body'[r] = body[r]
        BY <1>1, <2>1 DEF RecipientsInv
    <2>2. CASE E!InsertRecipients(r)
        BY <2>2 DEF E!InsertRecipients, E!Goto, E!AfterRecipients, PartsInv, EP!IInv, EP!TypeOK
    <2>3. CASE RequestKept(r)
        BY <2>1, <2>3 DEF RequestKept
    <2>4. CASE RequestStep(r) /\ ~E!InsertRecipients(r)
        BY <2>1, <2>4
           DEF RequestStep, PartsInv, EP!IInv, EP!TypeOK, E!Receive, E!ValidateChannel,
               E!ValidateTemplate, E!InsertNotification, E!LoadExisting, E!GenerateTask,
               E!InsertTasks, E!Crash, E!Goto, E!local, E!AfterTasks
    <2>5. QED
        BY <2>2, <2>3, <2>4, RequestSteps
<1>3. \A t \in Stored' : Recipient(t) \in recipients'
    <2> SUFFICES ASSUME NEW t \in Stored' PROVE Recipient(t) \in recipients'
        OBVIOUS
    <2>1. CASE t \in Stored
        BY <1>1, <2>1 DEF RecipientsInv
    <2>2. CASE t \notin Stored
        <3>1. PICK r \in Requests : InsertTasks(r) /\ t \in {r} \X made[r]
            BY <2>2, RowsAdded
        <3>2. t[1] = r /\ t[2] \in made[r]
            BY <3>1
        <3>3. pc[r] = "tasks" /\ t[2][1] \in DOMAIN body[r].recipients
            BY <3>1, <3>2, MadeIsWanted
        <3>4. <<r, t[2][1]>> \in recipients
            BY <3>3 DEF RecipientsInv
        <3>5. QED
            BY <1>1, <3>2, <3>4 DEF Recipient
    <2>3. QED
        BY <2>1, <2>2
<1>4. QED
    BY <1>2, <1>3 DEF RecipientsInv

-----------------------------------------------------------------------------
(* The channels a received request names.                                  *)
LEMMA PayloadChannels ==
    ASSUME PartsInv, NEW r \in Requests, pc[r] # "idle"
    PROVE  DOMAIN body[r].template \subseteq Channels
<1>1. body[r] \in Bodies
    BY DEF PartsInv, EP!IInv, EP!BodyInv
<1>2. QED
    BY <1>1, Assumptions DEF EP!EngineAssumption

LEMMA TypeStep ==
    ASSUME PartsInv, PartsInv', TypeOK, [Next]_vars
    PROVE  TypeOK'
<1>1. E!TypeOK'
    <2>1. EP!TypeOK'
        BY DEF PartsInv, EP!IInv
    <2>2. QED
        BY <2>1, SameTypes, PTL
<1>2. D!TypeOK'
    <2>1. DP!TypeOK'
        BY DEF PartsInv
    <2>2. QED
        BY <2>1, SameTypes, PTL
<1>3. PICK q : q = query
    OBVIOUS
<1>4. query' \in [pc : {"idle", "second", "answered"}, request : SUBSET Requests,
                  verdict : D!NotificationStatus, statuses : SUBSET (D!TaskStatus \ {"absent"})]
    <2>1. ASSUME NEW r \in Requests, Read(r)
          PROVE  query' \in [pc : {"idle", "second", "answered"}, request : SUBSET Requests,
                             verdict : D!NotificationStatus,
                             statuses : SUBSET (D!TaskStatus \ {"absent"})]
        <3>1. TaskStatuses(r) \subseteq D!TaskStatus \ {"absent"}
            BY DEF TaskStatuses, Stored, TypeOK, D!TypeOK, D!Row
        <3>2. notif[r] \in D!NotificationStatus
            BY DEF TypeOK, D!TypeOK
        <3>3. CASE query' = [NoQuery EXCEPT !.pc = "second", !.request = {r}, !.verdict = notif[r]]
            <4>1. query' = [pc |-> "second", request |-> {r}, verdict |-> notif[r], statuses |-> {}]
                BY <3>3 DEF NoQuery
            <4>2. QED
                BY <3>2, <4>1
        <3>4. CASE query' = [query EXCEPT !.pc = "answered", !.statuses = TaskStatuses(r)]
            BY <3>1, <3>4 DEF TypeOK
        <3>5. QED
            BY <2>1, <3>3, <3>4 DEF Read
    <2>2. CASE UNCHANGED query
        BY <2>2 DEF TypeOK
    <2>3. QED
        BY <2>1, <2>2 DEF Next, Serve, InsertTasks, Administer, PrepareOk, Dispatch, Query, vars
<1>5. replaced' \in [Requests -> SUBSET Channels]
    <2>1. ASSUME NEW r \in Requests, Serve(r) PROVE replaced' \in [Requests -> SUBSET Channels]
        BY <2>1 DEF Serve, TypeOK
    <2>2. ASSUME Administer PROVE replaced' \in [Requests -> SUBSET Channels]
        <3>1. ASSUME NEW r \in Requests, NEW n \in Templates, pc[r] # "idle"
              PROVE  Uses(r, n) \subseteq Channels
            BY <3>1, PayloadChannels DEF Uses
        <3>2. QED
            BY <2>2, <3>1 DEF Administer, TypeOK
    <2>3. QED
        BY <2>1, <2>2 DEF Next, InsertTasks, PrepareOk, Dispatch, Query, vars, TypeOK
<1>6. misrendered' \subseteq Tasks
    BY DEF Next, Serve, InsertTasks, Administer, PrepareOk, Dispatch, Query, vars,
           TypeOK, D!TypeOK, D!Job
<1>7. QED
    BY <1>1, <1>2, <1>4, <1>5, <1>6 DEF TypeOK

-----------------------------------------------------------------------------
(* A channel whose template fits goes on fitting, unless it is the one     *)
(* that is looked up.                                                      *)
LEMMA FittingStays ==
    ASSUME PartsInv, TypeOK, [Next]_vars, NEW r \in Requests, pc[r] \notin {"idle", "invalid"},
           NEW c \in DOMAIN body[r].template, Fitting(r, c),
           E!ValidateTemplate(r) => c # asked[r]
    PROVE  body'[r] = body[r] /\ Fitting(r, c)'
<1>1. body'[r] = body[r]
    BY RequestSteps
       DEF RequestKept, RequestStep, E!Receive, E!ValidateChannel, E!ValidateTemplate,
           E!InsertNotification, E!LoadExisting, E!InsertRecipients, E!GenerateTask,
           E!InsertTasks, E!Crash, E!local
<1>2. c \in Channels /\ c # "none"
    BY PayloadChannels, Assumptions DEF EP!EngineAssumption
<1>3. DEFINE n == body[r].template[c]
<1>4. CASE UNCHANGED <<template, replaced>>
    BY <1>1, <1>4 DEF Fitting
<1>5. ASSUME NEW s \in Requests, Serve(s) PROVE Fitting(r, c)'
    <2>1. UNCHANGED template
        BY <1>5 DEF Serve, E!Receive, E!ValidateChannel, E!ValidateTemplate,
                    E!InsertNotification, E!LoadExisting, E!InsertRecipients, E!GenerateTask,
                    E!InsertTasks, E!Crash
    <2>2. c \in replaced[r] => c \in replaced'[r]
        BY <1>5 DEF Serve, TypeOK
    <2>3. QED
        BY <1>1, <2>1, <2>2 DEF Fitting
<1>6. ASSUME NEW m \in Templates, E!CreateTemplate(m), UNCHANGED replaced
      PROVE  Fitting(r, c)'
    <2>1. template[n] = c => template'[n] = c
        BY <1>2, <1>6 DEF E!CreateTemplate, PartsInv, EP!IInv, EP!TypeOK
    <2>2. QED
        BY <1>1, <1>6, <2>1 DEF Fitting
<1>7. ASSUME NEW m \in Templates, E!DeleteTemplate(m),
             replaced' = [s \in Requests |-> IF pc[s] \in {"idle", "invalid"} THEN replaced[s]
                                             ELSE replaced[s] \cup Uses(s, m)]
      PROVE  Fitting(r, c)'
    <2>1. template[n] = c => n = m \/ template'[n] = c
        BY <1>7 DEF E!DeleteTemplate, PartsInv, EP!IInv, EP!TypeOK
    <2>2. n = m => c \in replaced'[r]
        BY <1>7 DEF Uses
    <2>3. c \in replaced[r] => c \in replaced'[r]
        BY <1>7
    <2>4. QED
        BY <1>1, <2>1, <2>2, <2>3 DEF Fitting
<1>8. CASE Administer
    BY <1>1, <1>4, <1>6, <1>7, <1>8 DEF Administer, E!Reload
<1>9. QED
    BY <1>1, <1>4, <1>5, <1>8
       DEF Next, InsertTasks, E!InsertTasks, PrepareOk, Dispatch, Query, vars, engineVars

(* A request that goes on has looked up templates that fit.                *)
LEMMA LookedUpNext ==
    ASSUME PartsInv, TypeOK, TemplatesInv, [Next]_vars, NEW r \in Requests,
           pc'[r] \in E!Served, NEW c \in LookedUp(r)'
    PROVE  Fitting(r, c)'
<1>1. EP!TypeOK
    BY DEF PartsInv, EP!IInv
<1>2. ASSUME pc[r] \in E!Served, c \in LookedUp(r), E!ValidateTemplate(r) => c # asked[r]
      PROVE  Fitting(r, c)'
    BY <1>2, FittingStays DEF TemplatesInv, LookedUp, E!Served
<1>3. CASE RequestKept(r)
    <2>1. ~E!ValidateTemplate(r)
        BY <1>1, <1>3 DEF RequestKept, E!ValidateTemplate, E!Goto, EP!TypeOK
    <2>2. QED
        BY <1>2, <1>3, <2>1 DEF RequestKept, LookedUp
<1>4. CASE E!Receive(r)
    BY <1>1, <1>4 DEF E!Receive, E!Goto, EP!TypeOK, LookedUp, E!Served
<1>5. CASE E!ValidateChannel(r)
    BY <1>1, <1>2, <1>5
       DEF E!ValidateChannel, E!ValidateTemplate, E!Goto, EP!TypeOK, LookedUp, E!Served
<1>6. CASE E!ValidateTemplate(r)
    <2>1. pc[r] = "query" /\ template' = template /\ body' = body
        BY <1>6 DEF E!ValidateTemplate
    <2>2. E!Fits(r) /\ (c = asked[r] \/ c \in LookedUp(r))
        BY <1>1, <1>6 DEF E!ValidateTemplate, E!Goto, EP!TypeOK, LookedUp, E!Served
    <2>3. CASE c = asked[r]
        BY <2>1, <2>2, <2>3 DEF E!Fits, Fitting
    <2>4. CASE c # asked[r]
        BY <1>2, <2>1, <2>2, <2>4 DEF E!Served
    <2>5. QED
        BY <2>3, <2>4
<1>7. CASE \/ E!InsertNotification(r) \/ E!LoadExisting(r) \/ E!InsertRecipients(r)
           \/ E!GenerateTask(r) \/ E!InsertTasks(r) \/ E!Crash(r)
    <2>1. /\ pc[r] \in {"notify", "reread", "recipients", "generate", "tasks"}
          /\ pc'[r] \notin {"validate", "query"} /\ body'[r] = body[r]
        BY <1>1, <1>7
           DEF E!InsertNotification, E!LoadExisting, E!InsertRecipients, E!GenerateTask,
               E!InsertTasks, E!Crash, E!Goto, E!local, E!AfterRecipients, E!AfterTasks,
               E!Served, EP!TypeOK
    <2>2. QED
        BY <1>2, <2>1 DEF LookedUp, E!ValidateTemplate, E!Served
<1>8. QED
    BY <1>3, <1>4, <1>5, <1>6, <1>7, RequestSteps DEF RequestStep

LEMMA TemplatesNext ==
    ASSUME PartsInv, TypeOK, TemplatesInv, [Next]_vars
    PROVE  TemplatesInv'
<1>1. \A r \in Requests : pc'[r] \in E!Served => \A c \in LookedUp(r)' : Fitting(r, c)'
    BY LookedUpNext
<1>2. ASSUME NEW t \in Stored
      PROVE  /\ t[1] \in Requests /\ pc[t[1]] \notin {"idle", "invalid", "query"}
             /\ Channel(t) \in DOMAIN body[t[1]].template /\ Fitting(t[1], Channel(t))
             /\ body'[t[1]] = body[t[1]] /\ Fitting(t[1], Channel(t))'
    <2>1. t[1] \in Requests
        BY NotifyAssumption DEF Stored
    <2>2. pc[t[1]] \notin {"idle", "invalid", "query"}
        BY DEF PartsInv, EP!IInv, EP!StoredInv, EP!Untasked, EP!Unstored
    <2>3. Channel(t) \in DOMAIN body[t[1]].template /\ Fitting(t[1], Channel(t))
        BY DEF TemplatesInv
    <2>4. ~E!ValidateTemplate(t[1])
        BY <2>2 DEF E!ValidateTemplate
    <2>5. body'[t[1]] = body[t[1]] /\ Fitting(t[1], Channel(t))'
        BY <2>1, <2>2, <2>3, <2>4, FittingStays
    <2>6. QED
        BY <2>1, <2>2, <2>3, <2>5
<1>3. \A t \in Stored' : /\ Channel(t) \in DOMAIN body'[t[1]].template
                         /\ Fitting(t[1], Channel(t))'
    <2> SUFFICES ASSUME NEW t \in Stored', t \notin Stored
                 PROVE  /\ Channel(t) \in DOMAIN body'[t[1]].template
                        /\ Fitting(t[1], Channel(t))'
        BY <1>2
    <2>1. PICK r \in Requests : InsertTasks(r) /\ t \in {r} \X made[r]
        BY RowsAdded
    <2>2. t[1] = r /\ t[2] \in made[r]
        BY <2>1
    <2>3. pc[r] = "tasks" /\ Channel(t) \in DOMAIN body[r].template
        BY <2>1, <2>2, MadeIsWanted DEF Channel
    <2>4. Fitting(r, Channel(t))
        BY <2>3 DEF TemplatesInv, LookedUp, E!Served
    <2>5. body' = body /\ template' = template /\ replaced' = replaced
        BY <2>1 DEF InsertTasks, E!InsertTasks, E!local
    <2>6. QED
        BY <2>2, <2>3, <2>4, <2>5 DEF Fitting
<1>4. ASSUME NEW t \in misrendered' \ misrendered
      PROVE  t \in Stored /\ Channel(t) \in replaced'[t[1]]
    <2>1. PICK j \in jobs : PrepareOk(j) /\ t = j.task
        BY DEF Next, Serve, InsertTasks, Administer, PrepareOk, Dispatch, Query, vars
    <2>2. t \in Stored
        BY <2>1, WorkersHaveRows
    <2>3. Template(t) # Channel(t) /\ replaced' = replaced
        BY <1>4, <2>1 DEF PrepareOk
    <2>4. QED
        BY <1>2, <2>2, <2>3 DEF Fitting, Template
<1>5. ASSUME NEW t \in misrendered PROVE t \in Stored /\ Channel(t) \in replaced'[t[1]]
    <2>1. t \in Stored /\ Channel(t) \in replaced[t[1]]
        BY DEF TemplatesInv, RenderedForItsChannel
    <2>2. t[1] \in Requests /\ pc[t[1]] # "query"
        BY <1>2, <2>1
    <2>3. ASSUME NEW s \in Requests, Serve(s) PROVE replaced'[t[1]] = replaced[t[1]]
        BY <2>2, <2>3 DEF Serve, E!ValidateTemplate, TypeOK
    <2>4. Administer => replaced[t[1]] \subseteq replaced'[t[1]]
        BY <2>2 DEF Administer
    <2>5. QED
        BY <2>1, <2>3, <2>4 DEF Next, InsertTasks, PrepareOk, Dispatch, Query, vars
<1>6. Stored \subseteq Stored'
    BY RowsAdded
<1>7. QED
    BY <1>1, <1>3, <1>4, <1>5, <1>6 DEF TemplatesInv, RenderedForItsChannel

-----------------------------------------------------------------------------
LEMMA DeliveredNext ==
    ASSUME PartsInv, DeliveredInv, [Next]_vars
    PROVE  DeliveredInv'
<1>1. Stored \subseteq Stored'
    BY RowsAdded
<1>2. ASSUME NEW j \in jobs, D!SendReturns(j) PROVE DeliveredInv'
    <2>1. \A t \in Tasks : delivered'[t] # "no" => delivered[t] # "no" \/ t = j.task
        BY <1>2 DEF D!SendReturns, PartsInv, DP!TypeOK
    <2>2. QED
        BY <1>1, <2>1, WorkersHaveRows DEF DeliveredInv
<1>3. CASE UNCHANGED delivered
    BY <1>1, <1>3 DEF DeliveredInv
<1>4. QED
    BY <1>2, <1>3
       DEF Next, Serve, InsertTasks, Administer, PrepareOk, Dispatch, Query, vars,
           dispatcherVars, D!Start, D!Terminate, D!LoopExit, D!StopReturns, D!Crash,
           D!LoopStep, D!ExpireSelect, D!ExpireEnd, D!LoopCount, D!LoopWrite,
           D!AcquireSelect, D!AcquireEnd, D!PrepareOk, D!PrepareFails, D!RecordAttempt,
           D!UpdateTask, D!JobCount, D!JobWrite, D!Tick

LEMMA SameHolds ==
    ASSUME NEW n, NEW v
    PROVE  /\ Holds(n, v) <=> DP!Sound(n, v)
           /\ Holds(n, v)' <=> DP!Sound(n, v)'
BY DEF Holds, DP!Sound, D!RowsOf, DP!RowsOf, D!TasksOf, DP!TasksOf, D!Terminal, DP!Terminal

LEMMA HoldsStays ==
    ASSUME PartsInv, [Next]_vars, NEW CONSTANT n \in Requests, NEW CONSTANT v, Holds(n, v)
    PROVE  Holds(n, v)'
BY PartSteps, SameHolds, Assumptions, DP!SoundStays DEF PartsInv

LEMMA QueryNext ==
    ASSUME PartsInv, TypeOK, QueryInv, [Next]_vars
    PROVE  QueryInv'
<1>1. ASSUME NEW n \in Requests, Asks(n), UNCHANGED dispatcherVars,
             query' = [NoQuery EXCEPT !.pc = "second", !.request = {n}, !.verdict = notif[n]]
      PROVE  QueryInv'
    <2>1. /\ query'.pc = "second" /\ query'.request = {n} /\ query'.verdict = notif[n]
        BY <1>1 DEF NoQuery
    <2>2. Holds(n, notif[n])
        BY SameHolds DEF PartsInv, DP!VerdictInv
    <2>3. PICK v : v = notif[n]
        OBVIOUS
    <2>4. Holds(n, v)'
        BY <2>2, <2>3, HoldsStays
    <2>5. Holds(n, query.verdict)'
        BY <2>1, <2>3, <2>4 DEF Holds
    <2>6. QED
        BY <2>1, <2>5 DEF QueryInv, QuerySound
<1>2. ASSUME NEW n \in Requests, query.pc = "second", query.request = {n},
             UNCHANGED dispatcherVars,
             query' = [query EXCEPT !.pc = "answered", !.statuses = TaskStatuses(n)]
      PROVE  QueryInv'
    <2>1. /\ query'.pc = "answered" /\ query'.request = {n} /\ query'.verdict = query.verdict
          /\ query'.statuses = {task[t].status : t \in D!RowsOf(n)}
        BY <1>2, NotifyAssumption DEF TypeOK, TaskStatuses, D!RowsOf, D!TasksOf, Stored
    <2>2. Holds(n, query.verdict)
        BY <1>2 DEF QueryInv
    <2>3. Holds(n, query.verdict)'
        BY <1>2, <2>1, <2>2 DEF Holds, D!RowsOf, dispatcherVars
    <2>4. QuerySound'
        BY <2>1, <2>2 DEF QuerySound, Holds
    <2>5. QED
        BY <2>1, <2>3, <2>4 DEF QueryInv
<1>3. ASSUME NEW n \in Requests, Read(n), UNCHANGED dispatcherVars PROVE QueryInv'
    BY <1>1, <1>2, <1>3 DEF Read
<1>4. CASE UNCHANGED query
    <2>1. ASSUME NEW n \in query.request, query.pc \in {"second", "answered"}
          PROVE  Holds(n, query.verdict)'
        <3>1. n \in Requests /\ Holds(n, query.verdict)
            BY <2>1 DEF QueryInv, TypeOK
        <3>2. PICK v : v = query.verdict
            OBVIOUS
        <3>3. Holds(n, v)'
            BY <3>1, <3>2, HoldsStays
        <3>4. QED
            BY <1>4, <3>2, <3>3 DEF Holds
    <2>2. QED
        BY <1>4, <2>1 DEF QueryInv, QuerySound
<1>5. QED
    BY <1>3, <1>4 DEF Next, Serve, InsertTasks, Administer, PrepareOk, Dispatch, Query, vars

-----------------------------------------------------------------------------
LEMMA JointInit == Init => JointInv
<1> SUFFICES ASSUME Init PROVE JointInv
    OBVIOUS
<1>1. Stored = {} /\ recipients = {} /\ pc = [r \in Requests |-> "idle"]
    BY DEF Init, D!Init, D!AbsentRow, E!Init, Stored
<1>2. TypeOK
    BY PartsInit, SameTypes
       DEF PartsInv, EP!IInv, TypeOK, Init, NoQuery, D!NotificationStatus
<1>3. RecipientsInv /\ TemplatesInv
    BY <1>1 DEF RecipientsInv, TemplatesInv, RenderedForItsChannel, Init, E!Served
<1>4. DeliveredInv /\ QueryInv
    BY DEF DeliveredInv, QueryInv, QuerySound, Init, D!Init, NoQuery
<1>5. QED
    BY <1>2, <1>3, <1>4 DEF JointInv

LEMMA JointNext == PartsInv /\ PartsInv' /\ JointInv /\ [Next]_vars => JointInv'
BY TypeStep, RecipientsNext, TemplatesNext, DeliveredNext, QueryNext DEF JointInv

LEMMA JointAlways == Spec => [](PartsInv /\ JointInv)
BY PartsInit, PartsNext, JointInit, JointNext, PTL DEF Spec

(* Every variable of the composition keeps its type.                       *)
THEOREM NotifyTypeCorrect == Spec => []TypeOK
<1>1. JointInv => TypeOK
    BY DEF JointInv
<1>2. QED
    BY <1>1, JointAlways, PTL

(* However requests with one key and the dispatchers interleave and fail,  *)
(* messages are delivered for one of them only.                            *)
THEOREM KeysDeliverOnce == Spec => []KeyDeliveredOnce
<1>1. PartsInv /\ JointInv => KeyDeliveredOnce
    BY DEF PartsInv, EP!IInv, EP!StoredInv, EP!KeyInv, EP!SameKey, JointInv, DeliveredInv,
           KeyDeliveredOnce
<1>2. QED
    BY <1>1, JointAlways, PTL

(* Every worker finds the recipient of its task.                           *)
THEOREM RecipientsFound == Spec => []RecipientFound
<1>1. PartsInv /\ JointInv => RecipientFound
    BY WorkersHaveRows DEF JointInv, RecipientsInv, RecipientFound
<1>2. QED
    BY <1>1, JointAlways, PTL

(* A message is rendered with a template of its channel unless the one     *)
(* that was validated was deleted meanwhile.                               *)
THEOREM TemplatesKept == Spec => []RenderedForItsChannel
<1>1. JointInv => RenderedForItsChannel
    BY DEF JointInv, TemplatesInv
<1>2. QED
    BY <1>1, JointAlways, PTL

(* The two reads of a status query give an answer that is true.            *)
THEOREM QueriesSound == Spec => []QuerySound
<1>1. JointInv => QuerySound
    BY DEF JointInv, QueryInv
<1>2. QED
    BY <1>1, JointAlways, PTL
=============================================================================
