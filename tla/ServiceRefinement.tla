-------------------------- MODULE ServiceRefinement --------------------------
(***************************************************************************)
(* The composition implements NotificationService: every step of engine,   *)
(* dispatchers, template API and status queries, whatever fails, is a step *)
(* the clients were promised or one they cannot see.                       *)
(***************************************************************************)
EXTENDS NotifyProofs

-----------------------------------------------------------------------------
(* What NotificationService says of the requests with one key, and of the  *)
(* answers about one request, follows from it alone.                       *)
SentInv ==
    /\ DOMAIN delivered = Tasks
    /\ \A t \in Tasks : delivered[t] # "no" => Progress[t] # "none"

OrderInv ==
    /\ SentInv
    /\ \A r, s \in Requests :
        Service!Submitted(r) # {} /\ Service!Submitted(s) # {} /\ Key[r] = Key[s] => r = s
    /\ \A r \in Requests : Stage[r] \in {"idle", "open"} => Service!Submitted(r) = {}

ToldInv == \A a \in Told : a.request \in Requests /\ Service!MayTell(a.request, a.verdict)

LEMMA OrderInit == Service!Init => OrderInv
BY DEF Service!Init, OrderInv, SentInv, Service!Submitted, Service!TasksOf, Stage

LEMMA OrderNext == OrderInv /\ [Service!Next]_(Service!vars) => OrderInv'
<1> SUFFICES ASSUME OrderInv, [Service!Next]_(Service!vars) PROVE OrderInv'
    OBVIOUS
<1>1. DOMAIN Stage = Requests /\ DOMAIN Key = Requests /\ DOMAIN Progress = Tasks
    BY DEF Stage, Key, Progress
<1>2. ASSUME \A t \in Tasks : Progress[t] = "none" <=> Progress'[t] = "none"
      PROVE  \A r \in Requests : Service!Submitted(r)' = Service!Submitted(r)
    BY <1>2 DEF Service!Submitted, Service!TasksOf
<1>3. ASSUME UNCHANGED <<Stage, Key>>, SentInv',
             \A t \in Tasks : Progress[t] = "none" <=> Progress'[t] = "none"
      PROVE  OrderInv'
    BY <1>2, <1>3 DEF OrderInv
<1>4. ASSUME UNCHANGED delivered, \A t \in Tasks : Progress'[t] = "none" => Progress[t] = "none"
      PROVE  SentInv'
    BY <1>4 DEF OrderInv, SentInv
<1>5. ASSUME NEW r \in Requests, Service!Receive(r) PROVE OrderInv'
    <2>1. UNCHANGED <<Progress, delivered>> /\ Stage[r] = "idle"
        BY <1>5 DEF Service!Receive
    <2>2. \A s \in Requests : Service!Submitted(s)' = Service!Submitted(s)
        BY <1>2, <2>1
    <2>3. \A s \in Requests \ {r} : Stage'[s] = Stage[s] /\ Key'[s] = Key[s]
        BY <1>5 DEF Service!Receive
    <2>4. Service!Submitted(r) = {}
        BY <2>1 DEF OrderInv
    <2>5. SentInv'
        BY <1>4, <2>1
    <2>6. QED
        BY <2>2, <2>3, <2>4, <2>5 DEF OrderInv
<1>6. ASSUME NEW r \in Requests, Service!Answer(r) PROVE OrderInv'
    <2>1. PICK a \in {"accepted", "refused"}, S \in SUBSET Service!TasksOf(r) :
            /\ Stage' = [Stage EXCEPT ![r] = a]
            /\ Progress' = [t \in Tasks |-> IF t \in S THEN "due" ELSE Progress[t]]
            /\ S # {} => \A s \in Requests \ {r} : Key[s] = Key[r] => Service!Submitted(s) = {}
        BY <1>6 DEF Service!Answer
    <2>2. \A s \in Requests \ {r} :
            Stage'[s] = Stage[s] /\ Service!Submitted(s)' = Service!Submitted(s)
        BY <2>1 DEF Service!Submitted, Service!TasksOf
    <2>3. Service!Submitted(r)' = Service!Submitted(r) \cup S
        BY <2>1 DEF Service!Submitted, Service!TasksOf
    <2>4. Stage'[r] = a /\ Service!Submitted(r) = {}
        BY <1>1, <1>6, <2>1 DEF Service!Answer, OrderInv
    <2>5. UNCHANGED <<Key, delivered>>
        BY <1>6 DEF Service!Answer
    <2>6. SentInv'
        BY <1>4, <2>1, <2>5
    <2>7. ASSUME NEW s \in Requests \ {r}, Key[r] = Key[s]
          PROVE  Service!Submitted(r)' = {} \/ Service!Submitted(s)' = {}
        BY <2>1, <2>2, <2>3, <2>4, <2>7
    <2>8. QED
        BY <2>2, <2>4, <2>5, <2>6, <2>7 DEF OrderInv
<1>7. ASSUME NEW B \in SUBSET Tasks, Service!GiveUp(B) PROVE OrderInv'
    <2>1. \A t \in Tasks : Progress[t] = "none" <=> Progress'[t] = "none"
        BY <1>7 DEF Service!GiveUp
    <2>2. QED
        BY <1>3, <1>4, <1>7, <2>1 DEF Service!GiveUp
<1>8. ASSUME NEW t \in Tasks, Service!Deliver(t) PROVE OrderInv'
    <2>1. \A u \in Tasks : Progress[u] = "none" <=> Progress'[u] = "none"
        BY <1>1, <1>8 DEF Service!Deliver
    <2>2. QED
        BY <1>3, <1>4, <1>8, <2>1 DEF Service!Deliver
<1>9. ASSUME NEW t \in Tasks, Service!Send(t) \/ Service!Blank(t) PROVE OrderInv'
    <2>1. PICK v : delivered' = [delivered EXCEPT ![t] = v]
        BY <1>9 DEF Service!Send, Service!Blank
    <2>2. UNCHANGED <<Stage, Key, Progress>> /\ Progress[t] # "none"
        BY <1>9 DEF Service!Send, Service!Blank
    <2>3. SentInv'
        BY <2>1, <2>2 DEF OrderInv, SentInv
    <2>4. QED
        BY <1>3, <2>2, <2>3
<1>10. ASSUME UNCHANGED <<Stage, Key, Progress, delivered>> PROVE OrderInv'
    BY <1>3, <1>4, <1>10
<1>11. QED
    BY <1>5, <1>6, <1>7, <1>8, <1>9, <1>10
       DEF Service!Next, Service!Ask, Service!Tell, Service!vars

(* The tasks of a request whose end may be told are over, and it gets no   *)
(* other.                                                                  *)
LEMMA EndStays ==
    ASSUME OrderInv, [Service!Next]_(Service!vars), NEW CONSTANT r \in Requests,
           NEW CONSTANT v, Service!MayTell(r, v)
    PROVE  Service!MayTell(r, v)'
<1>1. CASE v \notin {"success", "failed"}
    BY <1>1 DEF Service!MayTell
<1>2. CASE v \in {"success", "failed"}
    <2>1. ASSUME \A t \in Service!TasksOf(r) : Progress[t] = "due" \/ Progress'[t] = Progress[t],
                 \A t \in Service!TasksOf(r) : Progress[t] = "due" => Progress'[t] # "none"
          PROVE  Service!MayTell(r, v)'
        BY <1>2, <2>1 DEF Service!MayTell, Service!Submitted, Service!TasksOf
    <2>2. Service!Submitted(r) # {} /\ Stage[r] \notin {"idle", "open"}
        BY <1>2 DEF Service!MayTell, OrderInv
    <2>3. ASSUME NEW s \in Requests, Service!Receive(s) \/ Service!Answer(s)
          PROVE  Service!MayTell(r, v)'
        <3>1. s # r
            BY <2>2, <2>3 DEF Service!Receive, Service!Answer
        <3>2. \A t \in Service!TasksOf(r) : Progress'[t] = Progress[t]
            BY <2>3, <3>1 DEF Service!Receive, Service!Answer, Service!TasksOf
        <3>3. QED
            BY <2>1, <3>2
    <2>4. ASSUME NEW B \in SUBSET Tasks, Service!GiveUp(B) PROVE Service!MayTell(r, v)'
        BY <2>1, <2>4 DEF Service!GiveUp, Service!TasksOf
    <2>5. ASSUME NEW u \in Tasks, Service!Deliver(u) PROVE Service!MayTell(r, v)'
        <3>1. DOMAIN Progress = Tasks
            BY DEF Progress
        <3>2. QED
            BY <2>1, <2>5, <3>1 DEF Service!Deliver, Service!TasksOf
    <2>6. ASSUME UNCHANGED Progress PROVE Service!MayTell(r, v)'
        BY <2>1, <2>6
    <2>7. QED
        BY <2>3, <2>4, <2>5, <2>6
           DEF Service!Next, Service!Send, Service!Blank, Service!Ask, Service!Tell,
               Service!vars
<1>3. QED
    BY <1>1, <1>2

LEMMA ToldNext == OrderInv /\ ToldInv /\ [Service!Next]_(Service!vars) => ToldInv'
<1> SUFFICES ASSUME OrderInv, ToldInv, [Service!Next]_(Service!vars) PROVE ToldInv'
    OBVIOUS
<1>1. ASSUME NEW r \in Requests, Service!Tell(r) PROVE ToldInv'
    <2>1. PICK v : /\ Told' = {[request |-> r, verdict |-> v,
                                progress |-> {Progress[t] : t \in Service!Submitted(r)}]}
                   /\ Service!MayTell(r, v) /\ UNCHANGED Progress
        BY <1>1 DEF Service!Tell
    <2>2. Service!MayTell(r, v)'
        BY <2>1 DEF Service!MayTell, Service!Submitted, Service!TasksOf
    <2>3. QED
        BY <2>1, <2>2 DEF ToldInv
<1>2. CASE Service!Ask
    BY <1>2 DEF Service!Ask, ToldInv
<1>3. CASE UNCHANGED Told
    <2> SUFFICES ASSUME NEW a \in Told
                 PROVE  a.request \in Requests /\ Service!MayTell(a.request, a.verdict)'
        BY <1>3 DEF ToldInv
    <2>1. PICK r \in Requests : r = a.request
        BY DEF ToldInv
    <2>2. PICK v : v = a.verdict
        OBVIOUS
    <2>3. Service!MayTell(r, v)'
        BY <2>1, <2>2, EndStays DEF ToldInv
    <2>4. QED
        BY <2>1, <2>2, <2>3
<1>4. QED
    BY <1>1, <1>2, <1>3
       DEF Service!Next, Service!Send, Service!Blank, Service!Deliver, Service!GiveUp,
           Service!Receive, Service!Answer, Service!vars

(* Of the requests with one key at most one has tasks or messages.         *)
LEMMA ServiceKeepsOrders == Service!Spec => []Service!OneOrderPerKey
<1>1. ASSUME OrderInv PROVE Service!OneOrderPerKey
    <2>1. \A t \in Tasks : t[1] \in Requests
        BY NotifyAssumption
    <2>2. \A t \in Tasks : Service!InHand(t) => t \in Service!Submitted(t[1])
        BY <1>1 DEF OrderInv, SentInv, Service!InHand, Service!Submitted, Service!TasksOf
    <2>3. QED
        BY <1>1, <2>1, <2>2 DEF OrderInv, Service!OneOrderPerKey
<1>2. QED
    BY <1>1, OrderInit, OrderNext, PTL DEF Service!Spec

(* No client is told both ends of a notification.                          *)
LEMMA ServiceAnswersStand == Service!Spec => Service!AnswersStand
<1> SUFFICES ASSUME NEW CONSTANT r \in Requests
             PROVE  Service!Spec =>
                      /\ [](Service!IsTold(r, "success") => []~Service!IsTold(r, "failed"))
                      /\ [](Service!IsTold(r, "failed") => []~Service!IsTold(r, "success"))
    BY DEF Service!AnswersStand
<1>1. Service!Init => ToldInv
    BY DEF Service!Init, ToldInv
<1>2. ASSUME NEW CONSTANT v
      PROVE  OrderInv /\ Service!MayTell(r, v) /\ [Service!Next]_(Service!vars)
                => Service!MayTell(r, v)'
    BY EndStays
<1>3. OrderInv /\ Service!MayTell(r, "success") /\ [Service!Next]_(Service!vars)
        => Service!MayTell(r, "success")'
    BY <1>2
<1>4. OrderInv /\ Service!MayTell(r, "failed") /\ [Service!Next]_(Service!vars)
        => Service!MayTell(r, "failed")'
    BY <1>2
<1>5. ToldInv => /\ Service!IsTold(r, "success") => Service!MayTell(r, "success")
                 /\ Service!IsTold(r, "failed") => Service!MayTell(r, "failed")
    BY DEF ToldInv, Service!IsTold
<1>6. ~(Service!MayTell(r, "success") /\ Service!MayTell(r, "failed"))
    BY DEF Service!MayTell
<1>7. QED
    BY <1>1, <1>3, <1>4, <1>5, <1>6, OrderInit, OrderNext, ToldNext, PTL DEF Service!Spec

-----------------------------------------------------------------------------
(* The mapping.                                                            *)
LEMMA StageNames ==
    /\ StageName["idle"] = "idle" /\ StageName["accepted"] = "accepted"
    /\ \A x \in E!Served : StageName[x] = "open"
    /\ \A x \in {"invalid", "error", "crashed"} : StageName[x] = "refused"
BY DEF StageName, E!Served

LEMMA ProgressNames ==
    /\ ProgressName["absent"] = "none" /\ ProgressName["pending"] = "due"
    /\ ProgressName["failed"] = "due" /\ ProgressName["processing"] = "due"
    /\ ProgressName["success"] = "delivered" /\ ProgressName["dead"] = "dead"
BY DEF ProgressName

(* A task is none to the client exactly while it has no row, and so on.    *)
LEMMA SeenProgress ==
    ASSUME D!TypeOK, NEW t \in Tasks
    PROVE  /\ Progress[t] = ProgressName[task[t].status]
           /\ Progress[t] = "none" <=> task[t].status = "absent"
           /\ Progress[t] = "due" <=> task[t].status \in D!Active
           /\ Progress[t] = "delivered" <=> task[t].status = "success"
           /\ Progress[t] = "dead" <=> task[t].status = "dead"
<1>1. task[t].status \in D!TaskStatus
    BY DEF D!TypeOK, D!Row
<1>2. QED
    BY <1>1, ProgressNames DEF Progress, D!TaskStatus, D!Active

LEMMA SeenStage ==
    ASSUME E!TypeOK, NEW r \in Requests
    PROVE  /\ Stage[r] = StageName[pc[r]]
           /\ Stage[r] = "idle" <=> pc[r] = "idle"
           /\ Stage[r] = "open" <=> pc[r] \in E!Served
           /\ Stage[r] = "accepted" <=> pc[r] = "accepted"
<1>1. pc[r] \in E!Served \cup E!Answers \cup {"idle"}
    BY DEF E!TypeOK
<1>2. QED
    BY <1>1, StageNames DEF Stage, E!Served, E!Answers

(* What the client sees changes only with these variables.                 *)
LEMMA SeenSame ==
    /\ UNCHANGED <<pc, body>> => UNCHANGED <<Stage, Key>>
    /\ UNCHANGED task => UNCHANGED Progress
    /\ UNCHANGED query => UNCHANGED Told
BY DEF Stage, Key, Progress, Told

LEMMA SeenTasks ==
    ASSUME D!TypeOK, NEW r \in Requests
    PROVE  /\ Service!TasksOf(r) = D!TasksOf(r)
           /\ Service!Submitted(r) = D!RowsOf(r)
BY SeenProgress DEF Service!Submitted, Service!TasksOf, D!RowsOf, D!TasksOf

LEMMA ServiceInit == Init => Service!Init
<1> SUFFICES ASSUME Init PROVE Service!Init
    OBVIOUS
<1>1. Stage = [r \in Requests |-> "idle"] /\ Key = [r \in Requests |-> NoKey]
    BY StageNames DEF Stage, Key, Init, E!Init
<1>2. Progress = [t \in Tasks |-> "none"] /\ delivered = [t \in Tasks |-> "no"]
    BY ProgressNames DEF Progress, Init, D!Init, D!AbsentRow
<1>3. Told = {}
    BY DEF Told, Init, NoQuery
<1>4. QED
    BY <1>1, <1>2, <1>3 DEF Service!Init

-----------------------------------------------------------------------------
(* The engine.                                                             *)

(* No other request with the key of a notification has tasks.              *)
LEMMA KeyIsTaken ==
    ASSUME PartsInv, TypeOK, NEW r \in Requests, r \in notifications,
           NEW s \in Requests, s # r, Key[s] = Key[r]
    PROVE  Service!Submitted(s) = {}
<1> SUFFICES ASSUME Service!Submitted(s) # {} PROVE FALSE
    OBVIOUS
<1>1. s \in notifications
    <2>1. PICK t \in D!RowsOf(s) : TRUE
        BY SeenTasks DEF TypeOK
    <2>2. t \in Stored /\ t[1] = s
        BY DEF D!RowsOf, D!TasksOf, Stored
    <2>3. QED
        BY <2>2 DEF PartsInv, EP!IInv, EP!StoredInv
<1>2. pc[r] # "idle" /\ pc[s] # "idle"
    BY <1>1 DEF PartsInv, EP!IInv, EP!StoredInv, EP!Unstored
<1>3. body[s].key = body[r].key
    BY <1>2 DEF Key
<1>4. QED
    BY <1>1, <1>3 DEF PartsInv, EP!IInv, EP!KeyInv, EP!SameKey

LEMMA ReceiveComes ==
    ASSUME PartsInv, TypeOK, NEW r \in Requests, E!Receive(r), UNCHANGED <<dispatcherVars, query>>
    PROVE  Service!Receive(r)
<1>1. PICK b \in Bodies : /\ body' = [body EXCEPT ![r] = b]
                          /\ pc' = [pc EXCEPT ![r] = IF E!WellFormed(b) THEN "validate"
                                                     ELSE "invalid"]
    BY DEF E!Receive, E!Goto
<1>2. b.key \in Keys \cup {NoKey}
    BY Assumptions DEF EP!EngineAssumption
<1>3. PICK x \in {"validate", "invalid"} : pc' = [pc EXCEPT ![r] = x]
    BY <1>1
<1>4. StageName[x] \in {"open", "refused"}
    BY StageNames DEF E!Served
<1>5. Stage' = [Stage EXCEPT ![r] = StageName[x]]
    BY <1>3 DEF Stage, TypeOK, E!TypeOK
<1>6. Key' = [Key EXCEPT ![r] = b.key]
    BY <1>1, <1>3 DEF Key, TypeOK, E!TypeOK
<1>7. Stage[r] = "idle"
    BY StageNames DEF Stage, E!Receive
<1>8. UNCHANGED <<Progress, delivered, Told>>
    BY SeenSame DEF dispatcherVars
<1>9. QED
    BY <1>2, <1>4, <1>5, <1>6, <1>7, <1>8 DEF Service!Receive

(* Where a step of a request that is being served may lead.                *)
LEMMA ServedSteps ==
    ASSUME PartsInv, NEW r \in Requests,
           \/ E!ValidateChannel(r) \/ E!ValidateTemplate(r) \/ E!InsertNotification(r)
           \/ E!LoadExisting(r) \/ E!InsertRecipients(r) \/ E!GenerateTask(r)
           \/ E!InsertTasks(r) \/ E!Crash(r)
    PROVE  /\ pc[r] \in E!Served /\ UNCHANGED body
           /\ \E x \in E!Served \cup E!Answers :
                /\ pc' = [pc EXCEPT ![r] = x]
                /\ E!InsertTasks(r) => x \in E!Answers
<1>2. CASE E!InsertTasks(r)
    BY <1>2 DEF E!InsertTasks, E!Goto, E!AfterTasks, E!Served, E!Answers, E!local
<1>3. CASE E!LoadExisting(r)
    BY <1>3 DEF E!LoadExisting, E!Goto, E!Reread, E!Holders, E!Served, E!Answers, E!local,
                E!InsertTasks
<1>4. CASE E!ValidateChannel(r) \/ E!GenerateTask(r) \/ E!Crash(r)
    BY <1>4 DEF E!ValidateChannel, E!GenerateTask, E!Crash, E!Goto, E!Served, E!Answers, E!local,
                E!InsertTasks
<1>5. CASE E!ValidateTemplate(r) \/ E!InsertNotification(r) \/ E!InsertRecipients(r)
    BY <1>5 DEF E!ValidateTemplate, E!InsertNotification, E!InsertRecipients, E!Goto, E!Served,
                E!Answers, E!AfterRecipients, E!local, E!InsertTasks
<1>6. QED
    BY <1>2, <1>3, <1>4, <1>5

(* A request that is being served is answered, or goes on unseen.          *)
LEMMA ServedAnswers ==
    ASSUME PartsInv, TypeOK, NEW r \in Requests, pc[r] \in E!Served, UNCHANGED body,
           NEW x \in E!Served \cup E!Answers, pc' = [pc EXCEPT ![r] = x],
           NEW S \in SUBSET D!TasksOf(r),
           task' = [t \in Tasks |-> IF t \in S THEN D!NewRow ELSE task[t]],
           S # {} => x \in E!Answers /\ r \in notifications,
           UNCHANGED <<delivered, query>>
    PROVE  Service!Answer(r) \/ UNCHANGED Service!vars
<1>1. Stage[r] = "open" /\ Stage' = [Stage EXCEPT ![r] = StageName[x]]
    BY StageNames DEF Stage, TypeOK, E!TypeOK
<1>2. UNCHANGED <<Key, delivered, Told>>
    <2>1. x # "idle" /\ pc[r] # "idle"
        BY DEF E!Served, E!Answers
    <2>2. UNCHANGED Key
        BY <2>1 DEF Key, TypeOK, E!TypeOK
    <2>3. QED
        BY <2>2, SeenSame
<1>3. Progress' = [t \in Tasks |-> IF t \in S THEN "due" ELSE Progress[t]]
    <2>1. ProgressName[D!NewRow.status] = "due"
        BY ProgressNames DEF D!NewRow, D!AbsentRow
    <2>2. QED
        BY <2>1 DEF Progress
<1>4. CASE x \in E!Served
    <2>1. S = {}
        BY <1>4 DEF E!Served, E!Answers
    <2>2. UNCHANGED Progress
        BY <1>3, <2>1 DEF Progress
    <2>3. UNCHANGED Stage
        BY <1>1, <1>4, StageNames DEF Stage
    <2>4. QED
        BY <1>2, <2>2, <2>3 DEF Service!vars
<1>5. CASE x \in E!Answers
    <2>1. StageName[x] \in {"accepted", "refused"}
        BY <1>5, StageNames DEF E!Answers
    <2>2. S \in SUBSET Service!TasksOf(r)
        BY SeenTasks DEF TypeOK
    <2>3. S # {} => \A s \in Requests \ {r} : Key[s] = Key[r] => Service!Submitted(s) = {}
        BY KeyIsTaken
    <2>4. Service!Answer(r)
        BY <1>1, <1>2, <1>3, <2>1, <2>2, <2>3 DEF Service!Answer
    <2>5. QED
        BY <2>4
<1>6. QED
    BY <1>4, <1>5

LEMMA EngineAnswers ==
    ASSUME PartsInv, TypeOK, NEW r \in Requests, Serve(r) \/ InsertTasks(r)
    PROVE  Service!Receive(r) \/ Service!Answer(r) \/ UNCHANGED Service!vars
<1>1. CASE E!Receive(r)
    <2>1. UNCHANGED <<dispatcherVars, query>>
        BY <1>1 DEF Serve, InsertTasks, E!Receive, E!InsertTasks
    <2>2. QED
        BY <1>1, <2>1, ReceiveComes
<1>2. CASE ~E!Receive(r)
    <2>1. \/ E!ValidateChannel(r) \/ E!ValidateTemplate(r) \/ E!InsertNotification(r)
          \/ E!LoadExisting(r) \/ E!InsertRecipients(r) \/ E!GenerateTask(r)
          \/ E!InsertTasks(r) \/ E!Crash(r)
        BY <1>2 DEF Serve, InsertTasks
    <2>2. /\ pc[r] \in E!Served /\ UNCHANGED body
          /\ \E x \in E!Served \cup E!Answers :
               /\ pc' = [pc EXCEPT ![r] = x]
               /\ E!InsertTasks(r) => x \in E!Answers
        BY <2>1, ServedSteps
    <2>3. PICK x \in E!Served \cup E!Answers :
            /\ pc' = [pc EXCEPT ![r] = x]
            /\ E!InsertTasks(r) => x \in E!Answers
        BY <2>2
    <2>4. UNCHANGED <<delivered, query>>
        BY DEF Serve, InsertTasks, dispatcherVars
    <2>5. \E S \in SUBSET D!TasksOf(r) :
            /\ task' = [t \in Tasks |-> IF t \in S THEN D!NewRow ELSE task[t]]
            /\ S # {} => E!InsertTasks(r)
        <3>1. CASE Serve(r)
            <4>1. task' = [t \in Tasks |-> IF t \in {} THEN D!NewRow ELSE task[t]]
                BY <3>1 DEF Serve, dispatcherVars, TypeOK, D!TypeOK
            <4>2. QED
                BY <4>1
        <3>2. CASE InsertTasks(r)
            <4> DEFINE S == Tasks \cap ({r} \X made[r])
            <4>1. S \in SUBSET D!TasksOf(r) /\ E!InsertTasks(r)
                BY <3>2 DEF D!TasksOf, InsertTasks
            <4>2. task' = [t \in Tasks |-> IF t \in S THEN D!NewRow ELSE task[t]]
                BY <3>2 DEF InsertTasks
            <4>3. QED
                BY <4>1, <4>2
        <3>3. QED
            BY <3>1, <3>2
    <2>6. PICK S \in SUBSET D!TasksOf(r) :
            /\ task' = [t \in Tasks |-> IF t \in S THEN D!NewRow ELSE task[t]]
            /\ S # {} => E!InsertTasks(r)
        BY <2>5
    <2>7. E!InsertTasks(r) => r \in notifications
        BY DEF E!InsertTasks, PartsInv, EP!IInv, EP!StoredInv
    <2>8. QED
        BY <2>2, <2>3, <2>4, <2>6, <2>7, ServedAnswers
<1>3. QED
    BY <1>1, <1>2

-----------------------------------------------------------------------------
(* The dispatchers.                                                        *)
LEMMA DispatchersDeliver ==
    ASSUME PartsInv, TypeOK, DP!DispatchStep, UNCHANGED <<engineVars, query>>
    PROVE  \/ \E t \in Tasks : Service!Send(t) \/ Service!Blank(t) \/ Service!Deliver(t)
           \/ \E B \in SUBSET Tasks : Service!GiveUp(B)
<1>1. UNCHANGED <<Stage, Key, Told>>
    BY SeenSame DEF engineVars
<1>2. D!Active = DP!Active
    BY DEF D!Active, DP!Active
<1>3. ASSUME NEW t \in Tasks, UNCHANGED task, task[t].status # "absent", DP!Learned(t)
      PROVE  Service!Send(t) \/ Service!Blank(t)
    <2>1. Progress[t] # "none" /\ UNCHANGED Progress
        BY <1>3, SeenProgress, SeenSame DEF TypeOK
    <2>2. CASE delivered' = [delivered EXCEPT ![t] = "yes"]
        BY <1>1, <2>1, <2>2 DEF Service!Send
    <2>3. CASE /\ t \in Webhooks /\ delivered[t] = "no"
               /\ delivered' = [delivered EXCEPT ![t] = "blank"]
        BY <1>1, <2>1, <2>3 DEF Service!Blank
    <2>4. QED
        BY <1>3, <2>2, <2>3 DEF DP!Learned
<1>4. ASSUME NEW t \in Tasks, UNCHANGED delivered, task[t].status \in D!Active, DP!Vouched(t),
             task'[t].status = "success", \A u \in Tasks \ {t} : task'[u] = task[u]
      PROVE  Service!Deliver(t)
    <2>1. Progress[t] = "due"
        BY <1>4, SeenProgress DEF TypeOK
    <2>2. Progress' = [Progress EXCEPT ![t] = "delivered"]
        BY <1>4, ProgressNames DEF Progress
    <2>3. QED
        BY <1>1, <1>4, <2>1, <2>2 DEF Service!Deliver, DP!Vouched
<1>5. ASSUME UNCHANGED delivered,
             \A t \in Tasks : \/ task'[t].status = task[t].status
                              \/ /\ task[t].status \in D!Active
                                 /\ task'[t].status \in D!Active \cup {"dead"}
      PROVE  \E B \in SUBSET Tasks : Service!GiveUp(B)
    <2> DEFINE B == {t \in Tasks : task[t].status \in D!Active /\ task'[t].status = "dead"}
    <2>1. \A t \in B : Progress[t] = "due"
        BY SeenProgress DEF TypeOK
    <2>2. \A t \in Tasks :
            ProgressName[task'[t].status] = IF t \in B THEN "dead" ELSE ProgressName[task[t].status]
        BY <1>5, ProgressNames DEF D!Active
    <2>3. Progress' = [t \in Tasks |-> IF t \in B THEN "dead" ELSE Progress[t]]
        BY <2>2 DEF Progress
    <2>4. Service!GiveUp(B)
        BY <1>1, <1>5, <2>1, <2>3 DEF Service!GiveUp
    <2>5. QED
        BY <2>4
<1>6. \/ /\ UNCHANGED task
         /\ \E t \in Tasks : task[t].status # "absent" /\ DP!Learned(t)
      \/ /\ UNCHANGED delivered
         /\ \E t \in Tasks :
               /\ task[t].status \in DP!Active /\ DP!Vouched(t)
               /\ task'[t].status = "success"
               /\ \A u \in Tasks \ {t} : task'[u] = task[u]
      \/ /\ UNCHANGED delivered
         /\ \A t \in Tasks :
               \/ task'[t].status = task[t].status
               \/ /\ task[t].status \in DP!Active
                  /\ task'[t].status \in DP!Active \cup {"dead"}
    BY Assumptions, DP!VisibleSteps DEF PartsInv
<1>7. QED
    BY <1>2, <1>3, <1>4, <1>5, <1>6

-----------------------------------------------------------------------------
(* The status query.                                                       *)
LEMMA QueryTells ==
    ASSUME PartsInv, JointInv, NEW r \in Requests, Read(r),
           UNCHANGED <<engineVars, dispatcherVars>>
    PROVE  Service!Ask \/ Service!Tell(r)
<1>1. UNCHANGED <<Stage, Key, Progress, delivered>>
    BY SeenSame DEF engineVars, dispatcherVars
<1>2. TypeOK /\ D!TypeOK
    BY DEF JointInv, TypeOK
<1>3. CASE query' = [NoQuery EXCEPT !.pc = "second", !.request = {r}, !.verdict = notif[r]]
    <2>1. Told' = {}
        BY <1>3 DEF NoQuery, Told
    <2>2. QED
        BY <1>1, <2>1 DEF Service!Ask
<1>4. CASE /\ query.pc = "second" /\ query.request = {r}
           /\ query' = [query EXCEPT !.pc = "answered", !.statuses = TaskStatuses(r)]
    <2>1. /\ query'.pc = "answered" /\ query'.request = {r} /\ query'.verdict = query.verdict
          /\ query'.statuses = TaskStatuses(r) /\ query.verdict \in D!NotificationStatus
        BY <1>2, <1>4 DEF TypeOK
    <2>2. {ProgressName[s] : s \in TaskStatuses(r)}
            = {Progress[t] : t \in Service!Submitted(r)}
        <3>1. Service!Submitted(r) = {t \in Stored : t[1] = r}
            BY <1>2, SeenTasks DEF D!RowsOf, D!TasksOf, Stored
        <3>2. \A t \in Stored : Progress[t] = ProgressName[task[t].status]
            BY DEF Progress, Stored
        <3>3. QED
            BY <3>1, <3>2 DEF TaskStatuses
    <2>3. Told' = {[request |-> r, verdict |-> query.verdict,
                    progress |-> {ProgressName[s] : s \in TaskStatuses(r)}]}
        BY <2>1 DEF Told
    <2>4. Service!MayTell(r, query.verdict)
        <3>1. Holds(r, query.verdict)
            BY <1>4 DEF JointInv, QueryInv
        <3>2. \A t \in D!RowsOf(r) : t \in Tasks
            BY DEF D!RowsOf, D!TasksOf
        <3>3. QED
            BY <1>2, <3>1, <3>2, SeenTasks, SeenProgress
               DEF Holds, Service!MayTell, D!Terminal
    <2>5. query.verdict \in {"pending", "processing", "success", "failed"}
        BY <2>1 DEF D!NotificationStatus
    <2>6. Told' = {[request |-> r, verdict |-> query.verdict,
                    progress |-> {Progress[t] : t \in Service!Submitted(r)}]}
        BY <2>2, <2>3
    <2>7. QED
        BY <1>1, <2>4, <2>5, <2>6 DEF Service!Tell
<1>5. QED
    BY <1>3, <1>4 DEF Read

-----------------------------------------------------------------------------
LEMMA ServiceNext ==
    PartsInv /\ JointInv /\ [Next]_vars => [Service!Next]_(Service!vars)
<1> SUFFICES ASSUME PartsInv, JointInv, [Next]_vars
             PROVE  Service!Next \/ UNCHANGED Service!vars
    OBVIOUS
<1>1. TypeOK
    BY DEF JointInv
<1>2. ASSUME NEW r \in Requests, Serve(r) \/ InsertTasks(r)
      PROVE  Service!Next \/ UNCHANGED Service!vars
    BY <1>1, <1>2, EngineAnswers DEF Service!Next
<1>3. ASSUME DP!DispatchStep, UNCHANGED <<engineVars, query>> PROVE Service!Next
    BY <1>1, <1>3, DispatchersDeliver DEF Service!Next
<1>4. CASE Dispatch
    BY <1>3, <1>4, SameDispatchers DEF Dispatch
<1>5. ASSUME NEW j \in jobs, PrepareOk(j) PROVE Service!Next
    BY <1>3, <1>5, SameDispatchers DEF PrepareOk
<1>6. CASE Query
    BY <1>6, QueryTells DEF Query, Service!Next
<1>7. ASSUME UNCHANGED <<pc, body, task, delivered, query>> PROVE UNCHANGED Service!vars
    BY <1>7, SeenSame DEF Service!vars
<1>8. Administer \/ UNCHANGED vars => UNCHANGED <<pc, body, task, delivered, query>>
    BY DEF Administer, E!Reload, E!CreateTemplate, E!DeleteTemplate, E!local, dispatcherVars,
           vars, engineVars
<1>9. QED
    BY <1>2, <1>4, <1>5, <1>6, <1>7, <1>8 DEF Next

(* Engine, dispatchers, template API and status queries keep, together and *)
(* in every order, with every failure, what the service promises.          *)
THEOREM ServiceIsImplemented == Spec => ImplementsService
BY JointAlways, ServiceInit, ServiceNext, PTL DEF Spec, ImplementsService

(* The steps named apart in ImplementsService are none to the clients.     *)
LEMMA ServiceAsSpecified == Spec => Service!Spec
BY JointAlways, ServiceInit, ServiceNext, PTL DEF Spec, Service!Spec

(* However many of the requests with one idempotency key are accepted,     *)
(* tasks are taken on, and messages sent, for one of them at most.         *)
THEOREM OneOrderForAKey == Spec => []Service!OneOrderPerKey
BY ServiceAsSpecified, ServiceKeepsOrders, PTL

(* A client that has been told one end of its notification is never told   *)
(* the other one, however the two reads of each query, the refreshes and   *)
(* the dispatchers interleave.                                             *)
THEOREM AnswersNeverTurn == Spec => Service!AnswersStand
BY ServiceAsSpecified, ServiceAnswersStand, PTL
=============================================================================
