-------------------------------- MODULE Notify --------------------------------
(***************************************************************************)
(* The whole way of a notification: the engine (module Engine) and the     *)
(* dispatchers (module Dispatcher) share the tables of one database, the   *)
(* template API changes templates under both, and a client asks for the    *)
(* status.  A task is named by its request, recipient and channel.         *)
(***************************************************************************)
EXTENDS Naturals, Sequences, FiniteSets

CONSTANTS Requests, Keys, NoKey, Channels, Templates, NoTemplate, Bodies, NoBody,
          Configs, EngineFaults, Tasks, MaxRetry, Dispatchers, NoOwner, RetryBackoffSeconds,
          LeaseTimeout, BatchSize, Webhooks, Replicas, DispatcherFaults

VARIABLES
    config, template, notifications, recipients,
    pc, body, left, asked, pairs, made, failed, off,    \* of the engine
    task, notif, phase, loop, tx, jobs, attempts, claims, delivered,
    query,          \* a call of GetNotificationStatus
    replaced,       \* history: the channels whose template was deleted since it was validated
    misrendered     \* history: the tasks rendered with a template of another channel

engineVars ==
    <<config, template, notifications, recipients, pc, body, left, asked, pairs, made, failed, off>>
dispatcherVars == <<task, notif, phase, loop, tx, jobs, attempts, claims, delivered>>
vars == <<engineVars, dispatcherVars, query, replaced, misrendered>>

(* The rows of delivery_tasks belong to both.                              *)
Stored == {t \in Tasks : task[t].status # "absent"}

E == INSTANCE Engine WITH tasks <- Stored, Faults <- EngineFaults

D == INSTANCE Dispatcher WITH Notifications <- Requests,
                              NotificationOf <- [t \in Tasks |-> t[1]],
                              Faults <- DispatcherFaults

ASSUME NotifyAssumption ==
    /\ Tasks \subseteq Requests \X (E!Position \X Channels)
    /\ E!EngineAssumption /\ D!StoreAssumption /\ D!DispatcherAssumption

-----------------------------------------------------------------------------
(* What a task refers to. *)
Recipient(t) == <<t[1], t[2][1]>>
Channel(t)   == t[2][2]
Template(t)  == template[body[t[1]].template[Channel(t)]]

NoQuery == [pc |-> "idle", request |-> {}, verdict |-> "pending", statuses |-> {}]

Init ==
    /\ D!Init
    /\ E!Init
    /\ query = NoQuery
    /\ replaced = [r \in Requests |-> {}]
    /\ misrendered = {}

-----------------------------------------------------------------------------
(* The engine serves a request; it inserts rows in InsertTasks only.       *)
Serve(r) ==
    /\ UNCHANGED dispatcherVars
    /\ \/ E!ValidateTemplate(r) /\ replaced' = [replaced EXCEPT ![r] = @ \ {asked[r]}]
       \/ /\ \/ E!Receive(r) \/ E!ValidateChannel(r) \/ E!InsertNotification(r)
             \/ E!LoadExisting(r) \/ E!InsertRecipients(r) \/ E!GenerateTask(r)
             \/ E!InsertTasks(r) \/ E!Crash(r)
          /\ UNCHANGED replaced
    /\ UNCHANGED <<query, misrendered>>

InsertTasks(r) ==
    /\ task' = [t \in Tasks |-> IF t \in {r} \X made[r] THEN D!NewRow ELSE task[t]]
    /\ UNCHANGED <<notif, phase, loop, tx, jobs, attempts, claims, delivered>>
    /\ E!InsertTasks(r)
    /\ UNCHANGED <<query, replaced, misrendered>>

(* The operators of the service change the configuration and templates.    *)
Uses(r, n) == {c \in DOMAIN body[r].template : body[r].template[c] = n}

Administer ==
    /\ UNCHANGED dispatcherVars
    /\ \/ E!Reload /\ UNCHANGED replaced
       \/ \E n \in Templates : E!CreateTemplate(n) /\ UNCHANGED replaced
       \/ \E n \in Templates :
            /\ E!DeleteTemplate(n)
            /\ replaced' = [r \in Requests |-> IF pc[r] \in {"idle", "invalid"} THEN replaced[r]
                                               ELSE replaced[r] \cup Uses(r, n)]
    /\ UNCHANGED <<query, misrendered>>

-----------------------------------------------------------------------------
(* processTask finds the recipient and the template; whose channel the     *)
(* template has is not looked at.                                          *)
PrepareOk(j) ==
    /\ Recipient(j.task) \in recipients
    /\ Template(j.task) # "none"
    /\ D!PrepareOk(j)
    /\ misrendered' = IF Template(j.task) = Channel(j.task) THEN misrendered
                      ELSE misrendered \cup {j.task}
    /\ UNCHANGED <<engineVars, query, replaced>>

(* Everything else the dispatchers do.                                     *)
Dispatch ==
    /\ \/ \E d \in Dispatchers :
            \/ D!Start(d) \/ D!Terminate(d) \/ D!LoopExit(d) \/ D!StopReturns(d) \/ D!Crash(d)
            \/ D!LoopStep(d)
       \/ \E j \in jobs :
            \/ D!PrepareFails(j) \/ D!SendReturns(j) \/ D!RecordAttempt(j)
            \/ D!UpdateTask(j) \/ D!JobCount(j) \/ D!JobWrite(j)
       \/ D!Tick
    /\ UNCHANGED <<engineVars, query, replaced, misrendered>>

-----------------------------------------------------------------------------
(* GetNotificationStatus, of a notification whose ID was in the answer to  *)
(* its request: the row is read ...                                        *)
Asks(r) ==
    /\ query.pc \in {"idle", "answered"}
    /\ pc[r] = "accepted"

TaskStatuses(r) == {task[t].status : t \in {u \in Stored : u[1] = r}}

(* Mistake: the tasks are read before the row. *)
Read_TasksFirst(r) ==
    \/ /\ Asks(r)
       /\ query' = [NoQuery EXCEPT !.pc = "second", !.request = {r}, !.statuses = TaskStatuses(r)]
    \/ /\ query.pc = "second" /\ query.request = {r}
       /\ query' = [query EXCEPT !.pc = "answered", !.verdict = notif[r]]

(* ... and then its tasks.                                                 *)
Read(r) ==
    \/ /\ Asks(r)
       /\ query' = [NoQuery EXCEPT !.pc = "second", !.request = {r}, !.verdict = notif[r]]
    \/ /\ query.pc = "second" /\ query.request = {r}
       /\ query' = [query EXCEPT !.pc = "answered", !.statuses = TaskStatuses(r)]

Query ==
    /\ \E r \in Requests : Read(r)
    /\ UNCHANGED <<engineVars, dispatcherVars, replaced, misrendered>>

Next ==
    \/ \E r \in Requests : Serve(r) \/ InsertTasks(r)
    \/ Administer
    \/ \E j \in jobs : PrepareOk(j)
    \/ Dispatch
    \/ Query

Spec == Init /\ [][Next]_vars

-----------------------------------------------------------------------------
TypeOK ==
    /\ E!TypeOK
    /\ D!TypeOK
    /\ query \in [pc : {"idle", "second", "answered"}, request : SUBSET Requests,
                  verdict : D!NotificationStatus, statuses : SUBSET (D!TaskStatus \ {"absent"})]
    /\ replaced \in [Requests -> SUBSET Channels]
    /\ misrendered \subseteq Tasks

(* Nothing is delivered for two requests with one key, however they and    *)
(* the dispatchers interleave and fail (engine.go:118-156).                *)
KeyDeliveredOnce ==
    \A s, t \in Tasks :
        delivered[s] # "no" /\ delivered[t] # "no" /\ body[s[1]].key = body[t[1]].key => s[1] = t[1]

(* A worker finds the recipient of its task: no failure between the three  *)
(* inserts leaves tasks without recipients (engine.go:126-156,             *)
(* dispatcher.go:207).  The order of the inserts is enough for it; the     *)
(* foreign key of the schema (postgres.go:162), which is not modelled,     *)
(* secures it as well.                                                     *)
RecipientFound == \A j \in jobs : Recipient(j.task) \in recipients

(* A message is rendered with a template of its channel, unless the        *)
(* template was deleted, and another made with its name, after the request *)
(* was validated (engine.go:192-205, dispatcher.go:215).                   *)
RenderedForItsChannel == \A t \in misrendered : Channel(t) \in replaced[t[1]]

(* The status and the tasks of one answer agree whenever the status is     *)
(* final, although a dispatcher may work between the two reads             *)
(* (engine.go:265-283).                                                    *)
QuerySound ==
    query.pc = "answered" =>
        /\ query.verdict = "success" => query.statuses = {"success"}
        /\ query.verdict = "failed" => /\ "dead" \in query.statuses
                                       /\ query.statuses \subseteq D!Terminal

(* The engine is the client the dispatchers count on: it inserts the tasks *)
(* of a notification once and never touches a row again (D!Spec; TLC looks *)
(* at the steps that the dispatchers do not see first).                    *)
ServesDispatcher == D!Init /\ [][UNCHANGED D!vars \/ D!Next]_(D!vars)

-----------------------------------------------------------------------------
(* The service as its clients see it: what they get is an answer, a        *)
(* message or a status.                                                    *)
StageName == [idle |-> "idle", accepted |-> "accepted",
              validate |-> "open", query |-> "open", notify |-> "open", reread |-> "open",
              recipients |-> "open", generate |-> "open", tasks |-> "open",
              invalid |-> "refused", error |-> "refused", crashed |-> "refused"]

Stage == [r \in Requests |-> StageName[pc[r]]]
Key   == [r \in Requests |-> IF pc[r] = "idle" THEN NoKey ELSE body[r].key]

ProgressName == [absent |-> "none", pending |-> "due", failed |-> "due", processing |-> "due",
                 success |-> "delivered", dead |-> "dead"]

Progress == [t \in Tasks |-> ProgressName[task[t].status]]

Told ==
    IF query.pc # "answered" THEN {}
    ELSE {[request |-> r, verdict |-> query.verdict,
           progress |-> {ProgressName[s] : s \in query.statuses}] : r \in query.request}

Service == INSTANCE NotificationService
           WITH RequestOf <- [t \in Tasks |-> t[1]], stage <- Stage, key <- Key,
                progress <- Progress, sent <- delivered, told <- Told

(* Engine, dispatchers, template API and status queries together keep the  *)
(* promise, whatever fails and in whichever order they work (Service!Spec; *)
(* TLC looks at the steps that the clients do not see first).              *)
ImplementsService ==
    Service!Init /\ [][UNCHANGED <<Stage, Key, Progress, delivered, query>> \/ Service!Next]_(Service!vars)
=============================================================================
