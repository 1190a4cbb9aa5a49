------------------------------- MODULE Engine -------------------------------
(***************************************************************************)
(* Engine.SendNotification (pkg/engine/engine.go): what a POST of a        *)
(* notification does, statement by statement, while other requests, some   *)
(* with the same idempotency key, are served by any process on the same    *)
(* database, the configuration is hot reloaded and templates come and go.  *)
(*                                                                         *)
(* There is no transaction around the inserts: each is a step of its own,  *)
(* may fail with or without its effect, and the process may die between    *)
(* any two.  A request is named by the notification ID the engine makes    *)
(* for it; the recipient ID of an entry is its position in the request.    *)
(***************************************************************************)
EXTENDS Integers, Sequences

CONSTANTS Requests,     \* the uuid.New() of each call
          Keys, NoKey,  \* idempotency keys; an empty one
          Channels,     \* channel names
          Templates,    \* template names
          NoTemplate,   \* an empty one, which no row of templates has
          Bodies,       \* the payloads of clients
          NoBody,
          Configs,      \* what reloads set config.Channels to
          Faults        \* "db": a call may fail; "crash": a process may die

ChannelState  == {"enabled", "disabled", "absent"}
RecipientType == {"email", "phone", "user_id", "feishu_user_id",
                  "webhook", "feishu_webhook", "other"}

(* template is the map from channel to ChannelRequest.Template, recipients *)
(* the Type of each entry.                                                 *)
ASSUME EngineAssumption ==
    /\ NoKey \notin Keys
    /\ NoBody \notin Bodies
    /\ NoTemplate \notin Templates
    /\ "none" \notin Channels
    /\ \A b \in Bodies :
        /\ DOMAIN b = {"key", "template", "recipients"}
        /\ b.key \in Keys \cup {NoKey}
        /\ DOMAIN b.template \subseteq Channels
        /\ b.template \in [DOMAIN b.template -> Templates \cup {NoTemplate}]
        /\ b.recipients \in Seq(RecipientType)
    /\ Configs \subseteq [Channels -> ChannelState]
    /\ Faults \subseteq {"db", "crash"}

VARIABLES
    config,         \* config.Channels
    template,       \* the rows of templates: the channel of each, or "none"
    notifications,  \* the rows of notifications, by ID
    recipients,     \* the rows of notification_recipients
    tasks,          \* the rows of delivery_tasks
    pc,             \* where each request is, and its answer
    body,           \* its payload
    left,           \* the channels it has still to validate
    asked,          \* the channel whose template it is looking up
    pairs,          \* the (recipient, channel) pairs it has still to look at
    made,           \* the tasks it has generated
    failed,         \* history: the requests that met a database error or a crash
    off             \* history: the channels turned off since each request validated them

vars == <<config, template, notifications, recipients, tasks,
          pc, body, left, asked, pairs, made, failed, off>>

database == <<notifications, recipients, tasks>>
local    == <<body, left, asked, pairs, made>>

-----------------------------------------------------------------------------
(* pkg/adapter: the types of recipient that a channel can reach.           *)
RecipientIdentifierKeys(channel) ==
    CASE channel = "email"            -> {"email"}
      [] channel \in {"sms", "voice"} -> {"phone"}
      [] channel = "inapp"            -> {"user_id"}
      [] channel = "feishu_app"       -> {"feishu_user_id", "email"}
      [] channel = "feishu_webhook"   -> {"webhook", "feishu_webhook", "feishu_user_id", "email"}
      [] OTHER                        -> {}

(* A recipient is named by its position in the request.                    *)
Position == Nat \ {0}

Compatible(b, p) == b.recipients[p[1]] \in RecipientIdentifierKeys(p[2])

(* Mistake: the positions of recipients are off by one.                    *)
AllPairs_FromZero(b) == {i - 1 : i \in DOMAIN b.recipients} \X (DOMAIN b.template)

AllPairs(b) == (DOMAIN b.recipients) \X (DOMAIN b.template)

Answers  == {"accepted", "invalid", "error", "crashed"}
Served   == {"validate", "query", "notify", "reread", "recipients", "generate", "tasks"}

Outcomes == {"ok"} \cup (IF "db" \in Faults THEN {"failed", "unacknowledged"} ELSE {})

(* Control moves to pc[r] = next; an error is remembered.                  *)
Goto(r, next)     == pc' = [pc EXCEPT ![r] = next]
Remember(r, o)    == failed' = IF o = "ok" THEN failed ELSE failed \cup {r}
SameKey(r, s)     == body[s].key = body[r].key

(* The rows with the idempotency key of r.                                 *)
Holders(r) == {s \in notifications : SameKey(r, s)}

Init ==
    /\ config \in Configs
    /\ template \in [Templates -> Channels \cup {"none"}]
    /\ notifications = {} /\ recipients = {} /\ tasks = {}
    /\ pc = [r \in Requests |-> "idle"]
    /\ body = [r \in Requests |-> NoBody]
    /\ left = [r \in Requests |-> {}]
    /\ asked = [r \in Requests |-> "none"]
    /\ pairs = [r \in Requests |-> {}]
    /\ made = [r \in Requests |-> {}]
    /\ failed = {}
    /\ off = [r \in Requests |-> {}]

-----------------------------------------------------------------------------
WellFormed(b) == b.key # NoKey /\ DOMAIN b.template # {} /\ b.recipients # << >>

(* The handler calls SendNotification; the payload's own shape is checked. *)
Receive(r) ==
    /\ pc[r] = "idle"
    /\ \E b \in Bodies :
        /\ body' = [body EXCEPT ![r] = b]
        /\ left' = [left EXCEPT ![r] = DOMAIN b.template]
        /\ Goto(r, IF WellFormed(b) THEN "validate" ELSE "invalid")
    /\ UNCHANGED <<config, template, database, asked, pairs, made, failed, off>>

(* validateRequest, one channel in map order: the configuration is read,   *)
(* and the template must have a name...                                    *)
ValidateChannel(r) ==
    /\ pc[r] = "validate"
    /\ \E c \in left[r] :
        IF config[c] = "enabled" /\ body[r].template[c] # NoTemplate
        THEN /\ Goto(r, "query")
             /\ asked' = [asked EXCEPT ![r] = c]
             /\ off' = [off EXCEPT ![r] = @ \ {c}]
        ELSE Goto(r, "invalid") /\ UNCHANGED <<asked, off>>
    /\ UNCHANGED <<config, template, database, body, left, pairs, made, failed>>

(* Mistake: the channel of the template is not looked at. *)
Fits_AnyChannel(r) == template[body[r].template[asked[r]]] # "none"

Fits(r) == template[body[r].template[asked[r]]] = asked[r]

(* ... then the template.  An error of the query is taken for a missing    *)
(* template and answered as an invalid request.                            *)
ValidateTemplate(r) ==
    /\ pc[r] = "query"
    /\ \E o \in Outcomes :
        /\ Remember(r, o)
        /\ left' = [left EXCEPT ![r] = @ \ {asked[r]}]
        /\ Goto(r, IF o # "ok" \/ ~Fits(r) THEN "invalid"
                   ELSE IF left[r] \ {asked[r]} = {} THEN "notify"
                   ELSE "validate")
    /\ UNCHANGED <<config, template, database, body, asked, pairs, made, off>>

(* Mistake: idempotency_key is not UNIQUE. *)
Inserts_WithoutUnique(r) == TRUE

(* Mistake: the constraint is on a column all requests share. *)
Inserts_OnlyFirst(r) == notifications = {}

(* INSERT ... ON CONFLICT DO NOTHING, with UNIQUE (idempotency_key).       *)
Inserts(r) == Holders(r) = {}

InsertNotification(r) ==
    /\ pc[r] = "notify"
    /\ \E o \in Outcomes :
        /\ Remember(r, o)
        /\ notifications' = IF o # "failed" /\ Inserts(r)
                            THEN notifications \cup {r} ELSE notifications
        /\ Goto(r, IF o # "ok" THEN "error"
                   ELSE IF Inserts(r) THEN "recipients" ELSE "reread")
    /\ UNCHANGED <<config, template, recipients, tasks, local, off>>

(* The query of GetByIdempotencyKey fills a struct whose primary key is    *)
(* set already, and gorm adds a set primary key to the WHERE clause.       *)
Reread(r) == Holders(r) \cap {r}

(* On a conflict.  With another row's ID the request would be accepted as  *)
(* a repetition; with no row it ends in an error.                          *)
LoadExisting(r) ==
    /\ pc[r] = "reread"
    /\ \E o \in Outcomes :
        /\ Remember(r, o)
        /\ Goto(r, IF o = "ok" /\ Reread(r) # {} THEN "accepted" ELSE "error")
    /\ UNCHANGED <<config, template, database, local, off>>

(* Mistake: an error of the insert is only logged. *)
AfterRecipients_AnyEnd(o) == "generate"

AfterRecipients(o) == IF o = "ok" THEN "generate" ELSE "error"

InsertRecipients(r) ==
    /\ pc[r] = "recipients"
    /\ \E o \in Outcomes :
        /\ Remember(r, o)
        /\ recipients' = IF o = "failed" THEN recipients
                         ELSE recipients \cup ({r} \X (DOMAIN body[r].recipients))
        /\ Goto(r, AfterRecipients(o))
    /\ pairs' = [pairs EXCEPT ![r] = AllPairs(body[r])]
    /\ UNCHANGED <<config, template, notifications, tasks, body, left, asked, made, off>>

(* Mistake: the type of the recipient is not looked at. *)
Generates_AnyRecipient(r, p) == config[p[2]] = "enabled"

Generates(r, p) == config[p[2]] = "enabled" /\ Compatible(body[r], p)

(* generateDeliveryTasks reads the configuration again for every pair.     *)
GenerateTask(r) ==
    /\ pc[r] = "generate"
    /\ \E p \in pairs[r] :
        /\ made' = [made EXCEPT ![r] = IF Generates(r, p) THEN @ \cup {p} ELSE @]
        /\ pairs' = [pairs EXCEPT ![r] = @ \ {p}]
        /\ Goto(r, IF pairs[r] = {p} THEN "tasks" ELSE "generate")
    /\ UNCHANGED <<config, template, database, body, left, asked, failed, off>>

(* Mistake: an insert that fails is tried again. *)
AfterTasks_Retry(o) == IF o = "ok" THEN "accepted" ELSE "tasks"

AfterTasks(o) == IF o = "ok" THEN "accepted" ELSE "error"

(* One INSERT for all tasks, none if there is no task: the notification is *)
(* accepted all the same.                                                  *)
InsertTasks(r) ==
    /\ pc[r] = "tasks"
    /\ \E o \in IF made[r] = {} THEN {"ok"} ELSE Outcomes :
        /\ Remember(r, o)
        /\ tasks' = IF o = "failed" THEN tasks ELSE tasks \cup ({r} \X made[r])
        /\ Goto(r, AfterTasks(o))
    /\ UNCHANGED <<config, template, notifications, recipients, local, off>>

(* The process that serves r dies.                                         *)
Crash(r) ==
    /\ "crash" \in Faults
    /\ pc[r] \in Served
    /\ Goto(r, "crashed")
    /\ failed' = failed \cup {r}
    /\ UNCHANGED <<config, template, database, local, off>>

-----------------------------------------------------------------------------
(* ApplyHotReload replaces config.Channels.                                *)
Reload ==
    /\ config' \in Configs \ {config}
    /\ off' = [r \in Requests |-> IF pc[r] \in Served
                                  THEN off[r] \cup {c \in Channels : config'[c] # "enabled"}
                                  ELSE off[r]]
    /\ UNCHANGED <<template, database, pc, local, failed>>

(* The template API: POST and DELETE; PUT never changes the channel.       *)
CreateTemplate(n) ==
    /\ template[n] = "none"
    /\ \E c \in Channels : template' = [template EXCEPT ![n] = c]
    /\ UNCHANGED <<config, database, pc, local, failed, off>>

DeleteTemplate(n) ==
    /\ template[n] # "none"
    /\ template' = [template EXCEPT ![n] = "none"]
    /\ UNCHANGED <<config, database, pc, local, failed, off>>

Step(r) ==
    \/ ValidateChannel(r) \/ ValidateTemplate(r)
    \/ InsertNotification(r) \/ LoadExisting(r) \/ InsertRecipients(r)
    \/ GenerateTask(r) \/ InsertTasks(r)

Next ==
    \/ \E r \in Requests : Receive(r) \/ Step(r) \/ Crash(r)
    \/ Reload
    \/ \E n \in Templates : CreateTemplate(n) \/ DeleteTemplate(n)

Spec == Init /\ [][Next]_vars

-----------------------------------------------------------------------------
TypeOK ==
    /\ config \in [Channels -> ChannelState]
    /\ template \in [Templates -> Channels \cup {"none"}]
    /\ notifications \subseteq Requests
    /\ recipients \subseteq Requests \X Position
    /\ tasks \subseteq Requests \X (Position \X Channels)
    /\ pc \in [Requests -> Served \cup Answers \cup {"idle"}]
    /\ body \in [Requests -> Bodies \cup {NoBody}]
    /\ left \in [Requests -> SUBSET Channels]
    /\ asked \in [Requests -> Channels \cup {"none"}]
    /\ pairs \in [Requests -> SUBSET (Position \X Channels)]
    /\ made \in [Requests -> SUBSET (Position \X Channels)]
    /\ failed \subseteq Requests
    /\ off \in [Requests -> SUBSET Channels]

(* However many requests with one key are served at a time, in whichever   *)
(* processes, and however they fail, the tasks with that key come from one *)
(* of them only: no message is sent twice (engine.go:118-156).             *)
KeyRunsOnce ==
    \A s, t \in tasks : SameKey(s[1], t[1]) => s[1] = t[1]

Wanted(b) == {p \in AllPairs(b) : Compatible(b, p)}

(* A request is accepted with a task for exactly the pairs of a recipient  *)
(* and a channel that can reach it; only a channel that a reload turned    *)
(* off after it was validated may be left out (engine.go:212-262).         *)
AcceptedIsExact ==
    \A r \in Requests : pc[r] = "accepted" =>
        /\ \A t \in tasks : t[1] = r => t[2] \in Wanted(body[r])
        /\ \A p \in Wanted(body[r]) : <<r, p>> \in tasks \/ p[2] \in off[r]

(* A request that meets no failure, and is answered by an error all the    *)
(* same, finds its key taken by a request that is still being served, was  *)
(* accepted or met a failure: without failures no key is lost              *)
(* (engine.go:126-141).                                                    *)
KeyLostOnlyByFailure ==
    \A r \in Requests :
        pc[r] \in {"accepted", "error"} /\ r \notin failed =>
            \E s \in notifications :
                SameKey(r, s) /\ (s \in failed \/ pc[s] \in Served \cup {"accepted"})

-----------------------------------------------------------------------------
(* What the documentation says, and the code does not do.                  *)

(* docs/notification-center-workflow.md:225: a repeated request returns    *)
(* the existing notification.                                              *)
DuplicateReturnsExisting ==
    \A r \in Requests : pc[r] = "error" /\ r \notin failed => Holders(r) \subseteq {r}

(* README.md:152 "repeated requests with the same key run once": once the  *)
(* requests with a key are answered, and one of them met no failure, the   *)
(* key has run.                                                            *)
RetryRuns ==
    \A r \in Requests :
        (/\ pc[r] \in {"accepted", "error"} /\ r \notin failed
         /\ \A s \in Requests : body[s] # NoBody /\ SameKey(r, s) => pc[s] \in Answers)
        => \E t \in tasks : SameKey(r, t[1])
=============================================================================
