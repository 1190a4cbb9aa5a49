---------------------------- MODULE EngineProofs ----------------------------
(***************************************************************************)
(* Theorems of Engine, for any requests, payloads, configurations and      *)
(* faults.  IInv is inductive: each conjunct that a step can disturb has a *)
(* lemma with one step per action.                                         *)
(***************************************************************************)
EXTENDS EngineInvariant, TLAPS

(* What the assumption says of one payload.                                *)
LEMMA BodyFacts ==
    ASSUME NEW b \in Bodies
    PROVE  /\ b # NoBody
           /\ DOMAIN b.template \subseteq Channels
           /\ DOMAIN b.recipients \subseteq Position
           /\ AllPairs(b) \subseteq Position \X Channels
           /\ Wanted(b) \subseteq AllPairs(b)
<1>1. b # NoBody /\ DOMAIN b.template \subseteq Channels /\ b.recipients \in Seq(RecipientType)
    BY EngineAssumption
<1>2. DOMAIN b.recipients \subseteq Position
    BY <1>1 DEF Position
<1>3. AllPairs(b) \subseteq Position \X Channels
    BY <1>1, <1>2 DEF AllPairs
<1> QED BY <1>1, <1>2, <1>3 DEF Wanted

LEMMA TypeInit == Init => TypeOK /\ BodyInv
BY EngineAssumption DEF Init, TypeOK, BodyInv, Served, Answers

LEMMA TypeNext ==
    ASSUME TypeOK, BodyInv, Next
    PROVE  TypeOK' /\ BodyInv'
<1> USE DEF Goto, Remember, database, local
<1>1. ASSUME NEW r \in Requests, Receive(r) PROVE TypeOK' /\ BodyInv'
    <2>1. PICK b \in Bodies : /\ body' = [body EXCEPT ![r] = b]
                              /\ left' = [left EXCEPT ![r] = DOMAIN b.template]
                              /\ Goto(r, IF WellFormed(b) THEN "validate" ELSE "invalid")
        BY <1>1 DEF Receive
    <2>2. DOMAIN b.template \in SUBSET Channels
        BY BodyFacts
    <2>3. pc' \in [Requests -> Served \cup Answers \cup {"idle"}]
        BY <2>1 DEF TypeOK, Served, Answers
    <2> QED BY <1>1, <2>1, <2>2, <2>3 DEF Receive, TypeOK, BodyInv
<1>2. ASSUME NEW r \in Requests, ValidateChannel(r) PROVE TypeOK' /\ BodyInv'
    BY <1>2 DEF ValidateChannel, TypeOK, BodyInv, Served, Answers
<1>3. ASSUME NEW r \in Requests, ValidateTemplate(r) PROVE TypeOK' /\ BodyInv'
    BY <1>3 DEF ValidateTemplate, TypeOK, BodyInv, Served, Answers
<1>4. ASSUME NEW r \in Requests, InsertNotification(r) PROVE TypeOK' /\ BodyInv'
    BY <1>4 DEF InsertNotification, TypeOK, BodyInv, Served, Answers
<1>5. ASSUME NEW r \in Requests, LoadExisting(r) PROVE TypeOK' /\ BodyInv'
    BY <1>5 DEF LoadExisting, TypeOK, BodyInv, Served, Answers
<1>6. ASSUME NEW r \in Requests, InsertRecipients(r) PROVE TypeOK' /\ BodyInv'
    <2>1. body[r] \in Bodies
        BY <1>6 DEF InsertRecipients, BodyInv
    <2>2. /\ {r} \X (DOMAIN body[r].recipients) \subseteq Requests \X Position
          /\ AllPairs(body[r]) \in SUBSET (Position \X Channels)
        BY <2>1, BodyFacts
    <2> QED BY <1>6, <2>2 DEF InsertRecipients, AfterRecipients, TypeOK, BodyInv, Served, Answers
<1>7. ASSUME NEW r \in Requests, GenerateTask(r) PROVE TypeOK' /\ BodyInv'
    BY <1>7 DEF GenerateTask, TypeOK, BodyInv, Served, Answers
<1>8. ASSUME NEW r \in Requests, InsertTasks(r) PROVE TypeOK' /\ BodyInv'
    <2>1. {r} \X made[r] \subseteq Requests \X (Position \X Channels)
        BY DEF TypeOK
    <2> QED BY <1>8, <2>1 DEF InsertTasks, AfterTasks, TypeOK, BodyInv, Served, Answers
<1>9. ASSUME NEW r \in Requests, Crash(r) PROVE TypeOK' /\ BodyInv'
    BY <1>9 DEF Crash, TypeOK, BodyInv, Served, Answers
<1>10. ASSUME Reload PROVE TypeOK' /\ BodyInv'
    BY <1>10, EngineAssumption DEF Reload, TypeOK, BodyInv
<1>11. ASSUME NEW n \in Templates, CreateTemplate(n) \/ DeleteTemplate(n) PROVE TypeOK' /\ BodyInv'
    BY <1>11 DEF CreateTemplate, DeleteTemplate, TypeOK, BodyInv
<1> QED BY <1>1, <1>2, <1>3, <1>4, <1>5, <1>6, <1>7, <1>8, <1>9, <1>10, <1>11 DEF Next, Step

-----------------------------------------------------------------------------
(* The rows of the database.  Only the inserts write them, and a payload   *)
(* never changes once it is received.                                      *)
Stored == StoredInv /\ KeyInv

LEMMA StoredNext ==
    ASSUME TypeOK, BodyInv, Stored, Next
    PROVE  Stored'
<1> USE DEF Goto, Remember, database, local, Unstored, Untasked
<1>1. ASSUME NEW r \in Requests, Receive(r) PROVE Stored'
    <2>1. r \notin notifications
        BY <1>1 DEF Receive, Stored, StoredInv
    <2>2. \A s \in Requests \ {r} : body'[s] = body[s] /\ pc'[s] = pc[s]
        BY <1>1 DEF Receive, TypeOK
    <2>3. UNCHANGED <<notifications, tasks>> /\ pc'[r] \in {"validate", "invalid"}
        BY <1>1 DEF Receive, TypeOK
    <2> QED BY <2>1, <2>2, <2>3 DEF Stored, StoredInv, KeyInv, SameKey, TypeOK
<1>2. ASSUME NEW r \in Requests, ValidateChannel(r) \/ ValidateTemplate(r) \/ GenerateTask(r)
      PROVE  Stored'
    <2>1. /\ pc[r] \in Unstored => r \notin notifications
          /\ \A t \in tasks : t[1] # r
          /\ UNCHANGED <<notifications, tasks, body>>
        BY <1>2 DEF ValidateChannel, ValidateTemplate, GenerateTask, Stored, StoredInv
    <2>2. pc[r] = "generate" => pc'[r] \in {"generate", "tasks"}
        BY <1>2 DEF ValidateChannel, ValidateTemplate, GenerateTask, TypeOK
    <2>3. pc[r] # "generate" => /\ pc[r] \in Unstored
                                /\ pc'[r] \in {"validate", "query", "notify", "invalid"}
        BY <1>2 DEF ValidateChannel, ValidateTemplate, GenerateTask, TypeOK
    <2>4. \A s \in Requests \ {r} : pc'[s] = pc[s]
        BY <1>2 DEF ValidateChannel, ValidateTemplate, GenerateTask, TypeOK
    <2> QED BY <2>1, <2>2, <2>3, <2>4 DEF Stored, StoredInv, KeyInv, SameKey, TypeOK
<1>3. ASSUME NEW r \in Requests, InsertNotification(r) PROVE Stored'
    <2>1. /\ r \notin notifications
          /\ \A t \in tasks : t[1] # r
          /\ UNCHANGED <<tasks, body>>
          /\ \A s \in Requests \ {r} : pc'[s] = pc[s]
        BY <1>3 DEF InsertNotification, Stored, StoredInv, TypeOK
    <2>2. CASE notifications' = notifications
        <3>1. pc'[r] \in {"error", "reread"}
            BY <1>3, <2>1, <2>2 DEF InsertNotification, TypeOK
        <3> QED BY <2>1, <2>2, <3>1 DEF Stored, StoredInv, KeyInv, SameKey, TypeOK
    <2>3. CASE notifications' # notifications
        <3>1. notifications' = notifications \cup {r} /\ Inserts(r)
            BY <1>3, <2>3 DEF InsertNotification
        <3>2. \A s \in notifications : ~SameKey(r, s) /\ ~SameKey(s, r)
            BY <3>1 DEF Inserts, Holders, SameKey
        <3>3. pc'[r] \in {"error", "recipients"}
            BY <1>3, <3>1 DEF InsertNotification, TypeOK
        <3> QED BY <2>1, <3>1, <3>2, <3>3 DEF Stored, StoredInv, KeyInv, SameKey, TypeOK
    <2> QED BY <2>2, <2>3
<1>4. ASSUME NEW r \in Requests, LoadExisting(r) PROVE Stored'
    <2>1. r \notin notifications /\ \A t \in tasks : t[1] # r
        BY <1>4 DEF LoadExisting, Stored, StoredInv
    <2>2. /\ UNCHANGED <<notifications, tasks, body>>
          /\ \A s \in Requests \ {r} : pc'[s] = pc[s]
          /\ pc'[r] \in {"accepted", "error"}
        BY <1>4 DEF LoadExisting, TypeOK
    <2> QED BY <2>1, <2>2 DEF Stored, StoredInv, KeyInv, SameKey, TypeOK
<1>5. ASSUME NEW r \in Requests, InsertRecipients(r) PROVE Stored'
    <2>1. r \in notifications /\ \A t \in tasks : t[1] # r
        BY <1>5 DEF InsertRecipients, Stored, StoredInv
    <2>2. /\ UNCHANGED <<notifications, tasks, body>>
          /\ \A s \in Requests \ {r} : pc'[s] = pc[s]
          /\ pc'[r] \in {"generate", "error"}
        BY <1>5 DEF InsertRecipients, AfterRecipients, TypeOK
    <2> QED BY <2>1, <2>2 DEF Stored, StoredInv, KeyInv, SameKey, TypeOK
<1>6. ASSUME NEW r \in Requests, InsertTasks(r) PROVE Stored'
    <2>1. /\ UNCHANGED <<notifications, body>>
          /\ \A s \in Requests \ {r} : pc'[s] = pc[s]
          /\ pc[r] = "tasks"
          /\ pc'[r] \in {"accepted", "error"}
          /\ \A t \in tasks' : t \in tasks \/ t[1] = r
        BY <1>6 DEF InsertTasks, AfterTasks, TypeOK
    <2>2. r \in notifications
        BY <2>1 DEF Stored, StoredInv
    <2> QED BY <2>1, <2>2 DEF Stored, StoredInv, KeyInv, SameKey, TypeOK
<1>7. ASSUME NEW r \in Requests, Crash(r) PROVE Stored'
    BY <1>7 DEF Crash, Stored, StoredInv, KeyInv, SameKey, TypeOK, Served
<1>8. ASSUME Reload PROVE Stored'
    BY <1>8 DEF Reload, Stored, StoredInv, KeyInv, SameKey
<1>9. ASSUME NEW n \in Templates, CreateTemplate(n) \/ DeleteTemplate(n) PROVE Stored'
    BY <1>9 DEF CreateTemplate, DeleteTemplate, Stored, StoredInv, KeyInv, SameKey
<1> QED BY <1>1, <1>2, <1>3, <1>4, <1>5, <1>6, <1>7, <1>8, <1>9 DEF Next, Step

-----------------------------------------------------------------------------
(* What a step of r leaves alone of the other requests.                    *)
Apart(r) == \A s \in Requests \ {r} :
                /\ pc'[s] = pc[s] /\ body'[s] = body[s]
                /\ left'[s] = left[s] /\ asked'[s] = asked[s]
                /\ pairs'[s] = pairs[s] /\ made'[s] = made[s] /\ off'[s] = off[s]

LEMMA StepsAreLocal ==
    ASSUME TypeOK, NEW r \in Requests, Receive(r) \/ Step(r) \/ Crash(r)
    PROVE  Apart(r) /\ config' = config
BY DEF TypeOK, Apart, Receive, Step, Crash, ValidateChannel, ValidateTemplate, InsertNotification,
       LoadExisting, InsertRecipients, GenerateTask, InsertTasks, Goto, database, local

LEMMA ValidatedNext ==
    ASSUME TypeOK, BodyInv, ValidatedInv, Next
    PROVE  ValidatedInv'
<1> USE DEF Goto, database, local
<1>1. ASSUME NEW r \in Requests, Receive(r) \/ Step(r) \/ Crash(r), Validated(r)'
      PROVE  ValidatedInv'
    <2>1. Apart(r) /\ config' = config
        BY <1>1, StepsAreLocal
    <2>2. ASSUME NEW s \in Requests \ {r} PROVE Validated(s)'
        <3>1. Validated(s)
            BY DEF ValidatedInv
        <3>2. /\ pc'[s] = pc[s] /\ Checked(s)' = Checked(s) /\ off'[s] = off[s]
              /\ asked'[s] = asked[s] /\ left'[s] = left[s]
            BY <2>1 DEF Apart, Checked
        <3> QED BY <2>1, <3>1, <3>2 DEF Validated
    <2> QED BY <1>1, <2>2 DEF ValidatedInv
<1>2. ASSUME NEW r \in Requests, Receive(r) PROVE ValidatedInv'
    <2>1. pc'[r] = "validate" => left'[r] = DOMAIN body'[r].template
        BY <1>2 DEF Receive, TypeOK
    <2>2. pc'[r] \in {"validate", "invalid"}
        BY <1>2 DEF Receive, TypeOK
    <2>3. Validated(r)'
        BY <2>1, <2>2 DEF Validated, Checked, Served
    <2> QED BY <1>1, <1>2, <2>3
<1>3. ASSUME NEW r \in Requests, ValidateChannel(r) PROVE ValidatedInv'
    <2>1. Validated(r)
        BY DEF ValidatedInv
    <2>2. PICK c \in left[r] :
            \/ /\ config[c] = "enabled"
               /\ pc' = [pc EXCEPT ![r] = "query"]
               /\ asked' = [asked EXCEPT ![r] = c]
               /\ off' = [off EXCEPT ![r] = @ \ {c}]
            \/ pc' = [pc EXCEPT ![r] = "invalid"]
        BY <1>3 DEF ValidateChannel
    <2>3. CASE /\ config[c] = "enabled"
               /\ pc' = [pc EXCEPT ![r] = "query"]
               /\ asked' = [asked EXCEPT ![r] = c]
               /\ off' = [off EXCEPT ![r] = @ \ {c}]
        <3>1. /\ pc[r] = "validate" /\ pc'[r] = "query" /\ asked'[r] = c
              /\ off'[r] = off[r] \ {c} /\ UNCHANGED <<config, body, left>>
            BY <1>3, <2>2, <2>3 DEF ValidateChannel, TypeOK
        <3> QED BY <1>1, <1>3, <2>1, <2>3, <3>1 DEF Validated, Checked, Served, Step
    <2>4. CASE pc' = [pc EXCEPT ![r] = "invalid"]
        <3>1. pc'[r] = "invalid"
            BY <2>4 DEF TypeOK
        <3> QED BY <1>1, <1>3, <3>1 DEF Validated, Served, Step
    <2> QED BY <2>2, <2>3, <2>4
<1>4. ASSUME NEW r \in Requests, ValidateTemplate(r) PROVE ValidatedInv'
    <2>1. Validated(r)
        BY DEF ValidatedInv
    <2>2. /\ pc[r] = "query"
          /\ left'[r] = left[r] \ {asked[r]}
          /\ UNCHANGED <<config, body, asked, off>>
          /\ pc'[r] \in {"invalid", "notify", "validate"}
          /\ pc'[r] = "notify" => left[r] \ {asked[r]} = {}
        BY <1>4 DEF ValidateTemplate, TypeOK
    <2>3. Validated(r)'
        BY <2>1, <2>2 DEF Validated, Checked, Served
    <2> QED BY <1>1, <1>4, <2>3 DEF Step
<1>5. ASSUME NEW r \in Requests,
             \/ InsertNotification(r) \/ LoadExisting(r) \/ InsertRecipients(r)
             \/ GenerateTask(r) \/ InsertTasks(r)
      PROVE  ValidatedInv'
    <2>1. Validated(r)
        BY DEF ValidatedInv
    <2>2. /\ pc[r] \in Served \ {"validate", "query"}
          /\ pc'[r] \notin {"validate", "query"}
          /\ UNCHANGED <<config, body, off>>
        BY <1>5 DEF InsertNotification, LoadExisting, InsertRecipients, GenerateTask, InsertTasks,
                    AfterRecipients, AfterTasks, TypeOK, Served
    <2>3. Validated(r)'
        BY <2>1, <2>2 DEF Validated, Checked
    <2> QED BY <1>1, <1>5, <2>3 DEF Step
<1>6. ASSUME NEW r \in Requests, Crash(r) PROVE ValidatedInv'
    <2>1. pc'[r] = "crashed"
        BY <1>6 DEF Crash, TypeOK
    <2> QED BY <1>1, <1>6, <2>1 DEF Validated, Served
<1>7. ASSUME Reload PROVE ValidatedInv'
    <2>1. ASSUME NEW r \in Requests PROVE Validated(r)'
        <3>1. /\ Validated(r) /\ pc'[r] = pc[r] /\ Checked(r)' = Checked(r)
              /\ asked'[r] = asked[r] /\ left'[r] = left[r]
            BY <1>7 DEF Reload, ValidatedInv, Checked
        <3>2. pc[r] \in Served =>
                off'[r] = off[r] \cup {c \in Channels : config'[c] # "enabled"}
            BY <1>7 DEF Reload
        <3>3. pc[r] \in Served => Checked(r) \subseteq Channels
            <4>1. pc[r] \in Served => body[r] \in Bodies
                BY DEF BodyInv, Served
            <4> QED BY <3>1, <4>1, BodyFacts DEF Checked, TypeOK, Validated
        <3> QED BY <3>1, <3>2, <3>3 DEF Validated
    <2> QED BY <2>1 DEF ValidatedInv
<1>8. ASSUME NEW n \in Templates, CreateTemplate(n) \/ DeleteTemplate(n) PROVE ValidatedInv'
    BY <1>8 DEF CreateTemplate, DeleteTemplate, ValidatedInv, Validated, Checked
<1> QED BY <1>2, <1>3, <1>4, <1>5, <1>6, <1>7, <1>8 DEF Next, Step

-----------------------------------------------------------------------------
LEMMA GeneratedNext ==
    ASSUME TypeOK, BodyInv, ValidatedInv, GeneratedInv, Next
    PROVE  GeneratedInv'
<1> USE DEF Goto, database, local
<1>1. ASSUME NEW r \in Requests, Receive(r) \/ Step(r) \/ Crash(r), Generated(r)'
      PROVE  GeneratedInv'
    <2>1. Apart(r)
        BY <1>1, StepsAreLocal
    <2>2. ASSUME NEW s \in Requests \ {r} PROVE Generated(s)'
        BY <2>1 DEF Apart, GeneratedInv, Generated, Unseen
    <2> QED BY <1>1, <2>2 DEF GeneratedInv
<1>2. ASSUME NEW r \in Requests, Receive(r) \/ ValidateChannel(r) \/ ValidateTemplate(r)
                                 \/ InsertNotification(r) \/ LoadExisting(r)
      PROVE  GeneratedInv'
    <2>1. /\ pc[r] \in Untasked \ {"generate", "tasks"}
          /\ pc'[r] \notin {"generate", "tasks"}
          /\ made' = made
        BY <1>2 DEF Receive, ValidateChannel, ValidateTemplate, InsertNotification, LoadExisting,
                    TypeOK, Untasked, Unstored
    <2>2. Generated(r)'
        BY <2>1 DEF GeneratedInv, Generated
    <2> QED BY <1>1, <1>2, <2>2 DEF Step
<1>3. ASSUME NEW r \in Requests, InsertRecipients(r) PROVE GeneratedInv'
    <2>1. /\ pc[r] = "recipients" /\ pc'[r] \in {"generate", "error"}
          /\ UNCHANGED <<made, body>> /\ pairs'[r] = AllPairs(body[r])
        BY <1>3 DEF InsertRecipients, AfterRecipients, TypeOK
    <2>2. made[r] = {}
        BY <2>1 DEF GeneratedInv, Generated, Untasked, Unstored
    <2>3. Generated(r)'
        BY <2>1, <2>2 DEF Generated, Unseen, Wanted, AllPairs, Untasked, Unstored
    <2> QED BY <1>1, <1>3, <2>3 DEF Step
<1>4. ASSUME NEW r \in Requests, GenerateTask(r) PROVE GeneratedInv'
    <2>1. /\ pc[r] = "generate"
          /\ UNCHANGED <<config, body, off>>
        BY <1>4 DEF GenerateTask
    <2>2. PICK p \in pairs[r] :
            /\ made'[r] = IF Generates(r, p) THEN made[r] \cup {p} ELSE made[r]
            /\ pairs'[r] = pairs[r] \ {p}
            /\ pc'[r] = IF pairs[r] = {p} THEN "tasks" ELSE "generate"
        BY <1>4 DEF GenerateTask, TypeOK
    <2>3. /\ made[r] \subseteq Wanted(body[r])
          /\ \A q \in Wanted(body[r]) \ pairs[r] : q \in made[r] \/ q[2] \in off[r]
          /\ pairs[r] \subseteq AllPairs(body[r])
        BY <2>1 DEF GeneratedInv, Generated, Unseen
    <2>4. made'[r] \subseteq Wanted(body[r])
        BY <2>2, <2>3 DEF Generates, Wanted
    <2>5. p \in Wanted(body[r]) => p \in made'[r] \/ p[2] \in off[r]
        <3>1. p[2] \in DOMAIN body[r].template
            BY <2>3 DEF AllPairs
        <3>2. config[p[2]] = "enabled" \/ p[2] \in off[r]
            BY <2>1, <3>1 DEF ValidatedInv, Validated, Checked, Served
        <3> QED BY <2>2, <3>2 DEF Generates, Wanted
    <2>6. \A q \in Wanted(body[r]) \ (pairs[r] \ {p}) : q \in made'[r] \/ q[2] \in off[r]
        BY <2>2, <2>3, <2>5
    <2>7. Unseen(r)' = pairs[r] \ {p}
        BY <2>2 DEF Unseen
    <2>8. Generated(r)'
        BY <2>1, <2>2, <2>3, <2>4, <2>6, <2>7 DEF Generated, Untasked, Unstored
    <2> QED BY <1>1, <1>4, <2>8 DEF Step
<1>5. ASSUME NEW r \in Requests, InsertTasks(r) \/ Crash(r) PROVE GeneratedInv'
    <2>1. pc'[r] \in {"accepted", "error", "crashed"}
        BY <1>5 DEF InsertTasks, AfterTasks, Crash, TypeOK
    <2>2. Generated(r)'
        BY <2>1 DEF Generated, Untasked, Unstored
    <2> QED BY <1>1, <1>5, <2>2 DEF Step
<1>6. ASSUME Reload PROVE GeneratedInv'
    <2>1. ASSUME NEW r \in Requests PROVE Generated(r)'
        <3>1. /\ Generated(r)
              /\ UNCHANGED <<pc, body, pairs, made>> /\ off[r] \subseteq off'[r]
            BY <1>6 DEF Reload, GeneratedInv
        <3> QED BY <3>1 DEF Generated, Unseen
    <2> QED BY <2>1 DEF GeneratedInv
<1>7. ASSUME NEW n \in Templates, CreateTemplate(n) \/ DeleteTemplate(n) PROVE GeneratedInv'
    BY <1>7 DEF CreateTemplate, DeleteTemplate, GeneratedInv, Generated, Unseen
<1> QED BY <1>2, <1>3, <1>4, <1>5, <1>6, <1>7 DEF Next, Step

LEMMA AcceptedNext ==
    ASSUME IInv, Next
    PROVE  AcceptedIsExact'
<1> USE DEF Goto, database, local, IInv
<1>1. ASSUME NEW r \in Requests, Receive(r) \/ Step(r) \/ Crash(r), pc'[r] # "accepted",
             \A t \in tasks' : t \in tasks \/ t[1] = r, tasks \subseteq tasks'
      PROVE  AcceptedIsExact'
    <2>1. Apart(r)
        BY <1>1, StepsAreLocal
    <2> QED BY <1>1, <2>1 DEF Apart, AcceptedIsExact
<1>2. ASSUME NEW r \in Requests, InsertTasks(r) PROVE AcceptedIsExact'
    <2>1. /\ pc[r] = "tasks" /\ UNCHANGED <<body, off>>
          /\ \A t \in tasks' : t \in tasks \/ (t[1] = r /\ t[2] \in made[r])
          /\ pc'[r] = "accepted" => tasks' = tasks \cup ({r} \X made[r])
          /\ tasks \subseteq tasks'
        BY <1>2 DEF InsertTasks, AfterTasks, TypeOK
    <2>2. CASE pc'[r] = "accepted"
        <3>1. Apart(r)
            BY <1>2, StepsAreLocal DEF Step
        <3>2. \A t \in tasks : t[1] # r
            BY <2>1 DEF StoredInv, Untasked
        <3>3. /\ made[r] \subseteq Wanted(body[r])
              /\ \A p \in Wanted(body[r]) : p \in made[r] \/ p[2] \in off[r]
            BY <2>1 DEF GeneratedInv, Generated, Unseen
        <3>4. \A p \in made[r] : <<r, p>> \in tasks'
            BY <2>1, <2>2
        <3>5. ASSUME NEW s \in Requests, pc'[s] = "accepted"
              PROVE  /\ \A t \in tasks' : t[1] = s => t[2] \in Wanted(body'[s])
                     /\ \A p \in Wanted(body'[s]) : <<s, p>> \in tasks' \/ p[2] \in off'[s]
            <4>1. CASE s = r
                BY <2>1, <3>2, <3>3, <3>4, <4>1
            <4>2. CASE s # r
                BY <2>1, <3>1, <3>5, <4>2 DEF Apart, AcceptedIsExact
            <4> QED BY <4>1, <4>2
        <3> QED BY <3>5 DEF AcceptedIsExact, Wanted, AllPairs, Compatible
    <2> QED BY <1>1, <1>2, <2>1, <2>2 DEF Step
<1>3. ASSUME NEW r \in Requests, LoadExisting(r) PROVE AcceptedIsExact'
    <2>1. r \notin notifications
        BY <1>3 DEF LoadExisting, StoredInv, Unstored
    <2>2. pc'[r] = "error" /\ tasks' = tasks
        BY <1>3, <2>1 DEF LoadExisting, TypeOK, Reread, Holders
    <2> QED BY <1>1, <1>3, <2>2 DEF Step
<1>4. ASSUME NEW r \in Requests,
             \/ Receive(r) \/ ValidateChannel(r) \/ ValidateTemplate(r) \/ InsertNotification(r)
             \/ InsertRecipients(r) \/ GenerateTask(r) \/ Crash(r)
      PROVE  AcceptedIsExact'
    <2>1. pc'[r] # "accepted" /\ tasks' = tasks
        BY <1>4 DEF Receive, ValidateChannel, ValidateTemplate, InsertNotification,
                    InsertRecipients, AfterRecipients, GenerateTask, Crash, TypeOK
    <2> QED BY <1>1, <1>4, <2>1 DEF Step
<1>5. ASSUME Reload PROVE AcceptedIsExact'
    <2>1. UNCHANGED <<pc, body, tasks>> /\ \A r \in Requests : off[r] \subseteq off'[r]
        BY <1>5 DEF Reload
    <2> QED BY <2>1 DEF AcceptedIsExact, Wanted, AllPairs, Compatible
<1>6. ASSUME NEW n \in Templates, CreateTemplate(n) \/ DeleteTemplate(n) PROVE AcceptedIsExact'
    BY <1>6 DEF CreateTemplate, DeleteTemplate, AcceptedIsExact
<1> QED BY <1>2, <1>3, <1>4, <1>5, <1>6 DEF Next, Step

-----------------------------------------------------------------------------
(* A step of request r leaves to the others what they have.                *)
LEMMA OthersKeep ==
    ASSUME TypeOK, StoredInv, KeptInv, NEW r \in Requests,
           \A s \in Requests \ {r} : pc'[s] = pc[s] /\ body'[s] = body[s],
           body'[r] = body[r] \/ r \notin notifications,
           notifications' \in {notifications, notifications \cup {r}}, failed \subseteq failed',
           r \in notifications'
                => r \in failed' \/ pc'[r] \in {"recipients", "generate", "tasks", "accepted"},
           pc'[r] = "accepted" => r \in notifications',
           pc'[r] \in {"reread", "error"} /\ r \notin failed' => Holders(r)' # {}
    PROVE  KeptInv'
<1>1. notifications \subseteq Requests
    BY DEF TypeOK
<1>2. ASSUME NEW s \in Requests \ {r}, Holders(s) # {} PROVE Holders(s)' # {}
    <2>1. PICK h \in notifications : body[h].key = body[s].key
        BY <1>2 DEF Holders, SameKey
    <2>2. h \in notifications' /\ body'[h] = body[h] /\ body'[s] = body[s]
        BY <1>1
    <2>3. h \in Holders(s)'
        BY <2>1, <2>2 DEF Holders, SameKey
    <2> QED BY <2>3
<1> QED BY <1>1, <1>2 DEF KeptInv

LEMMA KeptNext ==
    ASSUME TypeOK, StoredInv, KeptInv, Next
    PROVE  KeptInv'
<1> USE DEF Goto, Remember, database, local
<1>1. ASSUME NEW r \in Requests, Receive(r) PROVE KeptInv'
    <2>1. r \notin notifications
        BY <1>1 DEF Receive, StoredInv, Unstored
    <2>2. /\ \A s \in Requests \ {r} : body'[s] = body[s] /\ pc'[s] = pc[s]
          /\ UNCHANGED <<notifications, failed>> /\ pc'[r] \in {"validate", "invalid"}
        BY <1>1 DEF Receive, TypeOK
    <2> QED BY <2>1, <2>2, OthersKeep
<1>2. ASSUME NEW r \in Requests, ValidateChannel(r) \/ ValidateTemplate(r) PROVE KeptInv'
    <2>1. r \notin notifications
        BY <1>2 DEF ValidateChannel, ValidateTemplate, StoredInv, Unstored
    <2>2. /\ \A s \in Requests \ {r} : body'[s] = body[s] /\ pc'[s] = pc[s]
          /\ UNCHANGED <<notifications, body>> /\ failed \subseteq failed'
          /\ pc'[r] \in {"validate", "query", "notify", "invalid"}
        BY <1>2 DEF ValidateChannel, ValidateTemplate, TypeOK
    <2> QED BY <2>1, <2>2, OthersKeep
<1>3. ASSUME NEW r \in Requests, InsertNotification(r) PROVE KeptInv'
    <2>1. /\ r \notin notifications
          /\ \A s \in Requests \ {r} : body'[s] = body[s] /\ pc'[s] = pc[s]
          /\ body' = body /\ failed \subseteq failed'
          /\ notifications' \in {notifications, notifications \cup {r}}
        BY <1>3 DEF InsertNotification, StoredInv, Unstored, TypeOK
    <2>2. \/ pc'[r] = "error" /\ r \in failed'
          \/ pc'[r] = "recipients"
          \/ pc'[r] = "reread" /\ Holders(r) # {} /\ notifications' = notifications
        BY <1>3 DEF InsertNotification, Inserts, TypeOK
    <2>3. pc'[r] = "reread" => Holders(r)' # {}
        BY <2>1, <2>2 DEF Holders, SameKey
    <2>4. pc'[r] # "accepted" /\ (pc'[r] = "error" => r \in failed')
        BY <2>2
    <2>5. r \in notifications' => r \in failed' \/ pc'[r] = "recipients"
        BY <2>1, <2>2
    <2> QED BY <2>1, <2>3, <2>4, <2>5, OthersKeep
<1>4. ASSUME NEW r \in Requests, LoadExisting(r) PROVE KeptInv'
    <2>1. r \notin notifications
        BY <1>4 DEF LoadExisting, StoredInv, Unstored
    <2>2. /\ \A s \in Requests \ {r} : body'[s] = body[s] /\ pc'[s] = pc[s]
          /\ UNCHANGED <<notifications, body>> /\ failed \subseteq failed' /\ pc[r] = "reread"
        BY <1>4 DEF LoadExisting, TypeOK
    <2>3. pc'[r] = "error"
        BY <1>4, <2>1 DEF LoadExisting, TypeOK, Reread, Holders
    <2>4. r \notin failed' => Holders(r)' # {}
        BY <2>2 DEF KeptInv, Holders, SameKey
    <2> QED BY <2>1, <2>2, <2>3, <2>4, OthersKeep
<1>5. ASSUME NEW r \in Requests, InsertRecipients(r) \/ GenerateTask(r) \/ InsertTasks(r)
      PROVE  KeptInv'
    <2>1. r \in notifications
        BY <1>5 DEF InsertRecipients, GenerateTask, InsertTasks, StoredInv
    <2>2. /\ \A s \in Requests \ {r} : body'[s] = body[s] /\ pc'[s] = pc[s]
          /\ UNCHANGED <<notifications, body>> /\ failed \subseteq failed'
        BY <1>5 DEF InsertRecipients, GenerateTask, InsertTasks, TypeOK
    <2>3. \/ pc'[r] \in {"generate", "tasks", "accepted"}
          \/ pc'[r] = "error" /\ r \in failed'
        BY <1>5 DEF InsertRecipients, GenerateTask, InsertTasks, AfterRecipients, AfterTasks,
                    TypeOK
    <2> QED BY <2>1, <2>2, <2>3, OthersKeep
<1>6. ASSUME NEW r \in Requests, Crash(r) PROVE KeptInv'
    <2>1. /\ \A s \in Requests \ {r} : body'[s] = body[s] /\ pc'[s] = pc[s]
          /\ UNCHANGED <<notifications, body>> /\ failed' = failed \cup {r}
          /\ pc'[r] = "crashed"
        BY <1>6 DEF Crash, TypeOK
    <2> QED BY <2>1, OthersKeep
<1>7. CASE Reload \/ \E n \in Templates : CreateTemplate(n) \/ DeleteTemplate(n)
    <2>1. UNCHANGED <<notifications, body, pc, failed>>
        BY <1>7 DEF Reload, CreateTemplate, DeleteTemplate
    <2> QED BY <2>1 DEF KeptInv, Holders, SameKey
<1> QED BY <1>1, <1>2, <1>3, <1>4, <1>5, <1>6, <1>7 DEF Next, Step

-----------------------------------------------------------------------------
LEMMA IInvInit == Init => IInv
<1> SUFFICES ASSUME Init PROVE IInv
    OBVIOUS
<1>1. TypeOK /\ BodyInv
    BY TypeInit
<1>2. StoredInv /\ KeyInv /\ ValidatedInv /\ GeneratedInv /\ AcceptedIsExact /\ KeptInv
    BY DEF Init, KeptInv, StoredInv, KeyInv, ValidatedInv, Validated, GeneratedInv, Generated,
           AcceptedIsExact, Served
<1> QED BY <1>1, <1>2 DEF IInv

LEMMA IInvNext == IInv /\ [Next]_vars => IInv'
<1> SUFFICES ASSUME IInv, [Next]_vars PROVE IInv'
    OBVIOUS
<1>1. CASE Next
    <2>1. TypeOK' /\ BodyInv'
        BY <1>1, TypeNext DEF IInv
    <2>2. StoredInv' /\ KeyInv'
        BY <1>1, StoredNext DEF IInv, Stored
    <2>3. ValidatedInv' /\ GeneratedInv' /\ AcceptedIsExact'
        BY <1>1, ValidatedNext, GeneratedNext, AcceptedNext DEF IInv
    <2>4. KeptInv'
        BY <1>1, KeptNext DEF IInv
    <2> QED BY <2>1, <2>2, <2>3, <2>4 DEF IInv
<1>2. CASE UNCHANGED vars
    BY <1>2 DEF vars, IInv, TypeOK, BodyInv, StoredInv, KeyInv, SameKey, ValidatedInv, Validated,
                Checked, GeneratedInv, Generated, Unseen, AcceptedIsExact, KeptInv, Holders
<1> QED BY <1>1, <1>2

LEMMA Invariance == Spec => []IInv
BY IInvInit, IInvNext, PTL DEF Spec

(* Every variable of the engine keeps its type.                            *)
THEOREM EngineTypeCorrect == Spec => []TypeOK
<1>1. IInv => TypeOK
    BY DEF IInv
<1> QED BY <1>1, Invariance, PTL

(* The tasks with one idempotency key come from one request, for any       *)
(* number of requests, payloads, failures and reloads.                     *)
THEOREM KeysRunOnce == Spec => []KeyRunsOnce
<1>1. IInv => KeyRunsOnce
    BY DEF IInv, KeyRunsOnce, StoredInv, KeyInv
<1> QED BY <1>1, Invariance, PTL

(* An accepted request has a task for exactly the pairs it asked for, but  *)
(* for channels a reload turned off since they were validated.             *)
THEOREM AcceptanceIsExact == Spec => []AcceptedIsExact
<1>1. IInv => AcceptedIsExact
    BY DEF IInv
<1> QED BY <1>1, Invariance, PTL

(* Without failures a key is never lost: whoever is turned away without    *)
(* one finds a request with its key at work or accepted.                   *)
THEOREM KeysNotLost == Spec => []KeyLostOnlyByFailure
<1>1. IInv => KeyLostOnlyByFailure
    <2> SUFFICES ASSUME IInv, NEW r \in Requests,
                        pc[r] \in {"accepted", "error"}, r \notin failed
                 PROVE  \E s \in notifications :
                            SameKey(r, s) /\ (s \in failed \/ pc[s] \in Served \cup {"accepted"})
        BY DEF KeyLostOnlyByFailure
    <2>1. \A s \in notifications : s \in failed \/ pc[s] \in Served \cup {"accepted"}
        BY DEF IInv, KeptInv, Served
    <2>2. \E s \in notifications : SameKey(r, s)
        BY DEF IInv, KeptInv, Holders, SameKey
    <2> QED BY <2>1, <2>2
<1> QED BY <1>1, Invariance, PTL
=============================================================================
