-------------------------- MODULE NotificationService --------------------------
(***************************************************************************)
(* What the service promises its clients, without engine, database,        *)
(* dispatchers, leases or failures: of the requests with one idempotency   *)
(* key, all of which may be accepted, one at most is carried out; a task   *)
(* that was taken on is sent, once or more often, until it is delivered or *)
(* given up; and what a client is told of its notification is true.        *)
(***************************************************************************)
CONSTANTS Requests, Keys,
          NoKey,       \* of a request that has not come yet, or has none
          Tasks,
          RequestOf,   \* [Tasks -> Requests]
          Webhooks     \* the tasks whose provider may answer without a word

VARIABLES stage,      \* of each request
          key,        \* its idempotency key
          progress,   \* of each task
          sent,       \* whether the message of each has reached its recipient:
                      \* "no", "yes", or "blank" after an answer without a word
          told        \* the last answer to a status query, if it is complete

vars == <<stage, key, progress, sent, told>>

TasksOf(r)    == {t \in Tasks : RequestOf[t] = r}
Submitted(r)  == {t \in TasksOf(r) : progress[t] # "none"}

Init ==
    /\ stage = [r \in Requests |-> "idle"]
    /\ key = [r \in Requests |-> NoKey]
    /\ progress = [t \in Tasks |-> "none"]
    /\ sent = [t \in Tasks |-> "no"]
    /\ told = {}

(* A request comes in; it may be refused for its form.                     *)
Receive(r) ==
    /\ stage[r] = "idle"
    /\ \E a \in {"open", "refused"} : stage' = [stage EXCEPT ![r] = a]
    /\ \E k \in Keys \cup {NoKey} : key' = [key EXCEPT ![r] = k]
    /\ UNCHANGED <<progress, sent, told>>

(* It is answered, and tasks S of it are taken on, unless it repeats one   *)
(* with its key that has tasks: such a request may be accepted, but adds   *)
(* nothing.  Tasks may be taken on although the answer is lost or an error.*)
Answer(r) ==
    /\ stage[r] = "open"
    /\ \E a \in {"accepted", "refused"}, S \in SUBSET TasksOf(r) :
        /\ stage' = [stage EXCEPT ![r] = a]
        /\ progress' = [t \in Tasks |-> IF t \in S THEN "due" ELSE progress[t]]
        /\ S # {} => \A s \in Requests \ {r} : key[s] = key[r] => Submitted(s) = {}
    /\ UNCHANGED <<key, sent, told>>

-----------------------------------------------------------------------------
(* The message of a task reaches its recipient, perhaps once more.         *)
Send(t) ==
    /\ progress[t] # "none"
    /\ sent' = [sent EXCEPT ![t] = "yes"]
    /\ UNCHANGED <<stage, key, progress, told>>

(* Nobody knows whether it does: the provider says neither yes nor no.     *)
Blank(t) ==
    /\ progress[t] # "none" /\ t \in Webhooks /\ sent[t] = "no"
    /\ sent' = [sent EXCEPT ![t] = "blank"]
    /\ UNCHANGED <<stage, key, progress, told>>

(* A task is delivered when its message was, or might have been.           *)
Deliver(t) ==
    /\ progress[t] = "due"
    /\ sent[t] = "yes" \/ (t \in Webhooks /\ sent[t] = "blank")
    /\ progress' = [progress EXCEPT ![t] = "delivered"]
    /\ UNCHANGED <<stage, key, sent, told>>

GiveUp(B) ==
    /\ \A t \in B : progress[t] = "due"
    /\ progress' = [t \in Tasks |-> IF t \in B THEN "dead" ELSE progress[t]]
    /\ UNCHANGED <<stage, key, sent, told>>

-----------------------------------------------------------------------------
(* A final status is told only when it is true, and with it what has       *)
(* become of the tasks.                                                    *)
MayTell(r, v) ==
    /\ v = "success" => /\ Submitted(r) # {}
                        /\ \A t \in Submitted(r) : progress[t] = "delivered"
    /\ v = "failed" => /\ \A t \in Submitted(r) : progress[t] \in {"delivered", "dead"}
                       /\ \E t \in Submitted(r) : progress[t] = "dead"

Tell(r) ==
    /\ \E v \in {"pending", "processing", "success", "failed"} :
        /\ told' = {[request |-> r, verdict |-> v,
                     progress |-> {progress[t] : t \in Submitted(r)}]}
        /\ MayTell(r, v)
    /\ UNCHANGED <<stage, key, progress, sent>>

Ask == told' = {} /\ UNCHANGED <<stage, key, progress, sent>>

Next ==
    \/ \E B \in SUBSET Tasks : GiveUp(B)
    \/ \E t \in Tasks : Send(t) \/ Blank(t) \/ Deliver(t)
    \/ Ask
    \/ \E r \in Requests : Receive(r) \/ Answer(r) \/ Tell(r)

Spec == Init /\ [][Next]_vars

-----------------------------------------------------------------------------
(* What follows from it.                                                   *)

(* However many requests with one key are accepted, tasks are taken on,    *)
(* and messages sent, for one of them only (engine.go:118-156).            *)
InHand(t) == progress[t] # "none" \/ sent[t] # "no"

OneOrderPerKey ==
    \A t, u \in Tasks :
        InHand(t) /\ InHand(u) /\ key[RequestOf[t]] = key[RequestOf[u]]
            => RequestOf[t] = RequestOf[u]

(* A client that has been told one end of its notification is never told   *)
(* the other, although rows and tasks are read apart while dispatchers     *)
(* work on them (engine.go:265-283).                                       *)
IsTold(r, v) == \E a \in told : a.request = r /\ a.verdict = v

AnswersStand ==
    \A r \in Requests :
        /\ [](IsTold(r, "success") => []~IsTold(r, "failed"))
        /\ [](IsTold(r, "failed") => []~IsTold(r, "success"))
=============================================================================
