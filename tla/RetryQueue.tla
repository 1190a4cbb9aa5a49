----------------------------- MODULE RetryQueue -----------------------------
(***************************************************************************)
(* What the delivery queue promises, without dispatchers, leases,          *)
(* transactions or time: a submitted task is taken, given back or buried   *)
(* until it is delivered or its tries are used up, and a notification is   *)
(* only announced to be over when its tasks are.                           *)
(***************************************************************************)
EXTENDS Naturals

CONSTANTS Tasks, Notifications,
          NotificationOf,   \* [Tasks -> Notifications]
          MaxRetry          \* [Tasks -> Nat]: the tries a task may fail before it is given up

VARIABLES state,    \* of each task
          tries,    \* the failed tries of each task
          verdict   \* announced for each notification

vars == <<state, tries, verdict>>

TasksOf(n)   == {t \in Tasks : NotificationOf[t] = n}
Submitted(n) == {t \in TasksOf(n) : state[t] # "none"}

Init ==
    /\ state = [t \in Tasks |-> "none"]
    /\ tries = [t \in Tasks |-> 0]
    /\ verdict = [n \in Notifications |-> "pending"]

(* Some of the tasks of a notification, once.                              *)
Submit(n, S) ==
    /\ Submitted(n) = {}
    /\ state' = [t \in Tasks |-> IF t \in S THEN "waiting" ELSE state[t]]
    /\ UNCHANGED <<tries, verdict>>

(* A batch of tasks is claimed. *)
Take(S) ==
    /\ \A t \in S : state[t] = "waiting"
    /\ state' = [t \in Tasks |-> IF t \in S THEN "working" ELSE state[t]]
    /\ UNCHANGED <<tries, verdict>>

Deliver(t) ==
    /\ state[t] = "working"
    /\ state' = [state EXCEPT ![t] = "delivered"]
    /\ UNCHANGED <<tries, verdict>>

(* Of a batch of failed tries the tasks in B are buried: only those whose  *)
(* tries exceed the budget may be.                                         *)
GiveUp(S, B) ==
    /\ \A t \in S : state[t] = "working"
    /\ \A t \in B : tries[t] >= MaxRetry[t]
    /\ state' = [t \in Tasks |-> IF t \in B THEN "dead"
                                 ELSE IF t \in S THEN "waiting" ELSE state[t]]
    /\ tries' = [t \in Tasks |-> IF t \in S THEN tries[t] + 1 ELSE tries[t]]
    /\ UNCHANGED verdict

MayAnnounce(n, v) ==
    \/ v = "processing"
    \/ v = "success" /\ \A t \in Submitted(n) : state[t] = "delivered"
    \/ /\ v = "failed"
       /\ \A t \in Submitted(n) : state[t] \in {"delivered", "dead"}
       /\ \E t \in Submitted(n) : state[t] = "dead"

Announce(n, v) ==
    /\ Submitted(n) # {}
    /\ MayAnnounce(n, v)
    /\ verdict' = [verdict EXCEPT ![n] = v]
    /\ UNCHANGED <<state, tries>>

Next ==
    \/ \E S \in SUBSET Tasks : Take(S)
    \/ \E t \in Tasks : Deliver(t)
    \/ \E S \in SUBSET Tasks : \E B \in SUBSET S : GiveUp(S, B)
    \/ \E n \in Notifications, v \in {"processing", "success", "failed"} : Announce(n, v)
    \/ \E n \in Notifications : \E S \in SUBSET TasksOf(n) : Submit(n, S)

Spec == Init /\ [][Next]_vars
=============================================================================
