-------------------------- MODULE DeliveryTaskStore --------------------------
(***************************************************************************)
(* Rows of the delivery_tasks table and what each SQL statement of         *)
(* pkg/storage/delivery.go does to ONE row: the WHERE clauses are          *)
(* predicates of a row, the UPDATEs are functions from row to row.  The    *)
(* statements themselves (which rows, in which transaction, with which     *)
(* errors) are the actions of module Dispatcher.                           *)
(*                                                                         *)
(* A timestamp column holds the time that is left until it is reached, in  *)
(* ticks: "column <= now" is 0, "column IS NULL" is Null.                  *)
(***************************************************************************)
EXTENDS Integers, Sequences

CONSTANTS Dispatchers,          \* values of dispatcher.leaseOwner: one UUID per process run
          NoOwner,              \* lease_owner IS NULL
          RetryBackoffSeconds,  \* config defaults.retryBackoffSeconds, in ticks
          LeaseTimeout          \* config dispatcher.leaseTimeout, in ticks

ASSUME StoreAssumption ==
    /\ NoOwner \notin Dispatchers
    /\ RetryBackoffSeconds \in Seq(Nat)
    /\ LeaseTimeout \in Nat

Null == -1

(* database.DeliveryTaskStatus, and "absent" for a row not inserted yet.   *)
TaskStatus == {"absent", "pending", "processing", "success", "failed", "dead"}
Active     == {"pending", "processing", "failed"}
Terminal   == {"success", "dead"}

Row == [status        : TaskStatus,
        retryCount    : Nat,
        nextRetryAt   : Nat \cup {Null},
        leaseOwner    : Dispatchers \cup {NoOwner},
        leaseExpireAt : Nat \cup {Null}]

AbsentRow == [status |-> "absent", retryCount |-> 0, nextRetryAt |-> Null,
              leaseOwner |-> NoOwner, leaseExpireAt |-> Null]

(* The row generateDeliveryTasks builds and Create inserts.                *)
NewRow == [AbsentRow EXCEPT !.status = "pending"]

(* The backoff of the (retryCount + 1)-th failure: the last entry of the   *)
(* configured list is used again once the list is exhausted.               *)
RetryBackoff(retryCount) ==
    IF RetryBackoffSeconds = << >> THEN 0
    ELSE IF retryCount >= Len(RetryBackoffSeconds)
         THEN RetryBackoffSeconds[Len(RetryBackoffSeconds)]
         ELSE RetryBackoffSeconds[retryCount + 1]

-----------------------------------------------------------------------------
(* The transactions a dispatcher opens on the table.                       *)
Kinds      == {"expire", "pending", "retry"}
FetchKinds == {"pending", "retry"}

(* Mistake: the retry query trusts next_retry_at, which success keeps.     *)
Selects_AnyStatus(kind, row) ==
    CASE kind = "pending" -> row.status = "pending"
      [] kind = "retry"   -> row.nextRetryAt = 0
      [] kind = "expire"  -> row.status = "processing" /\ row.leaseExpireAt = 0

(* WHERE clause of the SELECT ... FOR UPDATE SKIP LOCKED of a transaction. *)
Selects(kind, row) ==
    CASE kind = "pending" -> row.status = "pending"
      [] kind = "retry"   -> row.status = "failed" /\ row.nextRetryAt = 0
      [] kind = "expire"  -> row.status = "processing" /\ row.leaseExpireAt = 0

(* Mistake: the claim forgets lease_expire_at.                             *)
Acquired_WithoutExpiry(row, owner) ==
    [row EXCEPT !.status = "processing", !.leaseOwner = owner]

(* AcquirePendingTasks and AcquireRetryTasks make the same UPDATE.         *)
Acquired(row, owner) ==
    [row EXCEPT !.status = "processing", !.leaseOwner = owner,
                !.leaseExpireAt = LeaseTimeout]

Released(row) == [row EXCEPT !.leaseOwner = NoOwner, !.leaseExpireAt = Null]

(* Mistakes: no retry time; the failure is not counted.                    *)
Retried_WithoutTime(row, after) ==
    [Released(row) EXCEPT !.status = "failed", !.retryCount = row.retryCount + 1]
Retried_WithoutCount(row, after) ==
    [Released(row) EXCEPT !.status = "failed", !.nextRetryAt = after]

(* retry_count + 1, then "failed" with a retry scheduled while the budget  *)
(* lasts.  Past the budget UpdateFailure leaves next_retry_at as it was,   *)
(* ExpireProcessingTasks clears it.                                        *)
Retried(row, after) ==
    [Released(row) EXCEPT !.status = "failed", !.retryCount = row.retryCount + 1,
                          !.nextRetryAt = after]
Buried(row) == [Released(row) EXCEPT !.status = "dead", !.retryCount = row.retryCount + 1]

(* Mistake: an expired task is always retried.                             *)
Expired_WithoutBudget(row, maxRetry) == Retried(row, RetryBackoff(row.retryCount))

(* One iteration of the loop of ExpireProcessingTasks.                     *)
Expired(row, maxRetry) ==
    IF row.retryCount < maxRetry
    THEN Retried(row, RetryBackoff(row.retryCount))
    ELSE [Buried(row) EXCEPT !.nextRetryAt = Null]

(* UpdateSuccess.                                                          *)
Succeeded(row) == [Released(row) EXCEPT !.status = "success"]

(* Mistake: the budget is off by one.                                      *)
Failed_OneTryLess(row, readCount, maxRetry) ==
    IF readCount + 1 < maxRetry
    THEN Retried(row, RetryBackoff(readCount))
    ELSE Buried(row)

(* handleTaskFailure and UpdateFailure: the budget and the backoff come    *)
(* from the retry count the worker READ when it claimed the task.          *)
Failed(row, readCount, maxRetry) ==
    IF readCount < maxRetry
    THEN Retried(row, RetryBackoff(readCount))
    ELSE Buried(row)

(* Mistake: the update names the task only.                                *)
LeaseHeld_ById(row, owner) == TRUE

(* WHERE lease_owner = owner: the only guard of both updates.              *)
LeaseHeld(row, owner) == row.leaseOwner = owner

(* What the transaction of a kind writes to a row it selected.             *)
Written(kind, row, owner, maxRetry) ==
    IF kind = "expire" THEN Expired(row, maxRetry) ELSE Acquired(row, owner)

Countdown(timer) == IF timer > 0 THEN timer - 1 ELSE timer

Elapsed(row) == [row EXCEPT !.nextRetryAt = Countdown(@),
                            !.leaseExpireAt = Countdown(@)]

Ticking(row) == row.nextRetryAt > 0 \/ row.leaseExpireAt > 0
=============================================================================
