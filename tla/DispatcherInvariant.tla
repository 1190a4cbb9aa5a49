------------------------- MODULE DispatcherInvariant -------------------------
(***************************************************************************)
(* The inductive invariant of module Dispatcher: what must hold of locks,  *)
(* uncommitted writes, late workers and pending refreshes for the safety   *)
(* properties to survive every step.                                       *)
(***************************************************************************)
EXTENDS Dispatcher

(* The status a row has while a transaction of the kind holds its lock.    *)
LockedStatus(k) == CASE k = "pending" -> "pending"
                     [] k = "retry"   -> "failed"
                     [] k = "expire"  -> "processing"

(* What a claim or an expiry is about to write.                            *)
ClaimWrites(d, old, new) ==
    /\ new.status = "processing" /\ new.leaseOwner = d /\ new.leaseExpireAt # Null
    /\ new.retryCount = old.retryCount

ExpiryWrites(t, old, new) ==
    /\ new.status \in {"failed", "dead"}
    /\ new.leaseOwner = NoOwner /\ new.leaseExpireAt = Null
    /\ new.status = "failed" => new.nextRetryAt # Null /\ old.retryCount < MaxRetry[t]
    /\ new.status = "dead" => old.retryCount >= MaxRetry[t]
    /\ new.retryCount = old.retryCount + 1

(* At most one open transaction holds a row, the row still is what the     *)
(* transaction selected, and its writes follow from it.                    *)
LocksExclusive ==
    \A d, e \in Dispatchers, k, l \in Kinds :
        DOMAIN tx[d][k] \cap DOMAIN tx[e][l] # {} => d = e /\ k = l

WritesFollow ==
    \A d \in Dispatchers, k \in Kinds : \A t \in DOMAIN tx[d][k] :
        /\ task[t].status = LockedStatus(k)
        /\ k # "expire" => ClaimWrites(d, task[t], tx[d][k][t])
        /\ k = "expire" => ExpiryWrites(t, task[t], tx[d][k][t])

LeaseInv == NoStrandedRow /\ LocksExclusive /\ WritesFollow

-----------------------------------------------------------------------------
(* A worker's claim is one of those counted, the count it read is the one  *)
(* its claim began with, and nobody else has its claim.                    *)
JobsInv ==
    /\ \A j \in jobs :
        /\ j.id >= 1 /\ j.id <= claims[j.task] /\ j.rc = j.id - 1
        /\ j.ok => Vouched(j.task)
    /\ \A i, j \in jobs : i.task = j.task /\ i.id = j.id => i = j

(* The attempt of a claim is written once, by the worker of the claim.     *)
AttemptsInv ==
    /\ \A a \in attempts : a.no = a.id /\ a.id <= claims[a.task]
    /\ \A a, b \in attempts : a.task = b.task /\ a.id = b.id => a = b
    /\ \A a \in attempts, j \in jobs :
        a.task = j.task /\ a.id = j.id => j.pc \notin {"start", "send", "record"}

RowsInv ==
    /\ ClaimAccounting
    /\ \A t \in Tasks : task[t].status = "absent" => task[t].retryCount = 0
    /\ \A t \in Tasks : task[t].status = "dead" => task[t].retryCount > MaxRetry[t]
    /\ SuccessWasDelivered

CountInv == RowsInv /\ JobsInv /\ AttemptsInv

-----------------------------------------------------------------------------
(* A verdict that may be announced now may be announced later, too.        *)
Sound(n, v) ==
    /\ v = "success" => RowsOf(n) # {} /\ \A t \in RowsOf(n) : task[t].status = "success"
    /\ v = "failed" => /\ \A t \in RowsOf(n) : task[t].status \in Terminal
                       /\ \E t \in RowsOf(n) : task[t].status = "dead"

(* Every verdict that was counted is sound, written or not.                *)
VerdictInv ==
    /\ \A n \in Notifications : Sound(n, notif[n])
    /\ \A d \in Dispatchers : \A w \in loop[d].write : Sound(w[1], w[2])
    /\ \A j \in jobs : j.pc = "write" => Sound(NotificationOf[j.task], j.agg)

-----------------------------------------------------------------------------
(* Only notifications that have tasks are refreshed, so that what is       *)
(* counted is never the status of one without.                             *)
RefreshInv ==
    /\ \A d \in Dispatchers : \A n \in loop[d].todo : RowsOf(n) # {}
    /\ \A d \in Dispatchers : \A w \in loop[d].write :
        w[1] \in loop[d].todo /\ w[2] # "pending"
    /\ \A j \in jobs : j.pc = "write" => j.agg # "pending"

(* A claim is late if its worker has not settled the task yet.             *)
Unsettled == {"start", "send", "record", "update"}

(* The claims of a task that were made within its budget and whose workers *)
(* have not settled it yet: each of these can still reopen it once.        *)
Late(t) ==
    {i \in 1..MaxRetry[t] : \E j \in jobs :
        /\ j.task = t /\ j.id = i
        /\ j.pc \in Unsettled}

(* Beyond the budget every further failure uses up a late worker, but for  *)
(* the one that buries.                                                    *)
BudgetInv ==
    \A t \in Tasks :
        /\ task[t].status = "dead" => task[t].retryCount <= 2 * MaxRetry[t] + 1
        /\ task[t].status # "dead" =>
            \/ task[t].retryCount <= MaxRetry[t]
            \/ task[t].retryCount + Cardinality(Late(t)) <= 2 * MaxRetry[t]

-----------------------------------------------------------------------------
(* The lease was chosen long enough: it never runs out on a worker that    *)
(* has not settled its task yet.  Nothing in the code ensures it (a worker *)
(* neither renews its lease nor bounds its work by it), so it is not part  *)
(* of the specification but a hypothesis on its behaviours.                *)
WorkersTimely == \A j \in jobs : j.pc \in Unsettled => task[j.task].leaseExpireAt # 0

(* Under it no claim is ever taken from a worker: the row is still its     *)
(* own, with the count it read, and no expiry is about to release it.      *)
Current(j) ==
    /\ task[j.task].status = "processing" /\ task[j.task].leaseOwner = j.owner
    /\ task[j.task].retryCount = j.rc
    /\ \A d \in Dispatchers : j.task \notin DOMAIN tx[d]["expire"]

TimelyInv ==
    /\ \A j \in jobs : j.pc \in Unsettled => Current(j)
    /\ \A t \in Tasks :
        IF task[t].status = "dead" THEN task[t].retryCount = MaxRetry[t] + 1
                                   ELSE task[t].retryCount <= MaxRetry[t]

-----------------------------------------------------------------------------
(* What a refresh has counted and not written yet.                         *)
JobsWriting(n)  == {j \in jobs : j.pc = "write" /\ NotificationOf[j.task] = n}
LoopsWriting(n) == {d \in Dispatchers : \E w \in loop[d].write : w[1] = n}

(* Refreshes of one notification do not overlap: no two are between the    *)
(* count and the write at a time.  The code does not see to it either; it  *)
(* is a hypothesis as WorkersTimely is.                                    *)
RefreshesApart ==
    \A n \in Notifications :
        /\ \A i, j \in JobsWriting(n) : i = j
        /\ \A d, e \in LoopsWriting(n) : d = e
        /\ JobsWriting(n) = {} \/ LoopsWriting(n) = {}

(* Under it, and if no call fails, a notification whose tasks are over has *)
(* its verdict, or a refresh that will count it has yet to begin, or the   *)
(* one refresh that has counted it is about to write it.                   *)
ToCount(n) ==
    \/ \E j \in jobs : j.pc = "count" /\ NotificationOf[j.task] = n
    \/ \E d \in Dispatchers : n \in loop[d].todo /\ d \notin LoopsWriting(n)

Over(n) == RowsOf(n) # {} /\ \A t \in RowsOf(n) : task[t].status \in Terminal

Refreshed(n) ==
    /\ \A j \in JobsWriting(n) : j.agg = Aggregate(n)
    /\ \A d \in Dispatchers : \A w \in loop[d].write : w[1] = n => w[2] = Aggregate(n)
    /\ notif[n] = Aggregate(n) \/ JobsWriting(n) # {} \/ LoopsWriting(n) # {}

Attended(n) == Over(n) => ToCount(n) \/ Refreshed(n)

(* A loop without failures refreshes all it has to before it goes on.      *)
PlaceInv ==
    \A d \in Dispatchers :
        /\ phase[d] # "running" => phase[d] = "new" /\ loop[d] = At("off")
        /\ loop[d].pc # "refresh" => loop[d].todo = {}
        /\ loop[d].pc # "acquire" => loop[d].fetch = {}
        /\ Open(d, "expire") => loop[d].pc = "poll"

ApartInv == PlaceInv /\ \A n \in Notifications : Attended(n)

IInv == /\ TypeOK /\ LeaseInv /\ CountInv /\ VerdictInv
        /\ RefreshInv /\ BudgetInv
=============================================================================
