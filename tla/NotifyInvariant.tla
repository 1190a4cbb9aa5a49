--------------------------- MODULE NotifyInvariant ---------------------------
(***************************************************************************)
(* What relates the engine and the dispatchers in every state of Notify,   *)
(* besides the invariants each of them has by itself.                      *)
(***************************************************************************)
EXTENDS Notify

(* The recipients of a request are there before its tasks are.             *)
RecipientsInv ==
    /\ \A r \in Requests :
        pc[r] \in {"generate", "tasks"} => {r} \X (DOMAIN body[r].recipients) \subseteq recipients
    /\ \A t \in Stored : Recipient(t) \in recipients

-----------------------------------------------------------------------------
(* The channels of a request whose template has been looked up.            *)
LookedUp(r) ==
    (DOMAIN body[r].template) \ (IF pc[r] \in {"validate", "query"} THEN left[r] ELSE {})

Fitting(r, c) == template[body[r].template[c]] = c \/ c \in replaced[r]

(* Their templates are of their channels, or were deleted since.           *)
TemplatesInv ==
    /\ \A r \in Requests : pc[r] \in E!Served => \A c \in LookedUp(r) : Fitting(r, c)
    /\ \A t \in Stored : Channel(t) \in DOMAIN body[t[1]].template /\ Fitting(t[1], Channel(t))
    /\ misrendered \subseteq Stored
    /\ RenderedForItsChannel

-----------------------------------------------------------------------------
(* Only a row that was inserted is delivered.                              *)
DeliveredInv == \A t \in Tasks : delivered[t] # "no" => t \in Stored

(* A verdict that was read stays true.                                     *)
Holds(n, v) ==
    /\ v = "success" => /\ D!RowsOf(n) # {}
                        /\ \A t \in D!RowsOf(n) : task[t].status = "success"
    /\ v = "failed" => /\ \A t \in D!RowsOf(n) : task[t].status \in D!Terminal
                       /\ \E t \in D!RowsOf(n) : task[t].status = "dead"

QueryInv ==
    /\ query.pc # "idle" => \E r \in Requests : query.request = {r}
    /\ query.pc \in {"second", "answered"} => \A r \in query.request : Holds(r, query.verdict)
    /\ QuerySound

(* The part of the composition in the inductive invariant; the parts of    *)
(* the engine and of the dispatchers are those of their own modules.       *)
JointInv == TypeOK /\ RecipientsInv /\ TemplatesInv /\ DeliveredInv /\ QueryInv
=============================================================================
