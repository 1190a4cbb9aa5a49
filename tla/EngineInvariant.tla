--------------------------- MODULE EngineInvariant ---------------------------
(***************************************************************************)
(* The inductive invariant of Engine behind KeyRunsOnce, AcceptedIsExact   *)
(* and KeyLostOnlyByFailure: what a request has already established at     *)
(* each point of SendNotification, whatever the others and the reloads do. *)
(***************************************************************************)
EXTENDS Engine

(* A request that has been received has a payload.                         *)
BodyInv == \A r \in Requests : pc[r] # "idle" => body[r] \in Bodies

(* The row of a notification is inserted after the validation, and its     *)
(* tasks last.                                                             *)
Unstored   == {"idle", "validate", "query", "notify", "reread", "invalid"}
Untasked   == Unstored \cup {"recipients", "generate", "tasks"}
StoredInv  ==
    /\ \A r \in notifications : pc[r] \notin Unstored
    /\ \A r \in Requests : pc[r] \in {"recipients", "generate", "tasks"} => r \in notifications
    /\ \A t \in tasks : t[1] \in notifications /\ pc[t[1]] \notin Untasked

(* UNIQUE (idempotency_key).                                               *)
KeyInv == \A r, s \in notifications : SameKey(r, s) => r = s

(* The channels a request has validated are enabled or were turned off     *)
(* since.                                                                  *)
Checked(r) ==
    IF pc[r] = "validate" THEN (DOMAIN body[r].template) \ left[r]
    ELSE IF pc[r] = "query" THEN ((DOMAIN body[r].template) \ left[r]) \cup {asked[r]}
    ELSE DOMAIN body[r].template

Validated(r) ==
    /\ pc[r] = "query" => asked[r] \in left[r]
    /\ pc[r] \in Served => \A c \in Checked(r) : config[c] = "enabled" \/ c \in off[r]

ValidatedInv == \A r \in Requests : Validated(r)

(* The pairs a request has looked at have their task, unless the channel   *)
(* was off.                                                                *)
Unseen(r) == IF pc[r] = "generate" THEN pairs[r] ELSE {}

Generated(r) ==
    /\ pc[r] \in Untasked \ {"generate", "tasks"} => made[r] = {}
    /\ pc[r] \in {"generate", "tasks"} =>
          /\ made[r] \subseteq Wanted(body[r])
          /\ \A p \in Wanted(body[r]) \ Unseen(r) : p \in made[r] \/ p[2] \in off[r]
    /\ pc[r] = "generate" => pairs[r] \subseteq AllPairs(body[r])

GeneratedInv == \A r \in Requests : Generated(r)

(* Only a failure ends the work on a row that was inserted; who finds its  *)
(* key taken, and who is accepted, has a row to show for it.               *)
KeptInv ==
    /\ \A s \in notifications :
        s \in failed \/ pc[s] \in {"recipients", "generate", "tasks", "accepted"}
    /\ \A r \in Requests : pc[r] = "accepted" => r \in notifications
    /\ \A r \in Requests : pc[r] \in {"reread", "error"} /\ r \notin failed => Holders(r) # {}

IInv ==
    /\ TypeOK
    /\ BodyInv
    /\ StoredInv
    /\ KeyInv
    /\ ValidatedInv
    /\ GeneratedInv
    /\ AcceptedIsExact
    /\ KeptInv
=============================================================================
