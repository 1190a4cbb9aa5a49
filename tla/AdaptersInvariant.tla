------------------------- MODULE AdaptersInvariant --------------------------
(***************************************************************************)
(* The inductive invariant of Adapters.  The properties speak of messages  *)
(* that have arrived; the invariant also of those that still may, and of   *)
(* the try that may be the one they belong to.                             *)
(***************************************************************************)
EXTENDS Adapters

(* A bot that the message may be posted to.                                *)
MayReach(to) == \/ to = request.hook
                \/ request.hook = None /\ (to = request.to \/ request.to \notin Urls)

(* The provider has the message of the Send in progress.                   *)
HasIt == call.pc = "urging" \/ (call.pc = "answer" /\ call.reply = "taken")

(* A try sends at most one message, the next try has a new number.         *)
NumbersInv ==
    \A m \in taken \cup adrift :
        /\ m.no <= tries
        /\ \A n \in taken \cup adrift : m.no = n.no => m = n

(* Only the last try's message can have been taken with everybody knowing. *)
TakenInv ==
    /\ \A m \in adrift : m.no \in untold
    /\ \A m \in taken : m.no \in untold \/ (m.no = tries /\ (succeeded \/ HasIt))

AddressInv == \A m \in taken \cup adrift : m.to \in Urls => MayReach(m.to)

UrgedInv == \A i \in urged : \E m \in taken : m.no = i

CallInv ==
    call # Idle =>
        /\ call.adapter \in Adapter
        /\ ~succeeded /\ tries > 0 /\ tries \notin urged
        /\ call.adapter.type = "feishu_webhook" => MayReach(call.to)
        /\ call.pc = "sent" => \A m \in taken \cup adrift : m.no # tries
        /\ call.pc = "answer" => call.reply \in {"taken", "refused"}
        /\ HasIt => Message \in taken
        /\ call.pc = "urging" => CanUrge(call.adapter)

IInv == /\ TypeOK /\ adapter \in Adapter
        /\ NumbersInv /\ TakenInv /\ AddressInv /\ UrgedInv /\ CallInv
        /\ SuccessIsTaken
=============================================================================
