--------------------------- MODULE AdaptersProofs ---------------------------
(***************************************************************************)
(* Proofs about the adapters for any bots, recipients, messages, provider  *)
(* data and number of tries.                                               *)
(***************************************************************************)
EXTENDS AdaptersInvariant, TLAPS

LEMMA Constants ==
    /\ Urls \cap Ids = {} /\ None \notin Urls \cup Ids
    /\ Requests \subseteq Request /\ MaxTries \in Nat
BY AdaptersAssumption

LEMMA IdleCall == Idle.pc = "idle"
BY DEF Idle, Call

(* What New makes.                                                         *)
LEMMA AdapterTypes ==
    ASSUME NEW a \in Adapter
    PROVE  /\ a \in ProviderData /\ a.msgType # "unset"
           /\ a.urgentUserIdType \in UserIdTypes \cup {"unset"}
<1>1. PICK d \in Data : a = New(d)
    BY DEF Adapter
<1>2. d \in ProviderData /\ d.urgentUserIdType \in UserIdTypes \cup {"unset"}
    BY AdaptersAssumption
<1>3. CASE d.type = "feishu_webhook"
    <2>1. a = WebhookNew(d)
        BY <1>1, <1>3 DEF New
    <2>2. QED
        BY <1>2, <2>1 DEF WebhookNew, Or, ProviderData
<1>4. CASE d.type # "feishu_webhook"
    <2> DEFINE r == Or(d.receiveIdType, "open_id")
               u == IF d.receiveIdType \in {"email", "chat_id"} THEN d.urgentUserIdType
                    ELSE Or(d.urgentUserIdType, Or(d.receiveIdType, "open_id"))
               t == Or(d.msgType, "text")
    <2>1. a = [d EXCEPT !.receiveIdType = r, !.urgentUserIdType = u, !.msgType = t,
                        !.timeout = 0]
        BY <1>1, <1>2, <1>4 DEF New, AppNew, ProviderData
    <2>2. r \in IdTypes
        BY <1>2 DEF Or, ProviderData, IdTypes
    <2>3. u \in UserIdTypes \cup {"unset"}
        BY <1>2 DEF Or, ProviderData, IdTypes, UserIdTypes
    <2>4. t \in {"text", "post", "interactive", "other"}
        BY <1>2 DEF Or, ProviderData
    <2> HIDE DEF r, u, t
    <2>5. u \in IdTypes \cup {"unset"}
        BY <2>3 DEF IdTypes, UserIdTypes
    <2>6. a \in ProviderData
        BY <1>2, <2>1, <2>2, <2>4, <2>5 DEF ProviderData
    <2>7. a.msgType = t /\ a.urgentUserIdType = u
        BY <1>2, <2>1 DEF ProviderData
    <2>8. QED
        BY <2>3, <2>4, <2>6, <2>7
<1>5. QED
    BY <1>3, <1>4

LEMMA InvariantStarts == Init => IInv
<1>1. Init => TypeOK
    <2> SUFFICES ASSUME Init PROVE TypeOK
        OBVIOUS
    <2>1. adapter \in ProviderData /\ adapter.msgType # "unset"
        BY AdapterTypes DEF Init
    <2>2. tries \in 0..MaxTries
        BY Constants DEF Init
    <2>3. QED
        BY <2>1, <2>2 DEF Init, TypeOK
<1>2. QED
    BY <1>1 DEF Init, IInv, NumbersInv, TakenInv, AddressInv, UrgedInv, CallInv, SuccessIsTaken

-----------------------------------------------------------------------------
(* A step that is no Send's: only the adapter or a late arrival changes.   *)
LEMMA ReloadStep == IInv /\ Reload => IInv'
<1> SUFFICES ASSUME IInv, Reload PROVE IInv'
    OBVIOUS
<1>1. TypeOK'
    BY AdapterTypes DEF Reload, IInv, TypeOK
<1>2. QED
    BY <1>1 DEF Reload, IInv, NumbersInv, TakenInv, AddressInv, MayReach, UrgedInv, CallInv,
                HasIt, Message, SuccessIsTaken

LEMMA ArrivesLateStep == IInv /\ ArrivesLate => IInv'
<1> SUFFICES ASSUME IInv, ArrivesLate PROVE IInv'
    OBVIOUS
<1>1. PICK m \in adrift : taken' = taken \cup {m} /\ adrift' = adrift \ {m}
    BY DEF ArrivesLate
<1> USE DEF ArrivesLate
<1>2. taken' \cup adrift' = taken \cup adrift /\ taken \subseteq taken'
    BY <1>1
<1>3. TypeOK' /\ (adapter \in Adapter)'
    BY <1>2 DEF IInv, TypeOK
<1>4. NumbersInv' /\ AddressInv'
    BY <1>2 DEF IInv, NumbersInv, AddressInv, MayReach
<1>5. TakenInv'
    BY <1>1 DEF IInv, TakenInv, HasIt
<1>6. UrgedInv' /\ CallInv' /\ SuccessIsTaken'
    BY <1>2 DEF IInv, UrgedInv, CallInv, HasIt, Message, MayReach, SuccessIsTaken
<1>7. QED
    BY <1>3, <1>4, <1>5, <1>6 DEF IInv

-----------------------------------------------------------------------------
(* A Send begins: the number of the try is new.                            *)
LEMMA TryStep ==
    ASSUME IInv, NEW to \in Urls \cup Ids \cup {None},
           NEW content \in {"none", "text", "json", "raw"}, Try(to, content),
           adapter.type = "feishu_webhook" => to = None \/ MayReach(to)
    PROVE  IInv'
<1> USE DEF Try
<1>1. tries \in Nat /\ tries' = tries + 1 /\ tries' \in 1..MaxTries
    BY Constants DEF IInv, TypeOK
<1>2. \A m \in taken \cup adrift : m.no \in Nat /\ m.no <= tries
    BY Constants DEF IInv, TypeOK, NumbersInv
<1>3. \A m \in taken \cup adrift : m.no # tries'
    BY <1>1, <1>2
<1>4. \/ call' = Idle
      \/ /\ call' = Call("sent", adapter, to, content, "none")
         /\ to # None /\ content # "none"
    BY Zenon
<1>5. TypeOK'
    BY <1>1, <1>4 DEF IInv, TypeOK, Call
<1>6. NumbersInv'
    BY <1>1, <1>2 DEF IInv, NumbersInv
<1>7. TakenInv'
    BY DEF IInv, TakenInv, HasIt, Idle, Call
<1>8. AddressInv' /\ UrgedInv' /\ SuccessIsTaken'
    BY DEF IInv, AddressInv, MayReach, UrgedInv, SuccessIsTaken
<1>9. CallInv'
    <2>1. tries' \notin urged
        BY <1>3 DEF IInv, UrgedInv
    <2>2. QED
        BY <1>1, <1>3, <1>4, <2>1 DEF IInv, CallInv, MayReach, HasIt, Idle, Call
<1>10. QED
    BY <1>5, <1>6, <1>7, <1>8, <1>9 DEF IInv

LEMMA WebhookSendStep == IInv /\ WebhookSend => IInv'
<1> SUFFICES ASSUME IInv, WebhookSend PROVE IInv'
    OBVIOUS
<1>1. LET to == resolveWebhook(adapter) IN
      to \in Urls \cup Ids \cup {None} /\ (to = None \/ MayReach(to))
    BY Constants DEF IInv, TypeOK, ProviderData, Request, resolveWebhook, MayReach
<1>2. buildPayload(MsgType(adapter)) \in {"none", "text", "json", "raw"}
    BY DEF buildPayload
<1>3. QED
    BY <1>1, <1>2, TryStep DEF WebhookSend

LEMMA AppSendStep == IInv /\ AppSend => IInv'
<1> SUFFICES ASSUME IInv, AppSend PROVE IInv'
    OBVIOUS
<1>1. request.to \in Urls \cup Ids
    BY Constants DEF IInv, TypeOK, Request
<1>2. buildContent(MsgType(adapter)) \in {"none", "text", "json", "raw"}
    BY DEF buildContent
<1>3. QED
    BY <1>1, <1>2, TryStep DEF AppSend

-----------------------------------------------------------------------------
(* The steps of a Send in progress.                                        *)

LEMMA Sending ==
    ASSUME IInv, call # Idle
    PROVE  /\ call \in [pc : {"sent", "answer", "urging"}, adapter : ProviderData,
                        to : Urls \cup Ids, content : {"text", "json", "raw"},
                        reply : {"none", "taken", "refused"}]
           /\ tries \in 1..MaxTries
           /\ Message \in [to : Urls \cup Ids, no : 1..MaxTries]
BY Constants DEF IInv, TypeOK, CallInv, Message

(* Where a message that the provider would take goes.                      *)
LEMMA DeliverableAddress ==
    ASSUME IInv, call # Idle, Deliverable, call.to \in Urls
    PROVE  MayReach(call.to)
BY Sending, Constants DEF Deliverable, IInv, CallInv, ProviderData

LEMMA ArrivesStep == IInv /\ Arrives => IInv'
<1> SUFFICES ASSUME IInv, Arrives PROVE IInv'
    OBVIOUS
<1>1. call # Idle /\ call.pc = "sent"
    BY IdleCall DEF Arrives
<1>2. /\ call.pc = "sent" /\ call.to' = call.to /\ call'.pc = "answer"
      /\ call'.adapter = call.adapter /\ call'.to = call.to
      /\ call'.content = call.content
      /\ \/ call'.reply = "taken" /\ Deliverable /\ taken' = taken \cup {Message}
         \/ call'.reply = "refused" /\ taken' = taken
    BY <1>1, Sending DEF Arrives, Replies
<1>3. TypeOK'
    BY <1>1, Sending DEF IInv, TypeOK, Arrives, Replies
<1>4. NumbersInv'
    BY <1>1, <1>2, Sending DEF IInv, NumbersInv, CallInv, Message, Arrives
<1>5. TakenInv'
    BY <1>1, <1>2 DEF IInv, TakenInv, CallInv, HasIt, Message, Arrives
<1>6. AddressInv'
    BY <1>1, <1>2, DeliverableAddress DEF IInv, AddressInv, MayReach, Message, Arrives
<1>7. UrgedInv' /\ SuccessIsTaken'
    BY <1>2 DEF IInv, UrgedInv, SuccessIsTaken, Arrives
<1>8. CallInv'
    BY <1>1, <1>2 DEF IInv, CallInv, HasIt, Message, MayReach, Arrives
<1>9. QED
    BY <1>3, <1>4, <1>5, <1>6, <1>7, <1>8 DEF IInv, Arrives

(* A Send that ends without the sending of anything.                       *)
LEMMA EndsStep ==
    ASSUME IInv, call # Idle, NEW ok \in BOOLEAN, Ends(ok),
           untold' \in {untold, untold \cup {tries}},
           HasIt => ok \/ tries \in untold',
           ok => HasIt \/ tries \in untold',
           UNCHANGED <<request, adapter, tries, taken, adrift, urged>>
    PROVE  IInv'
<1> USE DEF Ends
<1>1. TypeOK'
    BY Sending DEF IInv, TypeOK
<1>2. NumbersInv' /\ AddressInv' /\ UrgedInv'
    BY DEF IInv, NumbersInv, AddressInv, MayReach, UrgedInv
<1>3. TakenInv'
    BY DEF IInv, TakenInv, CallInv
<1>4. CallInv'
    BY DEF CallInv
<1>5. SuccessIsTaken'
    BY DEF IInv, CallInv, SuccessIsTaken, Message
<1>6. QED
    BY <1>1, <1>2, <1>3, <1>4, <1>5 DEF IInv

LEMMA WebhookAnswerStep == IInv /\ WebhookAnswer => IInv'
<1> SUFFICES ASSUME IInv, WebhookAnswer PROVE IInv'
    OBVIOUS
<1> USE DEF WebhookAnswer
<1>1. call # Idle
    BY IdleCall
<1>2. PICK a \in Answers(call.reply) :
        /\ Ends(WebhookOk(a))
        /\ untold' = IF a.body \in {"nothing", "part"} THEN untold \cup {tries} ELSE untold
    OBVIOUS
<1>3. \/ a.body \in {"nothing", "part"}
      \/ a.http = "2xx" /\ a.body = "code 0" /\ call.reply = "taken"
      \/ a.body = "code" /\ call.reply # "taken"
    <2>1. CASE a \in [http : {"2xx", "other"}, body : {"nothing", "part"}]
        BY <2>1
    <2>2. CASE a = [http |-> "2xx", body |-> IF call.reply = "taken" THEN "code 0" ELSE "code"]
        BY <2>2
    <2>3. QED
        BY <2>1, <2>2 DEF Answers
<1>4. HasIt <=> call.reply = "taken"
    BY DEF HasIt
<1>5. WebhookOk(a) \in BOOLEAN
    BY DEF WebhookOk
<1>6. /\ HasIt => WebhookOk(a) \/ tries \in untold'
      /\ WebhookOk(a) => HasIt \/ tries \in untold'
    BY <1>2, <1>3, <1>4 DEF WebhookOk
<1>7. QED
    BY <1>1, <1>2, <1>5, <1>6, EndsStep

LEMMA AppAnswerStep == IInv /\ AppAnswer => IInv'
<1> SUFFICES ASSUME IInv, AppAnswer PROVE IInv'
    OBVIOUS
<1>1. call # Idle /\ call.pc = "answer"
    BY IdleCall DEF AppAnswer
<1>2. CASE Ends(FALSE) /\ call.reply = "refused"
    BY <1>1, <1>2, EndsStep DEF AppAnswer, HasIt
<1>3. CASE Ends(TRUE) /\ call.reply = "taken"
    BY <1>1, <1>3, EndsStep DEF AppAnswer, HasIt
<1>4. CASE /\ CanUrge(call.adapter) /\ call.reply = "taken"
           /\ call' = [call EXCEPT !.pc = "urging"] /\ UNCHANGED succeeded
    <2>1. /\ call'.pc = "urging" /\ call'.adapter = call.adapter /\ call'.to = call.to
          /\ call'.reply = call.reply
        BY <1>1, <1>4, Sending
    <2>2. TypeOK'
        BY <1>1, <1>4, Sending DEF IInv, TypeOK, AppAnswer
    <2>3. NumbersInv' /\ AddressInv' /\ UrgedInv' /\ SuccessIsTaken'
        BY <1>4 DEF IInv, NumbersInv, AddressInv, MayReach, UrgedInv, SuccessIsTaken,
                    AppAnswer
    <2>4. TakenInv' /\ CallInv'
        BY <1>1, <1>4, <2>1 DEF IInv, TakenInv, CallInv, HasIt, Message, MayReach, AppAnswer
    <2>5. QED
        BY <2>2, <2>3, <2>4 DEF IInv, AppAnswer
<1>5. QED
    BY <1>2, <1>3, <1>4 DEF AppAnswer, AppOk

LEMMA UrgeStep == IInv /\ Urge => IInv'
<1> SUFFICES ASSUME IInv, Urge PROVE IInv'
    OBVIOUS
<1> USE DEF Urge
<1>1. call # Idle /\ call.pc = "urging" /\ Message \in taken
    BY IdleCall DEF IInv, CallInv, HasIt
<1>2. Ends(TRUE) /\ urged' \in {urged, urged \cup {tries}}
    BY DEF AppOk
<1>3. TypeOK'
    BY <1>1, <1>2, Sending DEF Ends, IInv, TypeOK
<1>4. NumbersInv' /\ AddressInv'
    BY DEF IInv, NumbersInv, AddressInv, MayReach
<1>5. TakenInv'
    BY <1>1, <1>2 DEF IInv, TakenInv, Ends
<1>6. UrgedInv' /\ SuccessIsTaken'
    BY <1>1, <1>2 DEF IInv, UrgedInv, SuccessIsTaken, Message
<1>7. CallInv'
    BY <1>2 DEF CallInv, Ends
<1>8. QED
    BY <1>3, <1>4, <1>5, <1>6, <1>7 DEF IInv

LEMMA AbandonStep == IInv /\ Abandon => IInv'
<1> SUFFICES ASSUME IInv, Abandon PROVE IInv'
    OBVIOUS
<1> USE DEF Abandon, Ends
<1>1. CASE call.pc = "sent" /\ Deliverable
    <2>1. adrift' = adrift \cup {Message} /\ tries \in untold'
        BY <1>1
    <2>2. TypeOK'
        BY <2>1, Sending DEF IInv, TypeOK
    <2>3. NumbersInv'
        BY <1>1, <2>1, Sending DEF IInv, NumbersInv, CallInv, Message
    <2>4. TakenInv'
        BY <2>1 DEF IInv, TakenInv, CallInv, Message
    <2>5. AddressInv'
        BY <1>1, <2>1, DeliverableAddress DEF IInv, AddressInv, MayReach, Message
    <2>6. UrgedInv' /\ CallInv' /\ SuccessIsTaken'
        BY DEF IInv, UrgedInv, CallInv, SuccessIsTaken
    <2>7. QED
        BY <2>2, <2>3, <2>4, <2>5, <2>6 DEF IInv
<1>2. CASE ~(call.pc = "sent" /\ Deliverable)
    BY <1>2, EndsStep
<1>3. QED
    BY <1>1, <1>2

-----------------------------------------------------------------------------
(* The theorems. *)

LEMMA Inductive == Spec => []IInv
<1>1. IInv /\ [Next]_vars => IInv'
    <2> SUFFICES ASSUME IInv, [Next]_vars PROVE IInv'
        OBVIOUS
    <2>1. CASE UNCHANGED vars
        BY <2>1 DEF vars, IInv, TypeOK, NumbersInv, TakenInv, AddressInv, MayReach, UrgedInv,
                    CallInv, HasIt, Message, SuccessIsTaken
    <2>2. QED
        BY <2>1, ReloadStep, WebhookSendStep, AppSendStep, ArrivesStep, WebhookAnswerStep,
           AppAnswerStep, UrgeStep, AbandonStep, ArrivesLateStep DEF Next
<1>2. QED
    BY InvariantStarts, <1>1, PTL DEF Spec

THEOREM TypeCorrect == Spec => []TypeOK
<1>1. IInv => TypeOK
    BY DEF IInv
<1>2. QED
    BY Inductive, <1>1, PTL

(* A Send that succeeds has delivered, or its answer had no body.          *)
THEOREM SuccessMeansTaken == Spec => []SuccessIsTaken
<1>1. IInv => SuccessIsTaken
    BY DEF IInv
<1>2. QED
    BY Inductive, <1>1, PTL

(* Only a try of which nobody heard the end gives a recipient two copies.  *)
THEOREM NoNeedlessCopies == Spec => []ResentOnlyIfUntold
<1>1. IInv => ResentOnlyIfUntold
    <2> SUFFICES ASSUME IInv, NEW m \in taken, NEW n \in taken, m.no < n.no
                 PROVE  m.no \in untold
        BY DEF ResentOnlyIfUntold
    <2>1. m.no \in Nat /\ n.no \in Nat /\ tries \in Nat /\ n.no <= tries
        BY Constants DEF IInv, TypeOK, NumbersInv
    <2>2. QED
        BY <2>1 DEF IInv, TakenInv
<1>2. QED
    BY Inductive, <1>1, PTL

(* No retry, whatever reloads come between, posts a message that names its *)
(* bot to another one.                                                     *)
THEOREM NamedBotReached == Spec => []NamedBotOnly
<1>1. IInv => NamedBotOnly
    BY DEF IInv, AddressInv, MayReach, NamedBotOnly
<1>2. QED
    BY Inductive, <1>1, PTL

(* An urgent follow-up is of a message taken, one at most, and well formed.*)
THEOREM UrgentFollowUp == Spec => []UrgentFollowsMessage
<1>1. IInv => UrgentFollowsMessage
    <2> SUFFICES ASSUME IInv, call.pc = "urging"
                 PROVE  /\ call.adapter.urgentUserIdType \in UserIdTypes
                        /\ tries \notin urged /\ Message \in taken
        BY DEF UrgentFollowsMessage, IInv, UrgedInv
    <2>1. call # Idle
        BY IdleCall
    <2>2. QED
        BY <2>1, AdapterTypes DEF IInv, CallInv, HasIt, CanUrge, UserIdTypes
<1>2. QED
    BY Inductive, <1>1, PTL
=============================================================================
