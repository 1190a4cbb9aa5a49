------------------------------ MODULE Adapters ------------------------------
(***************************************************************************)
(* The tries to send one rendered message through pkg/adapter: Send of     *)
(* feishu_webhook and of feishu_app, step by step against a provider that  *)
(* may refuse the message, take it without the caller hearing of it, or    *)
(* take it after the caller has given up.  A failed try is made again, by  *)
(* whatever adapter a reload of the configuration has left in its place.   *)
(***************************************************************************)
EXTENDS Integers

CONSTANTS Urls,      \* addresses of bots
          Ids,       \* of users and chats
          None,      \* an address that is not given
          Data,      \* the provider data that configurations hold
          Requests,  \* the messages that the dispatcher asks to be sent
          MaxTries   \* bound: tries of the message

Or(value, default) == IF value = "unset" THEN default ELSE value

IdTypes     == {"open_id", "user_id", "union_id", "email", "chat_id"}
UserIdTypes == {"open_id", "user_id", "union_id"}

(* "other" is what the adapters do not support; a timeout of 0 is none.    *)
ProviderData ==
    [type : {"feishu_webhook", "feishu_app"}, webhook : Urls \cup {None},
     credentials : BOOLEAN, timeout : Nat,
     msgType : {"unset", "text", "post", "interactive", "other"},
     receiveIdType : IdTypes \cup {"unset"}, urgentUserIdType : IdTypes \cup {"unset"},
     urgentType : {"unset", "app", "sms", "phone", "other"}]

(* to is RecipientValue, hook a webhook named by the parameters (Metadata).*)
Request == [to : Urls \cup Ids, hook : Urls \cup {None},
            msgType : {"unset", "text", "post", "interactive", "other"},
            body : {"blank", "plain", "json"}]

ASSUME AdaptersAssumption ==
    /\ Urls \cap Ids = {} /\ None \notin Urls \cup Ids
    /\ Data \subseteq ProviderData
    /\ \A d \in Data : d.urgentUserIdType \in UserIdTypes \cup {"unset"}  \* README.md:348
    /\ Requests \subseteq Request
    /\ MaxTries \in Nat

VARIABLES
    request,    \* the message; the same in every try
    adapter,    \* the adapter that the dispatcher finds for its provider
    call,       \* the Send in progress
    tries,      \* made so far: the last one's number
    succeeded,  \* the last try was answered with Success
    taken,      \* the messages that providers have taken, by address and try
    adrift,     \* those sent by a try that is over, still on their way
    urged,      \* the tries whose urgent follow-up was taken
    untold      \* history: the tries of which the caller did not hear the end

vars == <<request, adapter, call, tries, succeeded, taken, adrift, urged, untold>>

-----------------------------------------------------------------------------
(* New of each adapter.                                                    *)

(* Mistake: a timeout that is not configured is none.                      *)
WebhookNew_NoTimeout(d) == [d EXCEPT !.msgType = Or(@, "interactive")]

(* Mistake: no message type by default.                                    *)
WebhookNew_NoType(d) == [d EXCEPT !.timeout = IF @ > 0 THEN @ ELSE 10]

WebhookNew(d) == [d EXCEPT !.msgType = Or(@, "interactive"),
                           !.timeout = IF @ > 0 THEN @ ELSE 10]

(* Mistake: urgentUserIdType defaults to any receiveIdType.                *)
AppNew_AnyIdType(d) ==
    [d EXCEPT !.receiveIdType = Or(@, "open_id"),
              !.urgentUserIdType = Or(@, Or(d.receiveIdType, "open_id")),
              !.msgType = Or(@, "text"), !.timeout = 0]

(* The client of the SDK is made without a timeout.                        *)
AppNew(d) ==
    [d EXCEPT !.receiveIdType = Or(@, "open_id"),
              !.urgentUserIdType = IF d.receiveIdType \in {"email", "chat_id"} THEN @
                                   ELSE Or(@, Or(d.receiveIdType, "open_id")),
              !.msgType = Or(@, "text"), !.timeout = 0]

New(d) == IF d.type = "feishu_webhook" THEN WebhookNew(d) ELSE AppNew(d)

Adapter == {New(d) : d \in {e \in Data : e.type = "feishu_app" => e.credentials}}

-----------------------------------------------------------------------------
(* Mistake: the webhook of the provider goes first.                        *)
resolveWebhook_ProviderFirst(a) ==
    IF a.webhook # None THEN a.webhook
    ELSE IF request.hook # None THEN request.hook
    ELSE IF request.to \in Urls THEN request.to ELSE None

resolveWebhook(a) ==
    IF request.hook # None THEN request.hook
    ELSE IF request.to \in Urls THEN request.to ELSE a.webhook

(* The shape of what is posted, or "none": the message is not sent.  A     *)
(* plain body becomes an interactive card.                                 *)
buildPayload(msgType) ==
    CASE request.body = "blank" -> "none"
      [] msgType = "text" -> "text"
      [] msgType = "interactive" -> "json"
      [] msgType = "post" /\ request.body = "json" -> "json"
      [] OTHER -> "none"

(* "raw" is not what the type of the message asks for, but is sent.        *)
buildContent(msgType) == IF msgType = "text" THEN "text"
                         ELSE IF request.body = "json" THEN "json" ELSE "raw"

MsgType(a) == Or(request.msgType, a.msgType)

Call(pc, a, to, content, reply) ==
    [pc |-> pc, adapter |-> a, to |-> to, content |-> content, reply |-> reply]

Idle == Call("idle", None, None, "none", "none")

Init ==
    /\ request \in Requests
    /\ adapter \in Adapter
    /\ call = Idle
    /\ tries = 0 /\ succeeded = FALSE
    /\ taken = {} /\ adrift = {} /\ urged = {} /\ untold = {}

(* The configuration is loaded again: the next try uses a new adapter.     *)
Reload ==
    /\ adapter' \in Adapter
    /\ UNCHANGED <<request, call, tries, succeeded, taken, adrift, urged, untold>>

(* Send up to the request: it may fail before anything is sent.            *)
Try(to, content) ==
    /\ call = Idle /\ ~succeeded /\ tries < MaxTries
    /\ tries' = tries + 1
    /\ call' = IF to = None \/ content = "none" THEN Idle
               ELSE Call("sent", adapter, to, content, "none")
    /\ UNCHANGED <<request, adapter, succeeded, taken, adrift, urged, untold>>

WebhookSend ==
    /\ adapter.type = "feishu_webhook"
    /\ Try(resolveWebhook(adapter), buildPayload(MsgType(adapter)))

AppSend ==
    /\ adapter.type = "feishu_app"
    /\ Try(request.to, buildContent(MsgType(adapter)))

-----------------------------------------------------------------------------
Message == [to |-> call.to, no |-> tries]

(* The provider cannot take what is malformed or for nobody it knows.      *)
Deliverable == /\ call.content # "raw"
               /\ call.adapter.type = "feishu_app" => call.to \in Ids

Replies(reply) == call' = [call EXCEPT !.pc = "answer", !.reply = reply]

(* The provider takes the message or refuses it.                           *)
Arrives ==
    /\ call.pc = "sent"
    /\ \/ Deliverable /\ Replies("taken") /\ taken' = taken \cup {Message}
       \/ Replies("refused") /\ UNCHANGED taken
    /\ UNCHANGED <<request, adapter, tries, succeeded, adrift, urged, untold>>

Ends(ok) == call' = Idle /\ succeeded' = ok

(* What the caller can receive of a reply: its code, or, since an error of *)
(* reading the body is ignored, a part that is no JSON, or nothing.        *)
Answers(reply) ==
    {[http |-> "2xx", body |-> IF reply = "taken" THEN "code 0" ELSE "code"]}
    \cup [http : {"2xx", "other"}, body : {"nothing", "part"}]

(* Mistake: the code is not looked at.                                     *)
WebhookOk_AnyCode(a) == a.http = "2xx" /\ a.body # "part"

(* No body counts as a success, a part of one as a failure.                *)
WebhookOk(a) == a.http = "2xx" /\ a.body \in {"nothing", "code 0"}

WebhookAnswer ==
    /\ call.pc = "answer" /\ call.adapter.type = "feishu_webhook"
    /\ \E a \in Answers(call.reply) :
        /\ Ends(WebhookOk(a))
        /\ untold' = IF a.body \in {"nothing", "part"} THEN untold \cup {tries} ELSE untold
    /\ UNCHANGED <<request, adapter, tries, taken, adrift, urged>>

(* sendUrgent makes a request only for these.                              *)
CanUrge(a) == a.urgentType \in {"app", "sms", "phone"} /\ a.urgentUserIdType # "unset"

(* Mistake: a failure of the urgent follow-up fails the message.           *)
AppOk_Urgent(urgentOk) == urgentOk

(* The message exists: its Send succeeds, however the follow-up ends.      *)
AppOk(urgentOk) == TRUE

(* There is no follow-up without a urgentType or a message_id.             *)
AppAnswer ==
    /\ call.pc = "answer" /\ call.adapter.type = "feishu_app"
    /\ \/ call.reply = "refused" /\ Ends(FALSE)
       \/ call.reply = "taken" /\ Ends(TRUE)
       \/ /\ call.reply = "taken" /\ call.adapter.urgentType # "unset"
          /\ IF CanUrge(call.adapter)
             THEN call' = [call EXCEPT !.pc = "urging"] /\ UNCHANGED succeeded
             ELSE Ends(AppOk(FALSE))
    /\ UNCHANGED <<request, adapter, tries, taken, adrift, urged, untold>>

Urge ==
    /\ call.pc = "urging"
    /\ \E reached, ok \in BOOLEAN :
        /\ ok => reached
        /\ urged' = IF reached THEN urged \cup {tries} ELSE urged
        /\ Ends(AppOk(ok))
    /\ UNCHANGED <<request, adapter, tries, taken, adrift, untold>>

(* The request fails (connection, timeout, cancelled context, an answer    *)
(* that the SDK cannot read), or the process dies and the task is expired; *)
(* while urging, it is only the latter.                                    *)
Abandon ==
    /\ call # Idle
    /\ adrift' = IF call.pc = "sent" /\ Deliverable THEN adrift \cup {Message} ELSE adrift
    /\ untold' = untold \cup {tries}
    /\ Ends(FALSE)
    /\ UNCHANGED <<request, adapter, tries, taken, urged>>

TimesOut == call.pc \in {"sent", "answer"} /\ call.adapter.timeout > 0 /\ Abandon

(* A message arrives after its try is over.                                *)
ArrivesLate ==
    /\ \E m \in adrift : taken' = taken \cup {m} /\ adrift' = adrift \ {m}
    /\ UNCHANGED <<request, adapter, call, tries, succeeded, urged, untold>>

Next ==
    \/ Reload \/ WebhookSend \/ AppSend
    \/ Arrives \/ WebhookAnswer \/ AppAnswer \/ Urge
    \/ Abandon \/ ArrivesLate

Spec == Init /\ [][Next]_vars

(* A client with a timeout returns, whatever the provider does.            *)
FairSpec == Spec /\ WF_vars(TimesOut)

-----------------------------------------------------------------------------
TypeOK ==
    /\ request \in Requests
    /\ adapter \in ProviderData /\ adapter.msgType # "unset"
    /\ call = Idle \/ call \in [pc : {"sent", "answer", "urging"}, adapter : ProviderData,
                                to : Urls \cup Ids, content : {"text", "json", "raw"},
                                reply : {"none", "taken", "refused"}]
    /\ tries \in 0..MaxTries
    /\ succeeded \in BOOLEAN
    /\ taken \cup adrift \subseteq [to : Urls \cup Ids, no : 1..MaxTries]
    /\ urged \cup untold \subseteq 1..MaxTries

(* Send answers Success only when the provider has taken the message of    *)
(* this very try, or when nothing of the body of its answer was received,  *)
(* which both the provider's yes and its no can end as.                    *)
SuccessIsTaken ==
    succeeded => (\E m \in taken : m.no = tries) \/ tries \in untold

(* The recipient gets the message again only if Send could not know that   *)
(* it had got it: a try whose answer arrived is never followed by another. *)
(* In particular a failed urgent follow-up does not resend the message.    *)
ResentOnlyIfUntold ==
    \A m, n \in taken : m.no < n.no => m.no \in untold

(* Whatever the providers' webhooks become while a message is retried, one *)
(* that names its bot, by its parameters or else by its recipient, reaches *)
(* no other bot.                                                           *)
NamedBotOnly ==
    \A m \in taken : m.to \in Urls =>
        \/ m.to = request.hook
        \/ request.hook = None /\ (m.to = request.to \/ request.to \notin Urls)

(* An urgent follow-up belongs to a message that the provider has taken,   *)
(* at most one to each, and names its receiver by a kind of ID that the    *)
(* urgent API knows, although messages may be sent to e-mails and chats.   *)
UrgentFollowsMessage ==
    /\ \A i \in urged : \E m \in taken : m.no = i
    /\ call.pc = "urging" => /\ call.adapter.urgentUserIdType \in UserIdTypes
                             /\ tries \notin urged
                             /\ Message \in taken

(* Send of the webhook adapter returns even if the provider never answers. *)
WebhookReturns ==
    (call # Idle /\ call.adapter.type = "feishu_webhook") ~> (call = Idle)
=============================================================================
