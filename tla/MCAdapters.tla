----------------------------- MODULE MCAdapters -----------------------------
(***************************************************************************)
(* Instances of Adapters for TLC.                                          *)
(***************************************************************************)
EXTENDS AdaptersInvariant

CONSTANTS u1, u2, id

(* A bot of its own, or only the bots that messages name; an app without   *)
(* urgency, one with, one that sends to e-mails, one that cannot urge, and *)
(* one that cannot be made.                                                *)
Bot     == [type |-> "feishu_webhook", webhook |-> u1, credentials |-> FALSE, timeout |-> 0,
            msgType |-> "unset", receiveIdType |-> "unset",
            urgentUserIdType |-> "unset", urgentType |-> "unset"]
NoBot   == [Bot EXCEPT !.webhook = None, !.timeout = 5, !.msgType = "post"]
App     == [Bot EXCEPT !.type = "feishu_app", !.webhook = None, !.credentials = TRUE]
Urgent  == [App EXCEPT !.urgentType = "app"]
Mailing == [Urgent EXCEPT !.receiveIdType = "email"]
Odd     == [Urgent EXCEPT !.urgentType = "other", !.msgType = "interactive"]
Secret  == [App EXCEPT !.credentials = FALSE]

AllData == {Bot, NoBot, App, Urgent, Mailing, Odd, Secret}

AllRequests == [to : {u2, id}, hook : {u2, None}, msgType : {"unset", "text", "post", "other"},
                body : {"blank", "plain", "json"}]
=============================================================================
