------------------------------ MODULE MCEngine ------------------------------
(***************************************************************************)
(* Instances of Engine for TLC.                                            *)
(***************************************************************************)
EXTENDS EngineInvariant, TLC

CONSTANTS r1, r2, k1, k2, mail, chat

TwoChannels == {"email", "feishu_app"}

(* An incident for a mail address, a chat user and a phone number, which   *)
(* neither channel reaches; a resend of it to fewer; requests without a    *)
(* key, without a recipient, without the name of a template.               *)
Incident == [key |-> k1, template |-> [c \in TwoChannels |-> IF c = "email" THEN mail ELSE chat],
             recipients |-> <<"email", "phone">>]
Resend   == [key |-> k1, template |-> [c \in {"feishu_app"} |-> chat],
             recipients |-> <<"feishu_user_id">>]
Other    == [Resend EXCEPT !.key = k2]
Keyless  == [Resend EXCEPT !.key = NoKey]
Empty    == [Resend EXCEPT !.recipients = << >>]
Nameless == [Incident EXCEPT !.template["email"] = NoTemplate]

OneKey      == {Incident, Resend}
AllBodies   == {Incident, Resend, Other, Keyless, Empty, Nameless}
OnlyResend  == {Resend}

On      == [c \in TwoChannels |-> "enabled"]
NoMail  == [On EXCEPT !["email"] = "disabled"]
NoChat  == [On EXCEPT !["feishu_app"] = "absent"]

AlwaysOn    == {On}
AnyConfig   == {On, NoMail, NoChat}
MailOnOff   == {On, NoMail}

RequestSymmetry == Permutations(Requests)
=============================================================================
