------------------------------- MODULE MCNotify -------------------------------
(***************************************************************************)
(* An instance of Notify for TLC: requests with one key and one recipient  *)
(* for one app channel, and a template that may come back for a bot.       *)
(***************************************************************************)
EXTENDS Notify, TLC

CONSTANTS k1, alarm, d1

AppAndBot == {"feishu_app", "feishu_webhook"}

Alarm == [key |-> k1, template |-> [c \in {"feishu_app"} |-> alarm],
          recipients |-> <<"email">>]

OnlyAlarm == {Alarm}
AlwaysOn  == {[c \in AppAndBot |-> "enabled"]}
AppTasks  == Requests \X ({1} \X {"feishu_app"})
RetryOnce == [t \in AppTasks |-> 1]
NoBackoff == << >>

RequestSymmetry == Permutations(Requests)
=============================================================================
