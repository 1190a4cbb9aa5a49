---------------------------- MODULE MCDispatcher ----------------------------
(***************************************************************************)
(* Instances of Dispatcher for TLC.                                        *)
(***************************************************************************)
EXTENDS DispatcherInvariant, TLC

CONSTANTS t1, t2, n1, d1, d2

OneTask      == {t1}
TwoTasks     == {t1, t2}
Together     == [t \in Tasks |-> n1]
RetryOnce    == [t \in Tasks |-> 1]
NoBackoff    == << >>
ShortBackoff == <<1>>

DispatcherSymmetry == Permutations(Dispatchers)
=============================================================================
