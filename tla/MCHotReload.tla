----------------------------- MODULE MCHotReload -----------------------------
(***************************************************************************)
(* Instances of HotReload for TLC.                                         *)
(***************************************************************************)
EXTENDS HotReloadInvariant

CONSTANTS p1, p2, bot, app, broken

(* A configuration; one with another bot, file and no list of backoffs;    *)
(* one whose second provider cannot be made, with a shorter list; an empty *)
(* file, which is valid and leaves authentication to the command line;     *)
(* half a file, which is not.                                              *)
First   == [valid |-> TRUE, auth |-> p1, on |-> TRUE, providers |-> {bot}, backoff |-> 2]
Second  == [valid |-> TRUE, auth |-> p2, on |-> TRUE, providers |-> {app, bot}, backoff |-> 0]
Faulty  == [First EXCEPT !.providers = {bot, broken}, !.backoff = 1]
Emptied == [valid |-> TRUE, auth |-> p2, on |-> FALSE, providers |-> {}, backoff |-> 0]
Half    == [First EXCEPT !.valid = FALSE]

AllConfigs == {First, Second, Faulty, Emptied, Half}
=============================================================================
