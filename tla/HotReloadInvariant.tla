-------------------------- MODULE HotReloadInvariant --------------------------
(***************************************************************************)
(* The inductive invariant of module HotReload: what each stage of a       *)
(* reload has done so far, and what each goroutine of the credential       *)
(* manager knows of the file.                                              *)
(***************************************************************************)
EXTENDS HotReload

Starting == {"adapters", "credentials", "watch", "reloader"}
NotApplying == {"off", "idle", "read"}                  \* no content is being applied
Applied  == {"map", "build", "auth", "wait", "swap"}    \* ApplyHotReload is done

-----------------------------------------------------------------------------
(* The map that a reload fills is its own, and in the end it is whole.     *)
AdaptersInv ==
    /\ stage \in Starting => reload.pc = "off"
    /\ reload.pc = "build" =>
        /\ ~shared
        /\ reload.providers \subseteq reload.content.providers
        /\ built = Made(reload.content) \ reload.providers
    /\ reload.pc \in {"auth", "wait", "swap"} => built = Made(reload.content)
    /\ AdaptersWhole

(* An undisturbed job has one list before it, and its index is in bounds   *)
(* once it has been clamped.                                               *)
BackoffInv ==
    backoff.pc # "idle" /\ ~backoff.disturbed =>
        /\ config["length"] = config["array"] /\ Length # 0
        /\ backoff.pc = "clamp" => backoff.index \in Nat
        /\ backoff.pc \in {"check", "load"} => backoff.index \in 0..(Length - 1)
        /\ backoff.pc \notin {"panic", "garbage"}

(* Which fields of the configuration come from the content being applied.  *)
FieldsInv ==
    /\ reload.pc = "apply" => \A f \in Fields \ reload.fields : config[f] = reload.content
    /\ reload.pc \in Applied => \A f \in Fields : config[f] = reload.content
    /\ reload.pc \in NotApplying /\ ~reload.failed => \A f \in Fields : config[f] = active

(* With no event left, what is applied is what the file says.              *)
FileInv ==
    stage \in Starting \cup {"running"} /\ ~configEvent /\ configMissed = {} =>
        /\ reload.pc \in {"off", "idle"} => active = configFile \/ reload.failed
        /\ reload.pc \in Applied \cup {"apply"} => reload.content = configFile

-----------------------------------------------------------------------------
Agrees(content) == path = content.auth /\ enabled = content.on
Unwatched       == watcher = "open" /\ watched = {}

(* What the manager has, for the reload that waits for it and for the one  *)
(* before: an Update that fails can go back.                               *)
AuthInv ==
    /\ stage \in {"adapters", "credentials"} => reader["caller"].pc = "idle" /\ Agrees(active)
    /\ stage = "watch" =>
        /\ Agrees(active) /\ undo.path = path /\ undo.enabled = enabled
        /\ reader["caller"].pc # "rewatch"
    /\ stage \notin {"stopped", "exited"} => watcher # "closed"
    /\ stage \in {"reloader", "running"} =>
        /\ reload.pc \notin {"wait", "swap"} =>
            reader["caller"].pc = "idle" /\ (Agrees(active) \/ Unwatched)
        /\ reload.pc = "wait" =>
            /\ reader["caller"].pc \in Loading \cup {"rollback", "rewatch", "done"}
                => Agrees(reload.content)
            /\ reader["caller"].pc \in {"path", "read", "rollback"}
                => (undo.path = active.auth /\ undo.enabled = active.on) \/ Unwatched
            /\ reader["caller"].pc = "rewatch" => watcher = "open"
            /\ reader["caller"].pc = "failed" => Agrees(active) \/ Unwatched
        /\ reload.pc = "swap" => reader["caller"].pc = "idle" /\ Agrees(reload.content)

-----------------------------------------------------------------------------
Alive     == stage \notin {"stopped", "exited"}
Up        == Alive /\ stage \notin {"adapters", "credentials"}
Unseen(p) == p \in events \cup missed
Good(p)   == file[p] \in {credentials, Broken}

(* A goroutine that overlapped nothing is about to store the configured    *)
(* file as it is, or as it was before a change that is still to be seen.   *)
ReadersInv ==
    /\ reader["caller"].pc \in {"read", "store"} => reader["caller"].path = path
    /\ Busy("caller") /\ ~overlapped => ~Busy("loop")
    /\ reader["loop"].pc \in {"read", "store"} /\ enabled /\ ~overlapped
        => reader["loop"].path = path
    /\ \A g \in Goroutines :
        Alive /\ reader[g].pc = "store" /\ ~overlapped /\ ~Unseen(reader[g].path)
            => reader[g].content = file[reader[g].path]

(* The credentials are those of the file, or will be after a change that   *)
(* is still to be seen; the same of those that an Update may go back to.   *)
StoredInv ==
    Up /\ ~overlapped =>
        /\ (/\ enabled /\ ~Unseen(path) /\ ~Busy("loop")
            /\ \/ stage # "watch" /\ reader["caller"].pc \in Resting \cup {"rewatch"}
               \/ reader["caller"].pc = "done")
           => Good(path)
        /\ (/\ undo.enabled /\ ~undo.overlapped /\ ~Unseen(undo.path)
            /\ stage # "watch" /\ reader["caller"].pc \in {"path", "read", "rollback"})
           => Good(undo.path)

CredentialsInv == ReadersInv /\ StoredInv

IInv == TypeOK /\ AdaptersInv /\ BackoffInv /\ FieldsInv /\ FileInv /\ AuthInv /\ CredentialsInv
=============================================================================
