----------------------------- MODULE Credentials -----------------------------
(***************************************************************************)
(* auth.Manager (pkg/auth/auth.go): the credentials in memory, the file    *)
(* they come from, and the two goroutines that may load it at a time: the  *)
(* watch loop and the caller of NewManager or Update.  Reload holds the    *)
(* lock to read m.path and to store the credentials, not in between.       *)
(***************************************************************************)
EXTENDS Naturals

CONSTANTS Paths,    \* the credential files that configurations name
          Secrets,  \* the contents that Reload accepts
          Broken,   \* a content it refuses: no file, half a file, no enabled app
          None      \* nothing loaded yet

ASSUME CredentialsAssumption ==
    /\ Broken \notin Secrets
    /\ None \notin Secrets \cup {Broken} \cup Paths

VARIABLES
    file,           \* the content of each credential file
    path, enabled,  \* the fields of the manager
    credentials,
    watcher,        \* "none", "open" or, after Stop, "closed"
    watched,        \* the files it watches, each with its directory
    events,         \* the files with an event that nobody has read
    reader,         \* where each goroutine is in Reload, and what it holds
    undo,           \* what Update goes back to (and the history of that)
    missed,         \* history: files changed unwatched since they were last read
    overlapped      \* history: the last Reload, or event, overlapped an Update

managed      == <<path, enabled, credentials>>
watching     == <<watcher, watched, events>>
credentialVars == <<file, managed, watching, reader, undo, missed, overlapped>>

Goroutines == {"loop", "caller"}

Resting  == {"idle", "done", "failed"}
Loading  == {"path", "read", "store"}

(* A path is held from "read" on, a content in "store" only.               *)
Reader ==
    [pc : Resting \cup {"path", "rollback", "rewatch"}, path : {None}, content : {None}]
    \cup [pc : {"read"}, path : Paths, content : {None}]
    \cup [pc : {"store"}, path : Paths, content : Secrets]

At(pc) == [pc |-> pc, path |-> None, content |-> None]

Busy(g) == reader[g].pc \notin Resting

(* NewManager before it loads anything.                                    *)
CredentialsInit(p, on) ==
    /\ file \in [Paths -> Secrets \cup {Broken}]
    /\ path = p /\ enabled = on /\ credentials = None
    /\ watcher = "none" /\ watched = {} /\ events = {}
    /\ reader = [g \in Goroutines |-> At("idle")]
    /\ undo = [path |-> p, enabled |-> on, overlapped |-> FALSE]
    /\ missed = {} /\ overlapped = FALSE

-----------------------------------------------------------------------------
(* Somebody writes the file of p or renames another over it: both send     *)
(* events, since the directory is watched, too.                            *)
EditCredentials(p) ==
    /\ \E content \in (Secrets \cup {Broken}) \ {file[p]} :
        file' = [file EXCEPT ![p] = content]
    /\ events' = IF p \in watched THEN events \cup {p} ELSE events
    /\ missed' = IF p \in watched THEN missed ELSE missed \cup {p}
    /\ UNCHANGED <<managed, watcher, watched, reader, undo, overlapped>>

-----------------------------------------------------------------------------
(* Mistake: shouldReload compares with the path before the last Update.    *)
ShouldReload_Undo(p) == p = undo.path

(* The event is of the file configured now, or of its directory.           *)
ShouldReload(p) == p = path

(* The watch loop takes an event.                                          *)
WatchEvent ==
    /\ reader["loop"].pc = "idle"
    /\ \E p \in events :
        /\ events' = events \ {p}
        /\ reader' = IF ShouldReload(p) THEN [reader EXCEPT !["loop"] = At("path")] ELSE reader
        /\ overlapped' = IF ShouldReload(p) THEN Busy("caller") ELSE overlapped \/ Busy("caller")
    /\ UNCHANGED <<file, managed, watcher, watched, undo, missed>>

(* Reload, in its three steps: m.path is read under the lock...            *)
TakePath(g) ==
    /\ reader[g].pc = "path"
    /\ reader' = [reader EXCEPT ![g] = [At("read") EXCEPT !.path = path]]
    /\ UNCHANGED <<file, managed, watching, undo, missed, overlapped>>

(* ... the file without it; the credentials are kept on an error...        *)
ReadFile(g) ==
    /\ reader[g].pc = "read"
    /\ LET content == file[reader[g].path] IN
        reader' = [reader EXCEPT ![g] =
                    IF content # Broken THEN [@ EXCEPT !.pc = "store", !.content = content]
                    ELSE IF g = "loop" THEN At("idle") ELSE At("rollback")]
    /\ missed' = missed \ {reader[g].path}
    /\ UNCHANGED <<file, managed, watching, undo, overlapped>>

(* ... and the credentials are replaced under it.                          *)
Store(g) ==
    /\ reader[g].pc = "store"
    /\ credentials' = reader[g].content
    /\ reader' = [reader EXCEPT ![g] =
                    IF g = "loop" THEN At("idle")
                    ELSE IF path # undo.path /\ watcher # "none" THEN At("rewatch")
                    ELSE At("done")]
    /\ UNCHANGED <<file, path, enabled, watching, undo, missed, overlapped>>

-----------------------------------------------------------------------------
(* NewManager and Update.  Validate has seen to it that there is a path    *)
(* when authentication is enabled.                                         *)
Update(p, on) ==
    /\ reader["caller"].pc = "idle"
    /\ path' = p /\ enabled' = on
    /\ undo' = [path |-> path, enabled |-> enabled, overlapped |-> overlapped]
    /\ reader' = [reader EXCEPT !["caller"] = At(IF on THEN "path" ELSE "done")]
    /\ overlapped' = IF on THEN Busy("loop") ELSE overlapped
    /\ UNCHANGED <<file, credentials, watching, missed>>

(* Mistake: a failed Update leaves the new settings. *)
Rollback_Nothing ==
    /\ reader["caller"].pc = "rollback"
    /\ reader' = [reader EXCEPT !["caller"] = At("failed")]
    /\ UNCHANGED <<file, managed, watching, undo, missed, overlapped>>

(* Mistake: it clears the path. *)
Rollback_Clears ==
    /\ reader["caller"].pc = "rollback"
    /\ path' = None /\ enabled' = FALSE
    /\ reader' = [reader EXCEPT !["caller"] = At("failed")]
    /\ UNCHANGED <<file, credentials, watching, undo, missed, overlapped>>

Rollback ==
    /\ reader["caller"].pc = "rollback"
    /\ path' = undo.path /\ enabled' = undo.enabled
    /\ overlapped' = (overlapped \/ undo.overlapped)
    /\ reader' = [reader EXCEPT !["caller"] = At("failed")]
    /\ UNCHANGED <<file, credentials, watching, undo, missed>>

(* The old paths are removed and the new ones added, which may fail.       *)
Rewatch ==
    /\ reader["caller"].pc = "rewatch"
    /\ \/ /\ watcher = "open"
          /\ watched' = {path}
          /\ reader' = [reader EXCEPT !["caller"] = At("done")]
       \/ /\ watched' = {}
          /\ reader' = [reader EXCEPT !["caller"] = At("failed")]
    /\ UNCHANGED <<file, managed, watcher, events, undo, missed, overlapped>>

(* Start, when Add does not fail.                                          *)
StartWatcher ==
    /\ watcher' = IF enabled THEN "open" ELSE "none"
    /\ watched' = IF enabled THEN {path} ELSE {}
    /\ reader' = [reader EXCEPT !["caller"] = At("idle")]
    /\ UNCHANGED <<file, managed, events, undo, missed, overlapped>>

StopWatcher ==
    /\ watcher' = IF watcher = "open" THEN "closed" ELSE watcher
    /\ watched' = {} /\ events' = {}
    /\ UNCHANGED <<file, managed, reader, undo, missed, overlapped>>

(* The caller has its answer.                                              *)
Return ==
    /\ reader' = [reader EXCEPT !["caller"] = At("idle")]
    /\ UNCHANGED <<file, managed, watching, undo, missed, overlapped>>

LoopStep   == WatchEvent \/ TakePath("loop") \/ ReadFile("loop") \/ Store("loop")
CallerStep == TakePath("caller") \/ ReadFile("caller") \/ Store("caller") \/ Rollback \/ Rewatch

-----------------------------------------------------------------------------
CredentialsTypeOK ==
    /\ file \in [Paths -> Secrets \cup {Broken}]
    /\ path \in Paths /\ enabled \in BOOLEAN
    /\ credentials \in Secrets \cup {None}
    /\ watcher \in {"none", "open", "closed"}
    /\ watched \subseteq Paths /\ events \subseteq Paths
    /\ reader \in [Goroutines -> Reader]
    /\ undo \in [path : Paths, enabled : BOOLEAN, overlapped : BOOLEAN]
    /\ missed \subseteq Paths /\ overlapped \in BOOLEAN

(* Both goroutines are at rest and left nothing to do for the configured   *)
(* file, which was watched whenever it changed, and no Update overlapped   *)
(* the watch loop.                                                         *)
Settled ==
    /\ ~Busy("loop") /\ ~Busy("caller")
    /\ path \notin events \cup missed
    /\ ~overlapped
=============================================================================
