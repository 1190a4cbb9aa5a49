------------------------------ MODULE HotReload ------------------------------
(***************************************************************************)
(* The life of a process (main.go) and the reload of its configuration:    *)
(* config.Reloader watches the file, Server.Reload overwrites the one      *)
(* GlobalConfig that everybody reads, builds new adapters, updates the     *)
(* credential manager and hands the adapters to the dispatcher.  A job of  *)
(* the dispatcher computes a backoff meanwhile.                            *)
(***************************************************************************)
EXTENDS Credentials, Integers

CONSTANTS Configs,      \* the contents of the configuration file
          Providers,    \* what the providers of configurations say: name, type, data
          Unusable,     \* those whose adapter cannot be made (no appId)
          Unknown,      \* those of a type without an adapter
          RetryCounts,  \* the retry counts of jobs
          MaxEdits      \* bound: how often the files change

(* A content is valid if it parses and Validate accepts it; auth and on    *)
(* are what it says of authentication, backoff is the length of its list.  *)
ASSUME HotReloadAssumption ==
    /\ Configs \subseteq [valid : BOOLEAN, auth : Paths, on : BOOLEAN,
                          providers : SUBSET Providers, backoff : Nat]
    /\ Unusable \subseteq Providers
    /\ Unknown \subseteq Providers \ Unusable
    /\ RetryCounts \subseteq Nat
    /\ MaxEdits \in Nat

VARIABLES
    configFile,         \* the content of the configuration file
    configWatched,      \* the watcher has it
    configEvent,        \* an event that says so is unread
    stage,              \* where main is
    config,             \* GlobalConfig: the content each field comes from
    reload,             \* where the reloader is
    built,              \* the map Server.adapters
    shared,             \* it is the map the dispatcher has
    adapters,           \* the map Dispatcher.adapters
    backoff,            \* a job in retryBackoffDuration
    edits,              \* the changes of files so far
    active,             \* history: the content of the last reload that succeeded
    configMissed        \* history: why changes of the file went unnoticed

configVars == <<configFile, configWatched, configEvent, configMissed>>
serverVars == <<config, built, shared, adapters, active>>
vars == <<credentialVars, configVars, serverVars, stage, reload, backoff, edits>>

-----------------------------------------------------------------------------
Stages == {"adapters", "credentials", "watch", "reloader",
           "running", "stopping", "stopped", "exited"}

(* The fields that matter here; a slice is two words.                      *)
Fields == {"auth", "length", "array", "channels", "providers"}

(* The order of the assignments in ApplyHotReload.                         *)
NextFields(todo) ==
    IF "auth" \in todo THEN {"auth"}
    ELSE IF todo \cap {"length", "array"} # {} THEN todo \cap {"length", "array"}
    ELSE IF "channels" \in todo THEN {"channels"}
    ELSE todo

(* fields and providers are what is still to do of the reload of content;  *)
(* failed is how the last one ended.                                       *)
Reload == [pc        : {"off", "idle", "read", "apply", "map", "build", "auth", "wait", "swap"},
           content   : Configs,
           fields    : SUBSET Fields,
           providers : SUBSET Providers,
           failed    : BOOLEAN]

Made(content) == content.providers \ (Unusable \cup Unknown)

(* A job: index is backoffIndex, disturbed says that the list was being    *)
(* replaced meanwhile.                                                     *)
Backoff == [pc        : {"idle", "clamp", "last", "check", "load", "panic", "garbage"},
            index     : Int,
            disturbed : BOOLEAN]

NoBackoff == [pc |-> "idle", index |-> 0, disturbed |-> FALSE]

(* main has loaded and validated the configuration.                        *)
Init ==
    /\ configFile \in {c \in Configs : c.valid}
    /\ configWatched = FALSE /\ configEvent = FALSE /\ configMissed = {}
    /\ stage = "adapters"
    /\ config = [f \in Fields |-> configFile]
    /\ reload = [pc |-> "off", content |-> configFile, fields |-> {}, providers |-> {},
                 failed |-> FALSE]
    /\ built = {} /\ shared = FALSE /\ adapters = {}
    /\ active = configFile
    /\ backoff = NoBackoff
    /\ edits = 0
    /\ CredentialsInit(configFile.auth, configFile.on)

-----------------------------------------------------------------------------
(* The files change.  An in-place save truncates the file and writes it:   *)
(* two edits, each with an event.  A file renamed over the watched one     *)
(* takes the watch away; the event of that is not a Write or Create.       *)
Reason == IF stage \in {"running", "stopping", "stopped"} THEN "unwatched" ELSE "startup"

EditConfig(replaced) ==
    /\ configFile' \in Configs \ {configFile}
    /\ configWatched' = (configWatched /\ ~replaced)
    /\ configEvent' = (configEvent \/ configWatched')
    /\ configMissed' = IF configWatched' THEN configMissed ELSE configMissed \cup {Reason}
    /\ UNCHANGED credentialVars

Edit ==
    /\ stage # "exited"
    /\ edits < MaxEdits
    /\ edits' = edits + 1
    /\ \/ \E replaced \in BOOLEAN : EditConfig(replaced)
       \/ \E p \in Paths : EditCredentials(p) /\ UNCHANGED configVars
    /\ UNCHANGED <<serverVars, stage, reload, backoff>>

-----------------------------------------------------------------------------
(* main and Server.Init, in their order; an error ends the process.        *)
Exits == stage' = "exited"

StartAdapters ==
    /\ stage = "adapters"
    /\ IF active.providers \cap Unusable # {}
       THEN Exits /\ UNCHANGED serverVars
       ELSE /\ stage' = "credentials"
            /\ built' = Made(active) /\ adapters' = built' /\ shared' = TRUE
            /\ UNCHANGED <<config, active>>
    /\ UNCHANGED <<credentialVars, configVars, reload, backoff, edits>>

StartManager ==
    /\ stage = "credentials"
    /\ stage' = "watch"
    /\ Update(active.auth, active.on)
    /\ UNCHANGED <<configVars, serverVars, reload, backoff, edits>>

StartWatching ==
    /\ stage = "watch"
    /\ \/ reader["caller"].pc = "done" /\ StartWatcher /\ stage' = "reloader"
       \/ reader["caller"].pc \in {"done", "failed"} /\ Exits /\ UNCHANGED credentialVars
    /\ UNCHANGED <<configVars, serverVars, reload, backoff, edits>>

StartReloader ==
    /\ stage = "reloader"
    /\ \/ /\ stage' = "running"
          /\ configWatched' = TRUE
          /\ reload' = [reload EXCEPT !.pc = "idle"]
       \/ Exits /\ UNCHANGED <<configWatched, reload>>
    /\ UNCHANGED <<credentialVars, configFile, configEvent, configMissed,
                   serverVars, backoff, edits>>

(* SIGINT or SIGTERM; Shutdown, which waits for the jobs of the            *)
(* dispatcher; at last Reloader.Stop, which waits for its loop.            *)
Terminate ==
    /\ stage = "running"
    /\ stage' = "stopping"
    /\ UNCHANGED <<credentialVars, configVars, serverVars, reload, backoff, edits>>

Shutdown ==
    /\ stage = "stopping"
    /\ backoff.pc \in {"idle", "garbage"}
    /\ stage' = "stopped"
    /\ StopWatcher
    /\ UNCHANGED <<configVars, serverVars, reload, backoff, edits>>

Exit ==
    /\ stage = "stopped"
    /\ reload.pc = "off"
    /\ Exits
    /\ UNCHANGED <<credentialVars, configVars, serverVars, reload, backoff, edits>>

-----------------------------------------------------------------------------
(* The loop of the reloader.  handleEvent takes the event, then reads.     *)
HandleEvent ==
    /\ reload.pc = "idle"
    /\ configEvent
    /\ configEvent' = FALSE
    /\ reload' = [reload EXCEPT !.pc = "read"]
    /\ UNCHANGED <<credentialVars, configFile, configWatched, configMissed,
                   serverVars, stage, backoff, edits>>

ReloaderExits ==
    /\ stage \in {"stopping", "stopped"}
    /\ reload.pc = "idle"
    /\ reload' = [reload EXCEPT !.pc = "off"]
    /\ UNCHANGED <<credentialVars, configVars, serverVars, stage, backoff, edits>>

Ended(content, isFailure) ==
    [pc |-> "idle", content |-> content, fields |-> {}, providers |-> {}, failed |-> isFailure]

(* LoadGlobalConfig and Validate look at what was read.                    *)
ReadConfig ==
    /\ reload.pc = "read"
    /\ reload' = IF configFile.valid
                 THEN [Ended(configFile, reload.failed) EXCEPT !.pc = "apply", !.fields = Fields]
                 ELSE Ended(active, TRUE)
    /\ configMissed' = {}
    /\ UNCHANGED <<credentialVars, configFile, configWatched, configEvent,
                   serverVars, stage, backoff, edits>>

(* ApplyHotReload, which takes no lock.                                    *)
ApplyField ==
    /\ reload.pc = "apply"
    /\ \E f \in NextFields(reload.fields) :
        /\ config' = [config EXCEPT ![f] = reload.content]
        /\ reload' = [reload EXCEPT !.fields = @ \ {f},
                                    !.pc = IF reload.fields = {f} THEN "map" ELSE "apply"]
        /\ backoff' = [backoff EXCEPT !.disturbed =
                         @ \/ (backoff.pc # "idle" /\ f \in {"length", "array"})]
    /\ UNCHANGED <<credentialVars, configVars, built, shared, adapters, active, stage, edits>>

(* Mistake: initAdapters clears the map it has. *)
NewMap_Clears ==
    /\ reload.pc = "map"
    /\ built' = {} /\ adapters' = IF shared THEN {} ELSE adapters
    /\ reload' = [reload EXCEPT !.pc = IF reload.content.providers = {} THEN "auth" ELSE "build",
                                !.providers = reload.content.providers]
    /\ UNCHANGED <<credentialVars, configVars, config, shared, active, stage, backoff, edits>>

(* initAdapters makes a map of its own...                                  *)
NewMap ==
    /\ reload.pc = "map"
    /\ built' = {} /\ shared' = FALSE
    /\ reload' = [reload EXCEPT !.pc = IF reload.content.providers = {} THEN "auth" ELSE "build",
                                !.providers = reload.content.providers]
    /\ UNCHANGED <<credentialVars, configVars, config, adapters, active, stage, backoff, edits>>

(* ... and fills it provider by provider, in any order.                    *)
MakeAdapter ==
    /\ reload.pc = "build"
    /\ \E p \in reload.providers :
        /\ built' = IF p \in Unusable \cup Unknown THEN built ELSE built \cup {p}
        /\ adapters' = IF shared THEN built' ELSE adapters
        /\ reload' = IF p \in Unusable THEN Ended(active, TRUE)
                     ELSE [reload EXCEPT !.providers = @ \ {p},
                                         !.pc = IF reload.providers = {p} THEN "auth" ELSE "build"]
    /\ UNCHANGED <<credentialVars, configVars, config, shared, active, stage, backoff, edits>>

(* Mistake: it holds the lock that Reload takes again, so that an Update   *)
(* that enables authentication never returns.                              *)
UpdateAuth_Locked ==
    /\ reload.pc = "auth" /\ ~config["auth"].on
    /\ Update(config["auth"].auth, FALSE)
    /\ reload' = [reload EXCEPT !.pc = "wait"]
    /\ UNCHANGED <<configVars, serverVars, stage, backoff, edits>>

UpdateAuth ==
    /\ reload.pc = "auth"
    /\ Update(config["auth"].auth, config["auth"].on)
    /\ reload' = [reload EXCEPT !.pc = "wait"]
    /\ UNCHANGED <<configVars, serverVars, stage, backoff, edits>>

Answered == reader["caller"].pc \in {"done", "failed"}

AuthUpdated ==
    /\ reload.pc = "wait"
    /\ Answered
    /\ reload' = IF reader["caller"].pc = "done" THEN [reload EXCEPT !.pc = "swap"]
                 ELSE Ended(active, TRUE)
    /\ Return
    /\ UNCHANGED <<configVars, serverVars, stage, backoff, edits>>

(* Mistake: events that arrive while the reloader works are thrown away. *)
EventsLeft_None == FALSE

(* They wait in the channel of the watcher.                                *)
EventsLeft == configEvent

UpdateAdapters ==
    /\ reload.pc = "swap"
    /\ adapters' = built /\ shared' = TRUE
    /\ active' = reload.content
    /\ reload' = Ended(reload.content, FALSE)
    /\ configEvent' = EventsLeft
    /\ UNCHANGED <<credentialVars, configFile, configWatched, configMissed,
                   config, built, stage, backoff, edits>>

ReloadStep ==
    \/ HandleEvent \/ ReadConfig \/ ApplyField \/ NewMap \/ MakeAdapter
    \/ UpdateAuth \/ AuthUpdated \/ UpdateAdapters

-----------------------------------------------------------------------------
(* retryBackoffDuration reads the list again and again; the index of a     *)
(* slice is checked against one word and used with the other.              *)
Length == config["length"].backoff

Goes(pc, index) == backoff' = [backoff EXCEPT !.pc = pc, !.index = index]

BackoffStart(n) ==
    /\ backoff.pc \in {"idle", "garbage"}
    /\ stage \in Stages \ {"adapters", "stopped", "exited"}
    /\ Length # 0
    /\ backoff' = [pc |-> "clamp", index |-> n,
                   disturbed |-> config["length"] # config["array"]]

(* Mistake: the length itself is taken for the last index. *)
BackoffClamp_Length ==
    \/ /\ backoff.pc = "clamp"
       /\ Goes(IF backoff.index >= Length THEN "last" ELSE "check", backoff.index)
    \/ backoff.pc = "last" /\ Goes("check", Length)

BackoffClamp ==
    \/ /\ backoff.pc = "clamp"
       /\ Goes(IF backoff.index >= Length THEN "last" ELSE "check", backoff.index)
    \/ backoff.pc = "last" /\ Goes("check", Length - 1)

BackoffLoad ==
    \/ /\ backoff.pc = "check"
       /\ Goes(IF backoff.index \in 0..(Length - 1) THEN "load" ELSE "panic", backoff.index)
    \/ /\ backoff.pc = "load"
       /\ backoff' = IF backoff.index < config["array"].backoff THEN NoBackoff
                     ELSE [backoff EXCEPT !.pc = "garbage"]

(* A panic of a job ends the process.                                      *)
Job ==
    /\ \/ (\E n \in RetryCounts : BackoffStart(n)) \/ BackoffClamp \/ BackoffLoad
    /\ stage # "exited"
    /\ stage' = IF backoff'.pc = "panic" THEN "exited" ELSE stage
    /\ UNCHANGED <<credentialVars, configVars, serverVars, reload, edits>>

-----------------------------------------------------------------------------
(* The goroutines of package auth, and those of the server.                *)
Auth(step) == step /\ UNCHANGED <<configVars, serverVars, stage, reload, backoff, edits>>

Starts == StartAdapters \/ StartManager \/ StartWatching \/ StartReloader

Next ==
    \/ Edit \/ Starts \/ Terminate \/ Shutdown \/ Exit \/ ReloaderExits \/ Job
    \/ stage # "exited" /\ (ReloadStep \/ Auth(LoopStep) \/ Auth(CallerStep))

Spec == Init /\ [][Next]_vars

(* Every goroutine is scheduled and every call returns; the jobs in flight *)
(* when the dispatcher is told to stop are finitely many, so that Shutdown *)
(* is not put off for ever (strong fairness).                              *)
FairSpec ==
    /\ Spec
    /\ WF_vars(Starts) /\ SF_vars(Shutdown) /\ WF_vars(Exit) /\ WF_vars(ReloaderExits)
    /\ WF_vars(stage # "exited" /\ ReloadStep)
    /\ WF_vars(stage # "exited" /\ Auth(CallerStep))
    /\ WF_vars(stage # "exited" /\ Auth(LoopStep))
    /\ WF_vars(Job /\ backoff.pc \notin {"idle", "garbage"})

-----------------------------------------------------------------------------
TypeOK ==
    /\ CredentialsTypeOK
    /\ configFile \in Configs /\ configWatched \in BOOLEAN /\ configEvent \in BOOLEAN
    /\ configMissed \subseteq {"startup", "unwatched"}
    /\ stage \in Stages
    /\ config \in [Fields -> Configs]
    /\ reload \in Reload
    /\ built \subseteq Providers /\ shared \in BOOLEAN /\ adapters \subseteq Providers
    /\ active \in Configs
    /\ backoff \in Backoff
    /\ edits \in 0..MaxEdits

(* The dispatcher always has the adapters of one configuration, the last   *)
(* one reloaded in full: never a map that is being filled, never that of a *)
(* reload that failed half way (server.go:144-176, 304-326).               *)
AdaptersWhole ==
    stage \notin {"adapters", "exited"} => adapters = Made(active)

(* A reload that is over has changed the authentication and the adapters   *)
(* together or neither, and if it did not fail all of the configuration is *)
(* the one it read.  Only a failure to watch the new credential file       *)
(* leaves the new authentication with the old adapters.                    *)
AllOrNothing ==
    stage = "running" /\ reload.pc = "idle" =>
        /\ \/ path = active.auth /\ enabled = active.on
           \/ watcher = "open" /\ watched = {}
        /\ ~reload.failed => \A f \in Fields : config[f] = active

(* When the reloader is at rest with no event left, the configuration in   *)
(* force is that of the file, or its reload failed - unless the file was   *)
(* changed before it was watched or replaced by a rename.                  *)
ConfigSettles ==
    stage = "running" /\ reload.pc = "idle" /\ ~configEvent /\ configMissed = {}
        => active = configFile \/ reload.failed

(* Once the watch loop and Update are at rest and no event is left, the    *)
(* credentials in memory are those of the configured file, or the file is  *)
(* broken and the last good ones are kept - unless the file changed while  *)
(* it was not watched, or an Update overlapped the watch loop: then the    *)
(* older content may have been stored last (auth.go:82-125, 146-263).      *)
CredentialsSettle ==
    stage = "running" /\ enabled /\ Settled => file[path] \in {credentials, Broken}

(* A job computes a backoff outside the list only if a reload replaced the *)
(* list in the meantime, whatever its retry count and the list are.        *)
BackoffInList == backoff.pc \in {"panic", "garbage"} => backoff.disturbed

(* A process told to stop exits: Shutdown and Reloader.Stop never wait for *)
(* ever for a job or for the reload under way, however it ends             *)
(* (main.go:99-139, reloader.go:55-65).                                    *)
StopTerminates == stage = "stopping" ~> stage = "exited"

=============================================================================
