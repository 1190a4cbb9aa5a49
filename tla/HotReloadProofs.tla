--------------------------- MODULE HotReloadProofs ---------------------------
(***************************************************************************)
(* Proofs about the hot reload for any configurations, providers, files    *)
(* and jobs, and any number of changes.                                    *)
(***************************************************************************)
EXTENDS HotReloadInvariant, TLAPS

-----------------------------------------------------------------------------
(* Types. *)

(* What a content says has the types of what is made from it.              *)
LEMMA ConfigTypes ==
    ASSUME NEW c \in Configs
    PROVE  c.valid \in BOOLEAN /\ c.auth \in Paths /\ c.on \in BOOLEAN
           /\ c.providers \subseteq Providers /\ c.backoff \in Nat
BY HotReloadAssumption

LEMMA ReaderTypes ==
    /\ \A pc \in Resting \cup {"path", "rollback", "rewatch"} : At(pc) \in Reader
    /\ \A p \in Paths : [At("read") EXCEPT !.path = p] \in Reader
    /\ \A r \in Reader : r.pc = "read" => r.path \in Paths /\ r.content = None
    /\ \A r \in Reader : r.pc = "store" => r.path \in Paths /\ r.content \in Secrets
    /\ \A r \in Reader, c \in Secrets :
        r.pc = "read" => [r EXCEPT !.pc = "store", !.content = c] \in Reader
BY DEF Reader, At, Resting

LEMMA UpdateType ==
    ASSUME CredentialsTypeOK, NEW p \in Paths, NEW on \in BOOLEAN, Update(p, on)
    PROVE  CredentialsTypeOK'
<1>1. overlapped' \in BOOLEAN
    BY DEF Update, Busy, CredentialsTypeOK
<1>2. reader' \in [Goroutines -> Reader]
    BY ReaderTypes DEF Update, Goroutines, Resting, CredentialsTypeOK
<1>3. undo' \in [path : Paths, enabled : BOOLEAN, overlapped : BOOLEAN]
    BY DEF Update, CredentialsTypeOK
<1>4. QED
    BY <1>1, <1>2, <1>3 DEF Update, watching, CredentialsTypeOK

LEMMA RestTypes ==
    ASSUME CredentialsTypeOK, StartWatcher \/ StopWatcher \/ Return
    PROVE  CredentialsTypeOK'
<1>1. At("idle") \in Reader
    BY ReaderTypes DEF Resting
<1>2. QED
    BY <1>1 DEF StartWatcher, StopWatcher, Return, managed, watching, Goroutines,
                CredentialsTypeOK

LEMMA StepTypes ==
    ASSUME CredentialsTypeOK, LoopStep \/ CallerStep
    PROVE  CredentialsTypeOK'
<1> USE DEF CredentialsTypeOK, Goroutines
<1>1. CASE WatchEvent
    <2> PICK p \in events :
            /\ events' = events \ {p}
            /\ reader' = IF ShouldReload(p) THEN [reader EXCEPT !["loop"] = At("path")]
                         ELSE reader
            /\ overlapped' = IF ShouldReload(p) THEN Busy("caller")
                             ELSE overlapped \/ Busy("caller")
        BY <1>1 DEF WatchEvent
    <2>1. reader' \in [Goroutines -> Reader]
        BY ReaderTypes
    <2>2. overlapped' \in BOOLEAN
        BY DEF Busy
    <2>3. QED
        BY <1>1, <2>1, <2>2 DEF WatchEvent, managed
<1>2. ASSUME NEW g \in Goroutines, TakePath(g) PROVE CredentialsTypeOK'
    BY <1>2, ReaderTypes DEF TakePath, managed, watching
<1>3. ASSUME NEW g \in Goroutines, ReadFile(g) PROVE CredentialsTypeOK'
    <2>1. reader[g] \in Reader /\ file[reader[g].path] \in Secrets \cup {Broken}
        BY <1>3, ReaderTypes DEF ReadFile
    <2>2. reader' \in [Goroutines -> Reader]
        BY <1>3, <2>1, ReaderTypes DEF ReadFile, Resting
    <2>3. QED
        BY <1>3, <2>2 DEF ReadFile, managed, watching
<1>4. ASSUME NEW g \in Goroutines, Store(g) PROVE CredentialsTypeOK'
    <2>1. reader' \in [Goroutines -> Reader]
        BY <1>4, ReaderTypes DEF Store, Resting
    <2>2. credentials' \in Secrets
        BY <1>4, ReaderTypes DEF Store
    <2>3. QED
        BY <1>4, <2>1, <2>2 DEF Store, watching
<1>5. CASE Rollback
    <2>1. reader' \in [Goroutines -> Reader]
        BY <1>5, ReaderTypes DEF Rollback, Resting
    <2>2. QED
        BY <1>5, <2>1 DEF Rollback, watching
<1>6. CASE Rewatch
    <2> PICK pc \in {"done", "failed"} : reader' = [reader EXCEPT !["caller"] = At(pc)]
        BY <1>6 DEF Rewatch
    <2>0. At(pc) \in Reader
        BY ReaderTypes DEF Resting
    <2>1. reader' \in [Goroutines -> Reader]
        BY <2>0
    <2>2. watched' \subseteq Paths
        BY <1>6 DEF Rewatch
    <2>3. QED
        BY <1>6, <2>1, <2>2 DEF Rewatch, managed
<1>7. QED
    BY <1>1, <1>2, <1>3, <1>4, <1>5, <1>6 DEF LoopStep, CallerStep

LEMMA EditTypes ==
    ASSUME CredentialsTypeOK, NEW p \in Paths, EditCredentials(p)
    PROVE  CredentialsTypeOK'
BY DEF EditCredentials, managed, CredentialsTypeOK

LEMMA InitialTypes == Init => TypeOK
<1> SUFFICES ASSUME Init PROVE TypeOK
    OBVIOUS
<1>1. configFile \in Configs /\ configFile.auth \in Paths /\ configFile.on \in BOOLEAN
    BY ConfigTypes DEF Init
<1>2. CredentialsTypeOK
    BY <1>1, ReaderTypes DEF Init, CredentialsInit, CredentialsTypeOK, Goroutines, Resting
<1>3. reload \in Reload /\ backoff \in Backoff
    BY <1>1 DEF Init, Reload, Backoff, NoBackoff
<1>4. edits \in 0..MaxEdits
    BY HotReloadAssumption DEF Init
<1>5. config \in [Fields -> Configs]
    BY <1>1 DEF Init
<1>6. QED
    BY <1>1, <1>2, <1>3, <1>4, <1>5 DEF Init, TypeOK, Stages

LEMMA ReloadTypes ==
    /\ \A content \in Configs, isFailure \in BOOLEAN : Ended(content, isFailure) \in Reload
    /\ \A content \in Configs : Made(content) \subseteq Providers
BY HotReloadAssumption DEF Ended, Reload, Made

LEMMA TypesKept == TypeOK /\ [Next]_vars => TypeOK'
<1> SUFFICES ASSUME TypeOK, [Next]_vars PROVE TypeOK'
    OBVIOUS
<1> USE DEF TypeOK, configVars, serverVars
<1>1. CredentialsTypeOK /\ UNCHANGED credentialVars => CredentialsTypeOK'
    BY DEF credentialVars, managed, watching, CredentialsTypeOK
<1>2. CASE Edit
    <2>1. CredentialsTypeOK'
        BY <1>1, <1>2, EditTypes DEF Edit, EditConfig
    <2>2. configMissed' \subseteq {"startup", "unwatched"}
        BY <1>2 DEF Edit, EditConfig, Reason
    <2>3. /\ configFile' \in Configs /\ configWatched' \in BOOLEAN
          /\ configEvent' \in BOOLEAN
        BY <1>2 DEF Edit, EditConfig
    <2>4. edits' \in 0..MaxEdits
        BY <1>2, HotReloadAssumption DEF Edit
    <2>5. QED
        BY <1>2, <2>1, <2>2, <2>3, <2>4 DEF Edit
<1>3. CASE StartAdapters
    BY <1>1, <1>3, ReloadTypes DEF StartAdapters, Exits, Stages
<1>4. CASE StartManager
    BY <1>4, ConfigTypes, UpdateType DEF StartManager, Stages
<1>5. CASE StartWatching
    BY <1>1, <1>5, RestTypes DEF StartWatching, Exits, Stages
<1>6. CASE StartReloader
    BY <1>1, <1>6 DEF StartReloader, Exits, Stages, Reload
<1>7. CASE Terminate \/ Exit
    BY <1>1, <1>7 DEF Terminate, Exit, Exits, Stages
<1>8. CASE Shutdown
    BY <1>8, RestTypes DEF Shutdown, Stages
<1>9. CASE ReloaderExits
    BY <1>1, <1>9 DEF ReloaderExits, Reload
<1>10. CASE Job
    <2>1. backoff' \in Backoff
        <3>1. Length \in Nat
            BY ConfigTypes DEF Length, Fields
        <3>2. CASE \E n \in RetryCounts : BackoffStart(n)
            BY <3>2, HotReloadAssumption DEF BackoffStart, Backoff
        <3>3. CASE BackoffClamp
            <4> PICK pc \in {"last", "check"}, i \in Int : Goes(pc, i)
                BY <3>1, <3>3 DEF BackoffClamp, Backoff
            <4> QED
                BY DEF Goes, Backoff
        <3>4. CASE BackoffLoad
            <4>1. \/ backoff' = NoBackoff
                  \/ \E pc \in {"load", "panic", "garbage"} : backoff' = [backoff EXCEPT !.pc = pc]
                BY <3>4 DEF BackoffLoad, Goes, Backoff
            <4>2. CASE backoff' = NoBackoff
                BY <4>2 DEF Backoff, NoBackoff
            <4>3. ASSUME NEW pc \in {"load", "panic", "garbage"},
                         backoff' = [backoff EXCEPT !.pc = pc]
                  PROVE  backoff' \in Backoff
                BY <4>3 DEF Backoff
            <4>4. QED
                BY <4>1, <4>2, <4>3
        <3>5. QED
            BY <1>10, <3>2, <3>3, <3>4 DEF Job
    <2>2. QED
        BY <1>1, <1>10, <2>1 DEF Job, Stages
<1>11. CASE HandleEvent
    BY <1>1, <1>11 DEF HandleEvent, Reload
<1>12. CASE ReadConfig
    <2>1. reload' \in Reload
        BY <1>12, ReloadTypes DEF ReadConfig, Ended, Reload
    <2>2. QED
        BY <1>1, <1>12, <2>1 DEF ReadConfig
<1>13. CASE ApplyField
    <2> PICK f \in NextFields(reload.fields) :
            /\ config' = [config EXCEPT ![f] = reload.content]
            /\ reload' = [reload EXCEPT !.fields = @ \ {f},
                                        !.pc = IF reload.fields = {f} THEN "map" ELSE "apply"]
            /\ backoff' = [backoff EXCEPT !.disturbed =
                             @ \/ (backoff.pc # "idle" /\ f \in {"length", "array"})]
        BY <1>13 DEF ApplyField
    <2>1. reload' \in Reload /\ reload.content \in Configs
        BY DEF Reload
    <2>2. config' \in [Fields -> Configs]
        BY <2>1
    <2>3. backoff' \in Backoff
        BY DEF Backoff
    <2>4. QED
        BY <1>1, <1>13, <2>1, <2>2, <2>3 DEF ApplyField
<1>14. CASE NewMap
    <2>1. reload' \in Reload
        BY <1>14, ConfigTypes DEF NewMap, Reload
    <2>2. QED
        BY <1>1, <1>14, <2>1 DEF NewMap
<1>15. CASE MakeAdapter
    <2>1. reload' \in Reload
        <3> PICK p \in reload.providers :
                reload' = IF p \in Unusable THEN Ended(active, TRUE)
                          ELSE [reload EXCEPT !.providers = @ \ {p},
                                              !.pc = IF reload.providers = {p} THEN "auth"
                                                     ELSE "build"]
            BY <1>15 DEF MakeAdapter
        <3>1. Ended(active, TRUE) \in Reload
            BY ReloadTypes
        <3>2. QED
            BY <3>1 DEF Reload
    <2>2. built' \subseteq Providers /\ adapters' \subseteq Providers
        BY <1>15 DEF MakeAdapter, Reload
    <2>3. QED
        BY <1>1, <1>15, <2>1, <2>2 DEF MakeAdapter
<1>16. CASE UpdateAuth
    <2>1. reload' \in Reload /\ config["auth"] \in Configs
        BY <1>16 DEF UpdateAuth, Reload, Fields
    <2>2. QED
        BY <1>16, <2>1, ConfigTypes, UpdateType DEF UpdateAuth
<1>17. CASE AuthUpdated
    <2>1. reload' \in Reload
        BY <1>17, ReloadTypes DEF AuthUpdated, Reload
    <2>2. QED
        BY <1>17, <2>1, RestTypes DEF AuthUpdated
<1>18. CASE UpdateAdapters
    <2>1. reload' \in Reload /\ reload.content \in Configs
        BY <1>18, ReloadTypes DEF UpdateAdapters, Reload
    <2>2. QED
        BY <1>1, <1>18, <2>1 DEF UpdateAdapters, EventsLeft
<1>19. CASE Auth(LoopStep) \/ Auth(CallerStep)
    BY <1>19, StepTypes DEF Auth
<1>20. CASE UNCHANGED vars
    BY <1>1, <1>20 DEF vars
<1>21. QED
    BY <1>2, <1>3, <1>4, <1>5, <1>6, <1>7, <1>8, <1>9, <1>10, <1>11, <1>12, <1>13, <1>14,
       <1>15, <1>16, <1>17, <1>18, <1>19, <1>20 DEF Next, Starts, ReloadStep

(* TypeOK (HotReload.tla) is an invariant of the specification.            *)
THEOREM TypeCorrect == Spec => []TypeOK
<1>1. Init => TypeOK
    BY InitialTypes
<1>2. TypeOK /\ [Next]_vars => TypeOK'
    BY TypesKept
<1>3. QED
    BY <1>1, <1>2, PTL DEF Spec

-----------------------------------------------------------------------------
(* Adapters. *)

LEMMA AdaptersStep == TypeOK /\ AdaptersInv /\ [Next]_vars => AdaptersInv'
<1> SUFFICES ASSUME TypeOK, AdaptersInv, [Next]_vars PROVE AdaptersInv'
    OBVIOUS
<1> USE DEF AdaptersInv, AdaptersWhole, serverVars, Starting
<1>1. CASE StartAdapters
    BY <1>1 DEF StartAdapters, Exits
<1>2. CASE StartManager \/ StartWatching
    BY <1>2 DEF StartManager, StartWatching, Exits
<1>3. CASE StartReloader
    BY <1>3 DEF StartReloader, Exits, TypeOK, Reload
<1>4. CASE Edit \/ Terminate \/ Shutdown \/ Exit
    BY <1>4 DEF Edit, Terminate, Shutdown, Exit, Exits
<1>5. CASE ReloaderExits
    BY <1>5 DEF ReloaderExits, TypeOK, Reload
<1>6. CASE Job
    BY <1>6 DEF Job
<1>7. CASE HandleEvent
    BY <1>7 DEF HandleEvent, TypeOK, Reload
<1>8. CASE ReadConfig
    BY <1>8 DEF ReadConfig, Ended
<1>9. CASE ApplyField
    BY <1>9 DEF ApplyField, TypeOK, Reload
<1>10. CASE NewMap
    BY <1>10 DEF NewMap, TypeOK, Reload, Made
<1>11. CASE MakeAdapter
    <2> PICK p \in reload.providers :
            /\ built' = IF p \in Unusable \cup Unknown THEN built ELSE built \cup {p}
            /\ adapters' = IF shared THEN built' ELSE adapters
            /\ reload' = IF p \in Unusable THEN Ended(active, TRUE)
                         ELSE [reload EXCEPT !.providers = @ \ {p},
                                             !.pc = IF reload.providers = {p} THEN "auth"
                                                    ELSE "build"]
        BY <1>11 DEF MakeAdapter
    <2>1. adapters' = adapters /\ active' = active /\ stage' = stage
        BY <1>11 DEF MakeAdapter
    <2>2. CASE p \in Unusable
        BY <1>11, <2>1, <2>2 DEF MakeAdapter, Ended
    <2>3. CASE p \notin Unusable
        <3>1. built' = Made(reload.content) \ (reload.providers \ {p})
            BY <1>11, <2>3 DEF MakeAdapter, Made
        <3>2. reload'.content = reload.content /\ reload'.providers = reload.providers \ {p}
              /\ reload'.pc = IF reload.providers = {p} THEN "auth" ELSE "build"
            BY <2>3 DEF TypeOK, Reload
        <3>3. QED
            BY <1>11, <2>1, <3>1, <3>2 DEF MakeAdapter, Made
    <2>4. QED
        BY <2>2, <2>3
<1>12. CASE UpdateAuth
    BY <1>12 DEF UpdateAuth, TypeOK, Reload
<1>13. CASE AuthUpdated
    BY <1>13 DEF AuthUpdated, Ended, TypeOK, Reload
<1>14. CASE UpdateAdapters
    BY <1>14 DEF UpdateAdapters, Ended
<1>15. CASE Auth(LoopStep) \/ Auth(CallerStep)
    BY <1>15 DEF Auth
<1>16. CASE UNCHANGED vars
    BY <1>16 DEF vars
<1>17. QED
    BY <1>1, <1>2, <1>3, <1>4, <1>5, <1>6, <1>7, <1>8, <1>9, <1>10, <1>11, <1>12, <1>13, <1>14,
       <1>15, <1>16 DEF Next, Starts, ReloadStep

-----------------------------------------------------------------------------
(* Backoff. *)

LEMMA JobStep ==
    ASSUME TypeOK, BackoffInv, Job
    PROVE  BackoffInv'
<1> USE DEF Length, serverVars
<1>1. UNCHANGED config /\ config["length"] \in Configs /\ Length \in Nat /\ Length' = Length
    BY ConfigTypes DEF Job, TypeOK, Fields
<1>2. ASSUME NEW n \in RetryCounts, BackoffStart(n) PROVE BackoffInv'
    BY <1>1, <1>2, HotReloadAssumption DEF BackoffStart, BackoffInv
<1>3. CASE BackoffClamp
    <2>1. backoff \in Backoff
        BY DEF TypeOK
    <2>2. backoff'.disturbed = backoff.disturbed /\ backoff.pc # "idle"
        BY <1>3, <2>1 DEF BackoffClamp, Goes, Backoff
    <2>3. CASE backoff.disturbed
        BY <2>2, <2>3 DEF BackoffInv
    <2>4. CASE ~backoff.disturbed /\ backoff.pc = "clamp"
        <3>1. backoff.index \in Nat /\ Length # 0 /\ config["length"] = config["array"]
            BY <2>4 DEF BackoffInv
        <3>2. Goes(IF backoff.index >= Length THEN "last" ELSE "check", backoff.index)
            BY <1>3, <2>4 DEF BackoffClamp
        <3>3. backoff'.index = backoff.index /\ backoff'.pc \in {"last", "check"}
              /\ (backoff'.pc = "check" => ~(backoff.index >= Length))
            BY <2>1, <3>2 DEF Goes, Backoff
        <3>4. backoff'.pc = "check" => backoff'.index \in 0..(Length - 1)
            BY <1>1, <3>1, <3>3
        <3>5. QED
            BY <1>1, <2>2, <3>1, <3>3, <3>4 DEF BackoffInv
    <2>5. CASE ~backoff.disturbed /\ backoff.pc = "last"
        <3>1. Length # 0 /\ config["length"] = config["array"]
            BY <2>5 DEF BackoffInv
        <3>2. Goes("check", Length - 1)
            BY <1>3, <2>5 DEF BackoffClamp
        <3>3. backoff'.index = Length - 1 /\ backoff'.pc = "check"
            BY <2>1, <3>2 DEF Goes, Backoff
        <3>4. backoff'.index \in 0..(Length - 1)
            BY <1>1, <3>1, <3>3
        <3>5. QED
            BY <1>1, <2>2, <3>1, <3>3, <3>4 DEF BackoffInv
    <2>6. QED
        BY <1>3, <2>3, <2>4, <2>5 DEF BackoffClamp
<1>4. CASE BackoffLoad
    <2>1. backoff \in Backoff
        BY DEF TypeOK
    <2>2. CASE backoff.disturbed
        <3>1. backoff'.disturbed \/ backoff'.pc = "idle"
            <4>1. \/ backoff' = NoBackoff
                  \/ \E pc \in {"load", "panic", "garbage"} : backoff' = [backoff EXCEPT !.pc = pc]
                BY <1>4, <2>1 DEF BackoffLoad, Goes, Backoff
            <4>2. QED
                BY <2>1, <2>2, <4>1 DEF Backoff, NoBackoff
        <3>2. QED
            BY <3>1 DEF BackoffInv
    <2>3. CASE ~backoff.disturbed
        <3>1. /\ backoff.index \in 0..(Length - 1) /\ Length # 0
              /\ config["length"] = config["array"]
            BY <1>4, <2>3 DEF BackoffLoad, BackoffInv
        <3>2. CASE backoff.pc = "check"
            <4>1. backoff'.index = backoff.index /\ backoff'.pc = "load"
                BY <1>4, <2>1, <3>1, <3>2 DEF BackoffLoad, Goes, Backoff
            <4>2. QED
                BY <1>1, <3>1, <4>1 DEF BackoffInv
        <3>3. CASE backoff.pc = "load"
            <4>1. backoff.index < config["array"].backoff
                BY <1>1, <3>1
            <4>2. backoff' = NoBackoff
                BY <1>4, <3>3, <4>1 DEF BackoffLoad
            <4>3. QED
                BY <4>2 DEF NoBackoff, BackoffInv
        <3>4. QED
            BY <1>4, <3>2, <3>3 DEF BackoffLoad
    <2>4. QED
        BY <2>2, <2>3
<1>5. QED
    BY <1>2, <1>3, <1>4 DEF Job

LEMMA BackoffStep == TypeOK /\ BackoffInv /\ [Next]_vars => BackoffInv'
<1> SUFFICES ASSUME TypeOK, BackoffInv, [Next]_vars PROVE BackoffInv'
    OBVIOUS
<1>1. CASE Job
    BY <1>1, JobStep
<1>2. CASE ApplyField
    <2> PICK f \in Fields :
            /\ config' = [config EXCEPT ![f] = reload.content]
            /\ backoff' = [backoff EXCEPT !.disturbed =
                             @ \/ (backoff.pc # "idle" /\ f \in {"length", "array"})]
        BY <1>2 DEF ApplyField, NextFields, TypeOK, Reload
    <2>1. /\ backoff'.pc = backoff.pc /\ backoff'.index = backoff.index
          /\ backoff'.disturbed =
                (backoff.disturbed \/ (backoff.pc # "idle" /\ f \in {"length", "array"}))
        BY DEF TypeOK, Backoff
    <2>2. CASE f \in {"length", "array"}
        BY <2>1, <2>2 DEF BackoffInv
    <2>3. CASE f \notin {"length", "array"}
        <3>1. config'["length"] = config["length"] /\ config'["array"] = config["array"]
            BY <2>3 DEF TypeOK, Fields
        <3>2. QED
            BY <2>1, <2>3, <3>1 DEF BackoffInv, Length
    <2>4. QED
        BY <2>2, <2>3
<1>3. CASE /\ Next /\ ~Job /\ ~ApplyField
    <2>1. UNCHANGED <<backoff, config>>
        BY <1>3 DEF Next, Starts, ReloadStep, Auth, serverVars, Edit, StartAdapters, StartManager,
            StartWatching, StartReloader, Terminate, Shutdown, Exit, ReloaderExits, HandleEvent,
            ReadConfig, NewMap, MakeAdapter, UpdateAuth, AuthUpdated, UpdateAdapters
    <2>2. QED
        BY <2>1 DEF BackoffInv, Length
<1>4. CASE UNCHANGED vars
    BY <1>4 DEF vars, serverVars, BackoffInv, Length
<1>5. QED
    BY <1>1, <1>2, <1>3, <1>4

-----------------------------------------------------------------------------
(* The configuration in force and the file. *)

LEMMA FieldsStep == TypeOK /\ AdaptersInv /\ FieldsInv /\ [Next]_vars => FieldsInv'
<1> SUFFICES ASSUME TypeOK, AdaptersInv, FieldsInv, [Next]_vars PROVE FieldsInv'
    OBVIOUS
<1> USE DEF FieldsInv, NotApplying, Applied
<1>1. reload \in Reload /\ config \in [Fields -> Configs]
    BY DEF TypeOK
<1>2. CASE UNCHANGED <<config, active, reload>>
    BY <1>2
<1>3. CASE \E pc \in {"off", "idle"} :
            /\ reload' = [reload EXCEPT !.pc = pc] /\ reload.pc \in {"off", "idle"}
            /\ UNCHANGED <<config, active>>
    BY <1>1, <1>3 DEF Reload
<1>4. CASE HandleEvent
    BY <1>1, <1>4 DEF HandleEvent, Reload, serverVars
<1>5. CASE ReadConfig
    BY <1>5 DEF ReadConfig, Ended, serverVars
<1>6. CASE ApplyField
    <2> PICK f \in NextFields(reload.fields) :
            /\ config' = [config EXCEPT ![f] = reload.content]
            /\ reload' = [reload EXCEPT !.fields = @ \ {f},
                                        !.pc = IF reload.fields = {f} THEN "map" ELSE "apply"]
        BY <1>6 DEF ApplyField
    <2>1. f \in Fields
        BY <1>1 DEF NextFields, Reload
    <2>2. /\ reload'.content = reload.content /\ reload'.fields = reload.fields \ {f}
          /\ reload'.pc = IF reload.fields = {f} THEN "map" ELSE "apply"
        BY <1>1 DEF Reload
    <2>3. \A g \in (Fields \ reload.fields) \cup {f} : config'[g] = reload.content
        BY <1>1, <1>6, <2>1 DEF ApplyField
    <2>4. QED
        BY <2>2, <2>3
<1>7. CASE NewMap \/ MakeAdapter \/ UpdateAuth \/ AuthUpdated
    <2>1. UNCHANGED <<config, active>>
        BY <1>7 DEF NewMap, MakeAdapter, UpdateAuth, AuthUpdated, serverVars
    <2>2. \/ reload' = Ended(active, TRUE)
          \/ reload.pc \in Applied /\ reload'.pc \in Applied /\ reload'.content = reload.content
        BY <1>1, <1>7 DEF NewMap, MakeAdapter, UpdateAuth, AuthUpdated, Reload
    <2>3. QED
        BY <2>1, <2>2 DEF Ended
<1>8. CASE UpdateAdapters
    BY <1>8 DEF UpdateAdapters, Ended
<1>9. CASE /\ Next
           /\ ~ReloadStep /\ ~StartReloader /\ ~ReloaderExits
    <2>1. UNCHANGED <<config, active, reload>>
        BY <1>9 DEF Next, Starts, Auth, serverVars, Edit, StartAdapters, StartManager,
            StartWatching, Terminate, Shutdown, Exit, Job
    <2>2. QED
        BY <2>1, <1>2
<1>10. CASE ReloaderExits
    BY <1>3, <1>10 DEF ReloaderExits, serverVars
<1>11. CASE StartReloader
    BY <1>2, <1>3, <1>11 DEF StartReloader, serverVars, AdaptersInv, Starting
<1>12. CASE UNCHANGED vars
    BY <1>2, <1>12 DEF vars, serverVars
<1>13. QED
    BY <1>4, <1>5, <1>6, <1>7, <1>8, <1>9, <1>10, <1>11, <1>12 DEF ReloadStep

LEMMA FileStep == TypeOK /\ AdaptersInv /\ FileInv /\ [Next]_vars => FileInv'
<1> SUFFICES ASSUME TypeOK, AdaptersInv, FileInv, [Next]_vars PROVE FileInv'
    OBVIOUS
<1> USE DEF FileInv, Starting, Applied
<1>1. reload \in Reload
    BY DEF TypeOK
<1>2. CASE Edit
    BY <1>2 DEF Edit, EditConfig, Reason, serverVars, configVars
<1>3. CASE StartAdapters \/ StartManager \/ StartWatching
    BY <1>3 DEF StartAdapters, StartManager, StartWatching, Exits, serverVars, configVars
<1>4. CASE StartReloader
    BY <1>1, <1>4 DEF StartReloader, Exits, serverVars, Reload, AdaptersInv
<1>5. CASE Terminate \/ Shutdown \/ Exit
    BY <1>5 DEF Terminate, Shutdown, Exit, Exits, serverVars, configVars
<1>6. CASE ReloaderExits
    BY <1>6 DEF ReloaderExits
<1>7. CASE Job
    BY <1>7 DEF Job, serverVars, configVars
<1>8. CASE HandleEvent
    BY <1>1, <1>8 DEF HandleEvent, serverVars, Reload
<1>9. CASE ReadConfig
    BY <1>9 DEF ReadConfig, Ended, serverVars
<1>10. CASE ApplyField
    BY <1>1, <1>10 DEF ApplyField, configVars, Reload
<1>11. CASE NewMap \/ MakeAdapter \/ UpdateAuth \/ AuthUpdated
    <2>1. UNCHANGED <<active, configVars, stage>>
        BY <1>11 DEF NewMap, MakeAdapter, UpdateAuth, AuthUpdated, serverVars
    <2>2. \/ reload' = Ended(active, TRUE)
          \/ reload.pc \in Applied /\ reload'.pc \in Applied /\ reload'.content = reload.content
        BY <1>1, <1>11 DEF NewMap, MakeAdapter, UpdateAuth, AuthUpdated, Reload
    <2>3. QED
        BY <2>1, <2>2 DEF Ended, configVars
<1>12. CASE UpdateAdapters
    BY <1>12 DEF UpdateAdapters, Ended, EventsLeft
<1>13. CASE Auth(LoopStep) \/ Auth(CallerStep)
    BY <1>13 DEF Auth, configVars, serverVars
<1>14. CASE UNCHANGED vars
    BY <1>14 DEF vars, configVars, serverVars
<1>15. QED
    BY <1>2, <1>3, <1>4, <1>5, <1>6, <1>7, <1>8, <1>9, <1>10, <1>11, <1>12, <1>13, <1>14
       DEF Next, Starts, ReloadStep

-----------------------------------------------------------------------------
(* The authentication and the rest. *)

(* The goroutines of the manager change nothing of the server, and the     *)
(* watch loop nothing that Update waits for.                               *)
LEMMA LoopFrame ==
    ASSUME TypeOK, LoopStep
    PROVE  /\ UNCHANGED <<path, enabled, undo, watcher, watched>>
           /\ reader' \in [Goroutines -> Reader] /\ reader'["caller"] = reader["caller"]
<1>1. reader' \in [Goroutines -> Reader]
    BY StepTypes DEF TypeOK, CredentialsTypeOK
<1>2. QED
    BY <1>1 DEF LoopStep, WatchEvent, TakePath, ReadFile, Store, managed, watching, Goroutines,
            TypeOK, CredentialsTypeOK

(* What a step of the caller makes of its place.                           *)
LEMMA CallerMoves ==
    ASSUME TypeOK, CallerStep
    PROVE  LET pc == reader["caller"].pc
               to == reader'["caller"].pc
           IN  /\ UNCHANGED <<undo, watcher>>
               /\ \/ /\ UNCHANGED <<path, enabled, watched>>
                     /\ \/ pc = "path" /\ to = "read"
                        \/ pc = "read" /\ to \in {"store", "rollback"}
                        \/ pc = "store" /\ to = "rewatch" /\ path # undo.path /\ watcher # "none"
                        \/ pc = "store" /\ to = "done"
                  \/ /\ pc = "rollback" /\ to = "failed"
                     /\ path' = undo.path /\ enabled' = undo.enabled /\ UNCHANGED watched
                  \/ /\ pc = "rewatch" /\ UNCHANGED <<path, enabled>>
                     /\ \/ to = "done"
                        \/ to = "failed" /\ watched' = {}
<1> USE DEF At, Goroutines, TypeOK, CredentialsTypeOK
<1>1. CASE TakePath("caller")
    BY <1>1 DEF TakePath, managed, watching
<1>2. CASE ReadFile("caller")
    BY <1>2 DEF ReadFile, managed, watching
<1>3. CASE Store("caller")
    BY <1>3 DEF Store, watching
<1>4. CASE Rollback
    BY <1>4 DEF Rollback, watching
<1>5. CASE Rewatch
    <2>1. \/ reader'["caller"].pc = "done"
          \/ reader'["caller"].pc = "failed" /\ watched' = {}
        BY <1>5 DEF Rewatch
    <2>2. reader["caller"].pc = "rewatch" /\ UNCHANGED <<path, enabled, undo, watcher>>
        BY <1>5 DEF Rewatch, managed
    <2>3. QED
        BY <2>1, <2>2
<1>6. QED
    BY <1>1, <1>2, <1>3, <1>4, <1>5 DEF CallerStep

LEMMA AuthStep == TypeOK /\ AdaptersInv /\ FieldsInv /\ AuthInv /\ [Next]_vars => AuthInv'
<1> SUFFICES ASSUME TypeOK, AdaptersInv, FieldsInv, AuthInv, [Next]_vars PROVE AuthInv'
    OBVIOUS
<1> USE DEF AuthInv, Agrees, Unwatched, Loading
<1>1. reload \in Reload /\ reader \in [Goroutines -> Reader] /\ stage \in Stages
    BY DEF TypeOK, CredentialsTypeOK
<1>2. stage \in Starting => reload.pc = "off"
    BY DEF AdaptersInv
<1>3. CASE Edit
    BY <1>3 DEF Edit, EditConfig, EditCredentials, credentialVars, managed, watching, serverVars
<1>4. CASE StartAdapters
    BY <1>4 DEF StartAdapters, Exits, credentialVars, managed, watching, serverVars
<1>5. CASE StartManager
    BY <1>1, <1>5 DEF StartManager, Update, At, Goroutines, watching, serverVars
<1>6. CASE StartWatching
    BY <1>1, <1>2, <1>6 DEF StartWatching, StartWatcher, Exits, At, Goroutines, Starting,
        managed, watching, serverVars
<1>7. CASE StartReloader
    BY <1>1, <1>2, <1>7 DEF StartReloader, Exits, Reload, Starting,
        credentialVars, managed, watching, serverVars
<1>8. CASE Terminate \/ Exit
    BY <1>8 DEF Terminate, Exit, Exits, credentialVars, managed, watching, serverVars
<1>9. CASE Shutdown
    BY <1>9 DEF Shutdown
<1>10. CASE ReloaderExits
    BY <1>10 DEF ReloaderExits, credentialVars, managed, watching
<1>11. CASE Job
    BY <1>11 DEF Job, credentialVars, managed, watching, serverVars
<1>12. CASE HandleEvent \/ ReadConfig \/ ApplyField \/ NewMap \/ MakeAdapter
    <2>1. UNCHANGED <<active, stage, reader, path, enabled, undo, watcher, watched>>
        BY <1>12 DEF HandleEvent, ReadConfig, ApplyField, NewMap, MakeAdapter,
            credentialVars, managed, watching, serverVars
    <2>2. reload.pc \notin {"off", "wait", "swap"} /\ reload'.pc \notin {"off", "wait", "swap"}
        <3>1. CASE HandleEvent
            BY <1>1, <3>1 DEF HandleEvent, Reload
        <3>2. CASE ReadConfig
            BY <3>2 DEF ReadConfig, Ended
        <3>3. CASE ApplyField
            BY <1>1, <3>3 DEF ApplyField, Reload
        <3>4. CASE NewMap
            BY <1>1, <3>4 DEF NewMap, Reload
        <3>5. CASE MakeAdapter
            BY <1>1, <3>5 DEF MakeAdapter, Reload, Ended
        <3>6. QED
            BY <1>12, <3>1, <3>2, <3>3, <3>4, <3>5
    <2>3. QED
        BY <1>2, <2>1, <2>2 DEF Starting
<1>13. CASE UpdateAuth
    <2>1. config["auth"] = reload.content
        BY <1>13 DEF UpdateAuth, FieldsInv, Applied, Fields
    <2>2. reload'.pc = "wait" /\ reload'.content = reload.content
        BY <1>1, <1>13 DEF UpdateAuth, Reload
    <2>3. QED
        BY <1>1, <1>2, <1>13, <2>1, <2>2 DEF UpdateAuth, Update, At, Goroutines, Starting,
            watching, serverVars
<1>14. CASE AuthUpdated
    <2>1. /\ UNCHANGED <<active, stage, path, enabled, undo, watcher, watched>>
          /\ reader'["caller"].pc = "idle"
        BY <1>1, <1>14 DEF AuthUpdated, Return, At, Goroutines, managed, watching, serverVars
    <2>2. \/ reader["caller"].pc = "done" /\ reload'.pc = "swap" /\ reload'.content = reload.content
          \/ reader["caller"].pc = "failed" /\ reload'.pc = "idle"
        BY <1>1, <1>14 DEF AuthUpdated, Answered, Reload, Ended
    <2>3. QED
        BY <1>2, <1>14, <2>1, <2>2 DEF AuthUpdated, Starting
<1>15. CASE UpdateAdapters
    BY <1>2, <1>15 DEF UpdateAdapters, Ended, Starting, credentialVars, managed, watching
<1>16. CASE Auth(LoopStep)
    BY <1>16, LoopFrame DEF Auth, serverVars
<1>17. CASE Auth(CallerStep)
    <2>1. UNCHANGED <<stage, reload, active>>
        BY <1>17 DEF Auth, serverVars
    <2>2. CallerStep
        BY <1>17 DEF Auth
    <2>3. CASE stage \in {"adapters", "credentials"}
        BY <2>1, <2>2, <2>3, CallerMoves
    <2>4. CASE stage = "watch"
        BY <2>1, <2>2, <2>4, CallerMoves
    <2>5. CASE stage \in {"reloader", "running"}
        <3>1. reload.pc = "wait" /\ watcher # "closed"
            BY <2>2, <2>5, CallerMoves
        <3>2. watcher \in {"none", "open"}
            BY <3>1 DEF TypeOK, CredentialsTypeOK
        <3>3. QED
            BY <2>1, <2>2, <2>5, <3>1, <3>2, CallerMoves
    <2>6. CASE stage \in {"stopping", "stopped", "exited"}
        BY <2>1, <2>2, <2>6, CallerMoves
    <2>7. QED
        BY <1>1, <2>3, <2>4, <2>5, <2>6 DEF Stages
<1>18. CASE UNCHANGED vars
    BY <1>18 DEF vars, credentialVars, managed, watching, serverVars
<1>19. QED
    BY <1>3, <1>4, <1>5, <1>6, <1>7, <1>8, <1>9, <1>10, <1>11, <1>12, <1>13, <1>14, <1>15,
       <1>16, <1>17, <1>18 DEF Next, Starts, ReloadStep

-----------------------------------------------------------------------------
(* The credentials and their file. *)

(* A change of a file is seen or will be.                                  *)
LEMMA EditUnseen ==
    ASSUME TypeOK, NEW p \in Paths, EditCredentials(p)
    PROVE  /\ UNCHANGED <<path, enabled, credentials, reader, undo, overlapped>>
           /\ \A q \in Paths : q = p => Unseen(q)'
           /\ \A q \in Paths : q # p => file'[q] = file[q] /\ Unseen(q)' = Unseen(q)
<1>1. UNCHANGED <<path, enabled, credentials, reader, undo, overlapped>>
    BY DEF EditCredentials, managed
<1>2. Unseen(p)'
    BY DEF EditCredentials, Unseen
<1>3. \A q \in Paths : q # p => file'[q] = file[q] /\ Unseen(q)' = Unseen(q)
    BY DEF EditCredentials, Unseen, TypeOK, CredentialsTypeOK
<1>4. QED
    BY <1>1, <1>2, <1>3

(* What the invariant says depends on nothing else.                        *)
LEMMA CredentialsFrame ==
    ASSUME CredentialsInv,
           UNCHANGED <<file, path, enabled, credentials, events, reader, undo, missed, overlapped>>,
           Alive' => Alive, Up' => Up, stage' = "watch" => stage = "watch",
           stage = "watch" => stage' = "watch" \/ ~Up'
    PROVE  CredentialsInv'
BY DEF CredentialsInv, ReadersInv, StoredInv, Busy, Unseen, Good, Up

LEMMA ReadersStep ==
    ASSUME TypeOK, ReadersInv,
           LoopStep \/ CallerStep, UNCHANGED stage
    PROVE  ReadersInv'
<1> USE DEF ReadersInv, Busy, Unseen, At, Goroutines, Resting, Alive
<1>1. file \in [Paths -> Secrets \cup {Broken}] /\ reader \in [Goroutines -> Reader]
    BY DEF TypeOK, CredentialsTypeOK
<1>2. CASE WatchEvent
    <2> PICK p \in events :
            /\ events' = events \ {p}
            /\ reader' = IF ShouldReload(p) THEN [reader EXCEPT !["loop"] = At("path")]
                         ELSE reader
            /\ overlapped' = IF ShouldReload(p) THEN Busy("caller")
                             ELSE overlapped \/ Busy("caller")
        BY <1>2 DEF WatchEvent
    <2>1. UNCHANGED <<file, path, enabled, missed>> /\ reader["loop"].pc = "idle"
        BY <1>2 DEF WatchEvent, managed
    <2>2. reader'["caller"] = reader["caller"] /\ reader'["loop"].pc \in {"idle", "path"}
        BY <1>1, <2>1
    <2>3. overlapped' \/ ~Busy("caller")
        OBVIOUS
    <2>4. ~Busy("caller") => ~Busy("caller")' /\ reader'["caller"].pc # "store"
        BY <2>2
    <2>5. ~overlapped' => \A g \in Goroutines : reader'[g].pc # "store"
        BY <2>2, <2>3, <2>4
    <2>6. QED
        BY <2>1, <2>2, <2>3, <2>4, <2>5
<1>3. ASSUME NEW g \in Goroutines, TakePath(g) PROVE ReadersInv'
    <2>1. UNCHANGED <<file, path, enabled, events, missed, overlapped>>
          /\ reader[g].pc = "path"
        BY <1>3 DEF TakePath, managed, watching
    <2>2. reader'[g].pc = "read" /\ reader'[g].path = path
          /\ \A h \in Goroutines \ {g} : reader'[h] = reader[h]
        BY <1>1, <1>3 DEF TakePath
    <2>3. QED
        BY <2>1, <2>2
<1>4. ASSUME NEW g \in Goroutines, ReadFile(g) PROVE ReadersInv'
    <2>1. UNCHANGED <<file, path, enabled, events, overlapped>> /\ reader[g].pc = "read"
          /\ missed' = missed \ {reader[g].path}
        BY <1>4 DEF ReadFile, managed, watching
    <2>2. \A h \in Goroutines \ {g} : reader'[h] = reader[h]
        BY <1>1, <1>4 DEF ReadFile
    <2>3. \/ reader'[g].pc = "store" /\ reader'[g].path = reader[g].path
             /\ reader'[g].content = file[reader[g].path]
          \/ reader'[g].pc \in {"idle", "rollback"} /\ (g = "loop" => reader'[g].pc = "idle")
        <3>1. reader[g] \in Reader
            BY <1>1
        <3>2. CASE file[reader[g].path] # Broken
            BY <1>1, <1>4, <3>1, <3>2 DEF ReadFile, Reader
        <3>3. CASE file[reader[g].path] = Broken
            BY <1>1, <1>4, <3>3 DEF ReadFile
        <3>4. QED
            BY <3>2, <3>3
    <2>4. ~overlapped => \A h \in Goroutines \ {g} : ~Busy(h)
        BY <2>1
    <2>5. QED
        BY <2>1, <2>2, <2>3, <2>4
<1>5. ASSUME NEW g \in Goroutines, Store(g) PROVE ReadersInv'
    <2>1. UNCHANGED <<file, path, enabled, events, missed, overlapped>> /\ reader[g].pc = "store"
        BY <1>5 DEF Store, watching
    <2>2. \A h \in Goroutines \ {g} : reader'[h] = reader[h]
        BY <1>1, <1>5 DEF Store
    <2>3. reader'[g].pc \in {"idle", "rewatch", "done"} /\ (g = "loop" => reader'[g].pc = "idle")
        BY <1>1, <1>5 DEF Store
    <2>4. QED
        BY <2>1, <2>2, <2>3
<1>6. CASE Rollback
    <2>1. UNCHANGED <<file, events, missed>> /\ reader["caller"].pc = "rollback"
          /\ (overlapped => overlapped')
        BY <1>6 DEF Rollback, watching
    <2>2. reader'["caller"].pc = "failed" /\ reader'["loop"] = reader["loop"]
        BY <1>1, <1>6 DEF Rollback
    <2>3. ~overlapped => ~Busy("loop")
        BY <2>1
    <2>4. QED
        BY <2>1, <2>2, <2>3
<1>7. CASE Rewatch
    <2>1. UNCHANGED <<file, path, enabled, events, missed, overlapped>>
        BY <1>7 DEF Rewatch, managed
    <2>2. reader'["caller"].pc \in {"done", "failed"}
        BY <1>1, <1>7 DEF Rewatch
    <2>3. reader'["loop"] = reader["loop"]
        BY <1>1, <1>7 DEF Rewatch
    <2>4. QED
        BY <2>1, <2>2, <2>3
<1>8. QED
    BY <1>2, <1>3, <1>4, <1>5, <1>6, <1>7 DEF LoopStep, CallerStep

LEMMA StoredByLoop ==
    ASSUME TypeOK, ReadersInv, StoredInv, LoopStep, UNCHANGED stage
    PROVE  StoredInv'
<1> USE DEF StoredInv, Busy, Unseen, Good, Up, Alive
<1>1. /\ file \in [Paths -> Secrets \cup {Broken}] /\ reader \in [Goroutines -> Reader]
      /\ reader' \in [Goroutines -> Reader] /\ reader'["caller"] = reader["caller"]
      /\ UNCHANGED <<path, enabled, undo>>
    BY LoopFrame DEF TypeOK, CredentialsTypeOK
<1>2. CASE WatchEvent
    <2> PICK p \in events :
            /\ events' = events \ {p}
            /\ reader' = IF ShouldReload(p) THEN [reader EXCEPT !["loop"] = At("path")]
                         ELSE reader
            /\ overlapped' = IF ShouldReload(p) THEN Busy("caller")
                             ELSE overlapped \/ Busy("caller")
        BY <1>2 DEF WatchEvent
    <2>1. UNCHANGED <<file, missed, credentials>>
        BY <1>2 DEF WatchEvent, managed
    <2>2. overlapped' \/ reader["caller"].pc \in Resting
        OBVIOUS
    <2>3. CASE p = path
        <3>1. Busy("loop")'
            BY <1>1, <2>3 DEF ShouldReload, At, Goroutines, Resting
        <3>2. QED
            BY <1>1, <2>2, <3>1 DEF Resting
    <2>4. CASE p # path
        <3>1. reader' = reader /\ (overlapped => overlapped')
              /\ (Unseen(path)' <=> Unseen(path))
            BY <1>1, <2>1, <2>4 DEF ShouldReload
        <3>2. QED
            BY <1>1, <2>1, <2>2, <3>1 DEF Resting
    <2>5. QED
        BY <2>3, <2>4
<1>3. CASE TakePath("loop")
    <2>1. UNCHANGED <<file, events, missed, credentials, overlapped>>
        BY <1>3 DEF TakePath, managed, watching
    <2>2. Busy("loop")'
        BY <1>1, <1>3 DEF TakePath, At, Goroutines, Resting
    <2>3. QED
        BY <1>1, <2>1, <2>2
<1>4. CASE ReadFile("loop") \/ Store("loop")
    <2>1. UNCHANGED <<file, events, overlapped>> /\ Busy("loop")
        BY <1>4 DEF ReadFile, Store, managed, watching, Resting
    <2>2. ~overlapped => reader["caller"].pc \in Resting
        BY <2>1 DEF ReadersInv
    <2>3. ~overlapped /\ enabled => reader["loop"].path = path
        BY <1>4 DEF ReadersInv, ReadFile, Store
    <2>4. CASE ReadFile("loop")
        <3>1. \/ Busy("loop")'
              \/ file[reader["loop"].path] = Broken
            BY <1>1, <2>4 DEF ReadFile, Goroutines, Resting, Reader
        <3>2. QED
            BY <1>1, <2>1, <2>2, <2>3, <3>1 DEF Resting
    <2>5. CASE Store("loop")
        <3>1. UNCHANGED missed /\ credentials' = reader["loop"].content
            BY <2>5 DEF Store
        <3>2. Up /\ ~overlapped /\ enabled /\ ~Unseen(path) => credentials' = file[path]
            BY <2>3, <2>5, <3>1 DEF ReadersInv, Store, Goroutines
        <3>3. QED
            BY <1>1, <2>1, <2>2, <3>1, <3>2 DEF Resting
    <2>6. QED
        BY <1>4, <2>4, <2>5
<1>5. QED
    BY <1>2, <1>3, <1>4 DEF LoopStep

LEMMA StoredByCaller ==
    ASSUME TypeOK, AuthInv, ReadersInv, StoredInv, CallerStep, UNCHANGED stage
    PROVE  StoredInv'
<1> USE DEF StoredInv, Busy, Unseen, Good, Up, Alive
<1>1. /\ file \in [Paths -> Secrets \cup {Broken}] /\ reader \in [Goroutines -> Reader]
      /\ UNCHANGED <<file, events, undo>>
    BY DEF TypeOK, CredentialsTypeOK, CallerStep, TakePath, ReadFile, Store, Rollback, Rewatch,
           managed, watching
<1>2. reader'["loop"] = reader["loop"]
    BY <1>1 DEF CallerStep, TakePath, ReadFile, Store, Rollback, Rewatch, Goroutines
<1>3. CASE TakePath("caller")
    <2>1. UNCHANGED <<path, enabled, missed, credentials, overlapped>>
          /\ reader["caller"].pc = "path" /\ reader'["caller"].pc = "read"
        BY <1>1, <1>3 DEF TakePath, managed, watching, At, Goroutines
    <2>2. QED
        BY <1>1, <1>2, <2>1 DEF Resting
<1>4. CASE ReadFile("caller")
    <2>1. /\ UNCHANGED <<path, enabled, credentials, overlapped>>
          /\ reader["caller"].pc = "read" /\ missed' = missed \ {path}
        BY <1>4 DEF ReadFile, managed, watching, ReadersInv
    <2>2. \/ reader'["caller"].pc = "store"
          \/ reader'["caller"].pc = "rollback" /\ file[path] = Broken
        BY <1>1, <1>4 DEF ReadFile, Goroutines, At, Reader, ReadersInv
    <2>3. CASE reader'["caller"].pc = "store"
        BY <1>1, <1>2, <2>1, <2>3 DEF Resting
    <2>4. CASE reader'["caller"].pc = "rollback" /\ file[path] = Broken
        <3>1. undo.path # path => (Unseen(undo.path)' <=> Unseen(undo.path))
            BY <1>1, <2>1
        <3>2. undo.path = path => Good(undo.path)'
            BY <1>1, <2>4
        <3>3. QED
            BY <1>1, <1>2, <2>1, <2>4, <3>1, <3>2 DEF Resting
    <2>5. QED
        BY <2>2, <2>3, <2>4
<1>5. CASE Store("caller")
    <2>1. /\ UNCHANGED <<path, enabled, missed, overlapped>>
          /\ credentials' = reader["caller"].content
          /\ reader["caller"].pc = "store" /\ reader'["caller"].pc \in {"rewatch", "done"}
        BY <1>1, <1>5 DEF Store, watching, At, Goroutines
    <2>2. reader["caller"].path = path
        BY <2>1 DEF ReadersInv
    <2>3. Up /\ ~overlapped /\ ~Unseen(path) => credentials' = file[path]
        BY <2>1, <2>2 DEF ReadersInv, Goroutines
    <2>4. QED
        BY <1>1, <1>2, <2>1, <2>3
<1>6. CASE Rollback
    <2>1. /\ path' = undo.path /\ enabled' = undo.enabled /\ UNCHANGED <<missed, credentials>>
          /\ (~overlapped' => ~overlapped /\ ~undo.overlapped)
          /\ reader["caller"].pc = "rollback" /\ reader'["caller"].pc = "failed"
        BY <1>1, <1>6 DEF Rollback, watching, At, Goroutines
    <2>2. QED
        BY <1>1, <1>2, <2>1
<1>7. CASE Rewatch
    <2>1. UNCHANGED <<path, enabled, missed, credentials, overlapped>>
        BY <1>7 DEF Rewatch, managed
    <2>2. reader["caller"].pc = "rewatch" /\ reader'["caller"].pc \in {"done", "failed"}
        BY <1>1, <1>7 DEF Rewatch, At, Goroutines
    <2>3. stage # "watch"
        BY <2>2 DEF AuthInv
    <2>4. QED
        BY <1>1, <1>2, <2>1, <2>2, <2>3
<1>8. QED
    BY <1>3, <1>4, <1>5, <1>6, <1>7 DEF CallerStep

(* Update starts; it may be what main calls before anything is loaded.     *)
LEMMA CredentialsUpdate ==
    ASSUME TypeOK, CredentialsInv, NEW p \in Paths, NEW on \in BOOLEAN, Update(p, on),
           \/ stage' = stage /\ stage # "watch"
           \/ stage = "credentials" /\ stage' = "watch"
    PROVE  CredentialsInv'
<1> USE DEF CredentialsInv, Busy, Unseen, Good, Up, Alive
<1>1. /\ UNCHANGED <<file, credentials, events, missed>>
      /\ path' = p /\ enabled' = on /\ reader["caller"].pc = "idle"
      /\ undo'.path = path /\ undo'.enabled = enabled /\ undo'.overlapped = overlapped
      /\ overlapped' = IF on THEN Busy("loop") ELSE overlapped
    BY DEF Update, watching
<1>2. /\ reader'["loop"] = reader["loop"]
      /\ reader'["caller"].pc = IF on THEN "path" ELSE "done"
    BY DEF Update, At, Goroutines, TypeOK, CredentialsTypeOK
<1>3. ReadersInv'
    BY <1>1, <1>2 DEF ReadersInv, Goroutines, Resting
<1>4. StoredInv'
    <2>1. CASE stage = "credentials" /\ stage' = "watch"
        BY <1>1, <1>2, <2>1 DEF StoredInv
    <2>2. CASE stage' = stage /\ stage # "watch" /\ ~on
        BY <1>1, <1>2, <2>2 DEF StoredInv
    <2>3. CASE stage' = stage /\ stage # "watch" /\ on
        <3>1. ~overlapped' => ~Busy("loop")
            BY <1>1, <2>3
        <3>2. Up /\ ~overlapped /\ ~Busy("loop") /\ enabled /\ ~Unseen(path) => Good(path)
            BY <1>1, <2>3 DEF StoredInv, Resting
        <3>3. QED
            BY <1>1, <1>2, <2>3, <3>1, <3>2 DEF StoredInv, Resting
    <2>4. QED
        BY <2>1, <2>2, <2>3
<1>5. QED
    BY <1>3, <1>4

(* The caller has its answer; main's is the first.                         *)
LEMMA CredentialsReturn ==
    ASSUME TypeOK, CredentialsInv,
           UNCHANGED <<file, path, enabled, credentials, events, undo, missed, overlapped>>,
           reader' = [reader EXCEPT !["caller"] = At("idle")],
           \/ stage' = stage /\ stage # "watch" /\ reader["caller"].pc \in Resting
           \/ stage = "watch" /\ stage' = "reloader" /\ reader["caller"].pc = "done"
    PROVE  CredentialsInv'
<1> USE DEF CredentialsInv, Busy, Unseen, Good, Up, Alive
<1>1. reader'["caller"].pc = "idle" /\ reader'["loop"] = reader["loop"]
    BY DEF At, Goroutines, TypeOK, CredentialsTypeOK
<1>2. ReadersInv'
    BY <1>1 DEF ReadersInv, Goroutines, Resting
<1>3. StoredInv'
    BY <1>1 DEF StoredInv, Resting
<1>4. QED
    BY <1>2, <1>3

LEMMA CredentialsStep ==
    TypeOK /\ AdaptersInv /\ FieldsInv /\ AuthInv /\ CredentialsInv /\ [Next]_vars
        => CredentialsInv'
<1> SUFFICES ASSUME TypeOK, AdaptersInv, FieldsInv, AuthInv, CredentialsInv, [Next]_vars
             PROVE  CredentialsInv'
    OBVIOUS
<1> USE DEF Up, Alive
<1>1. stage \in Stages /\ (stage = "watch" => reload.pc = "off")
    BY DEF TypeOK, AdaptersInv, Starting
<1>2. ASSUME UNCHANGED credentialVars,
             \/ stage' = stage
             \/ stage' = "exited"
             \/ <<stage, stage'>> \in {<<"adapters", "credentials">>, <<"reloader", "running">>,
                                      <<"running", "stopping">>}
      PROVE  CredentialsInv'
    <2>1. UNCHANGED <<file, path, enabled, credentials, events, reader, undo, missed, overlapped>>
        BY <1>2 DEF credentialVars, managed, watching
    <2>2. /\ Alive' => Alive
          /\ Up' => Up
          /\ stage' = "watch" => stage = "watch"
          /\ stage = "watch" => stage' = "watch" \/ ~Up'
        BY <1>2
    <2>3. QED
        BY <2>1, <2>2, CredentialsFrame
<1>3. CASE Edit
    <2>1. UNCHANGED stage
        BY <1>3 DEF Edit
    <2>2. CASE UNCHANGED credentialVars
        BY <1>2, <2>1, <2>2
    <2>3. ASSUME NEW p \in Paths, EditCredentials(p) PROVE CredentialsInv'
        <3>1. /\ path \in Paths /\ undo.path \in Paths
              /\ \A g \in Goroutines : reader[g].pc = "store" => reader[g].path \in Paths
            BY ReaderTypes DEF TypeOK, CredentialsTypeOK
        <3>2. ReadersInv'
            BY <2>1, <2>3, <3>1, EditUnseen DEF CredentialsInv, ReadersInv, Busy
        <3>3. StoredInv'
            BY <2>1, <2>3, <3>1, EditUnseen DEF CredentialsInv, StoredInv, Busy, Good
        <3>4. QED
            BY <3>2, <3>3 DEF CredentialsInv
    <2>4. QED
        BY <1>3, <2>2, <2>3 DEF Edit, EditConfig
<1>4. CASE StartAdapters \/ StartReloader \/ Terminate \/ Exit
    BY <1>2, <1>4 DEF StartAdapters, StartReloader, Terminate, Exit, Exits
<1>5. CASE StartManager
    <2>1. active.auth \in Paths /\ active.on \in BOOLEAN
        BY ConfigTypes DEF TypeOK
    <2>2. QED
        BY <1>5, <2>1, CredentialsUpdate DEF StartManager
<1>6. CASE StartWatching
    <2>1. CASE Exits /\ UNCHANGED credentialVars
        BY <1>2, <2>1 DEF Exits
    <2>2. CASE reader["caller"].pc = "done" /\ StartWatcher /\ stage' = "reloader"
        BY <1>6, <2>2, CredentialsReturn DEF StartWatching, StartWatcher, managed
    <2>3. QED
        BY <1>6, <2>1, <2>2 DEF StartWatching
<1>7. CASE Shutdown
    <2>1. UNCHANGED <<path, enabled, reader, overlapped>> /\ ~Alive'
        BY <1>7 DEF Shutdown, StopWatcher, managed
    <2>2. QED
        BY <2>1 DEF CredentialsInv, ReadersInv, StoredInv, Busy
<1>8. CASE ReloaderExits
    BY <1>2, <1>8 DEF ReloaderExits
<1>9. CASE Job
    BY <1>2, <1>9 DEF Job
<1>10. CASE HandleEvent \/ ReadConfig \/ ApplyField \/ NewMap \/ MakeAdapter \/ UpdateAdapters
    BY <1>2, <1>10 DEF HandleEvent, ReadConfig, ApplyField, NewMap, MakeAdapter, UpdateAdapters
<1>11. CASE UpdateAuth
    <2>1. config["auth"].auth \in Paths /\ config["auth"].on \in BOOLEAN
        BY ConfigTypes DEF TypeOK, Fields
    <2>2. stage' = stage /\ stage # "watch"
        BY <1>1, <1>11 DEF UpdateAuth
    <2>3. QED
        BY <1>11, <2>1, <2>2, CredentialsUpdate DEF UpdateAuth
<1>12. CASE AuthUpdated
    <2>1. reader["caller"].pc \in Resting
        BY <1>12 DEF AuthUpdated, Answered, Resting
    <2>2. UNCHANGED <<file, path, enabled, credentials, events, undo, missed, overlapped>>
          /\ reader' = [reader EXCEPT !["caller"] = At("idle")]
        BY <1>12 DEF AuthUpdated, Return, managed, watching
    <2>3. stage' = stage /\ stage # "watch"
        BY <1>1, <1>12 DEF AuthUpdated
    <2>4. QED
        BY <2>1, <2>2, <2>3, CredentialsReturn
<1>13. CASE Auth(LoopStep)
    BY <1>13, ReadersStep, StoredByLoop DEF Auth, CredentialsInv
<1>14. CASE Auth(CallerStep)
    BY <1>14, ReadersStep, StoredByCaller DEF Auth, CredentialsInv
<1>15. CASE UNCHANGED vars
    BY <1>2, <1>15 DEF vars
<1>16. QED
    BY <1>3, <1>4, <1>5, <1>6, <1>7, <1>8, <1>9, <1>10, <1>11, <1>12, <1>13, <1>14, <1>15
       DEF Next, Starts, ReloadStep

-----------------------------------------------------------------------------
(* The theorems. *)

LEMMA InvariantStarts == Init => IInv
<1>1. Init => CredentialsInv
    BY DEF Init, CredentialsInit, CredentialsInv, ReadersInv, StoredInv, Busy, Up, Resting,
        Goroutines, At
<1>2. Init => BackoffInv
    BY DEF Init, BackoffInv, NoBackoff
<1>3. QED
    BY <1>1, <1>2, InitialTypes
       DEF Init, CredentialsInit, IInv, AdaptersInv, AdaptersWhole, FieldsInv, FileInv, AuthInv,
           Agrees, Applied, Goroutines, At

LEMMA Inductive == Spec => []IInv
<1>1. IInv /\ [Next]_vars => IInv'
    BY TypesKept, AdaptersStep, BackoffStep, FieldsStep, FileStep, AuthStep, CredentialsStep
       DEF IInv
<1>2. QED
    BY InvariantStarts, <1>1, PTL DEF Spec

(* The dispatcher never has a map of adapters that is being filled or was  *)
(* left half filled by a reload that failed.                               *)
THEOREM AdaptersNeverMixed == Spec => []AdaptersWhole
<1>1. IInv => AdaptersWhole
    BY DEF IInv, AdaptersInv
<1>2. QED
    BY Inductive, <1>1, PTL

(* A backoff leaves its list only if a reload replaced the list meanwhile. *)
THEOREM BackoffBounded == Spec => []BackoffInList
<1>1. IInv => BackoffInList
    BY DEF IInv, BackoffInv, BackoffInList
<1>2. QED
    BY Inductive, <1>1, PTL

(* A reloader at rest has the configuration of the file, or its reload     *)
(* failed, unless the file changed unwatched.                              *)
THEOREM ConfigurationCurrent == Spec => []ConfigSettles
<1>1. IInv => ConfigSettles
    BY DEF IInv, FileInv, ConfigSettles
<1>2. QED
    BY Inductive, <1>1, PTL

(* A reload changes authentication and adapters together or neither.       *)
THEOREM ReloadAllOrNothing == Spec => []AllOrNothing
<1>1. IInv => AllOrNothing
    BY DEF IInv, FieldsInv, AuthInv, NotApplying, Agrees, Unwatched, AllOrNothing
<1>2. QED
    BY Inductive, <1>1, PTL

(* Credentials at rest are those of the configured file, unless it changed *)
(* unwatched or an Update overlapped the watch loop.                       *)
THEOREM CredentialsCurrent == Spec => []CredentialsSettle
<1>1. IInv => CredentialsSettle
    BY DEF IInv, CredentialsInv, StoredInv, Up, Alive, Unseen, Good, Settled, Busy,
        CredentialsSettle
<1>2. QED
    BY Inductive, <1>1, PTL
=============================================================================
