------------------------------ MODULE Runtimes ------------------------------
(***************************************************************************)
(* The adapters of the runtimes and what is known of them (core, adapter/    *)
(* catalog.rs, detect.rs, calibrate.rs, watch.rs; app, commands/runtimes.rs   *)
(* and settings.rs): the catalog read from the binary and a folder, the cache *)
(* of what each runtime's detect command answered, the watcher of the folder, *)
(* the calibration of the state rules, and the detectors of live sessions,    *)
(* which get the rules of a new catalog.  An adapter is a command and rules.  *)
(***************************************************************************)
EXTENDS Integers, Sequences, FiniteSets, SequencesExt

CONSTANTS
    AdapterIds,
    BuiltinAdapters,    \* id -> the adapter in the binary, or NoAdapter
    RuntimeScenes       \* sequences of requests [op, id, ...]
NoAdapter == [command |-> "none", rules |-> "none"]

IsAdapter(a) == DOMAIN a = {"command", "rules"}
ASSUME RuntimesAssumption ==
    /\ \A id \in AdapterIds : IsAdapter(BuiltinAdapters[id])
    /\ \A scene \in RuntimeScenes : scene \in Seq(ToSet(scene)) /\ \A ask \in ToSet(scene) :
         /\ ask.op \in {"save", "calibrate", "start", "overview"} /\ ask.id \in AdapterIds
         /\ ask.op = "save" => IsAdapter(ask.spec)

VARIABLES
    adapterFiles,   \* id -> the adapter of the user's folder, or NoAdapter
    adapters,       \* the catalog: id -> [spec, own]: the adapter, and whether it is the user's
    statuses,       \* the cache: id -> [key, status] or NoStatus
    runtimeJobs,    \* the scene's requests, the sessions among them
    stirred,        \* whether the folder changed and the watcher has not read it yet
    rulesWatch,     \* the watcher: [at, loaded]
    readOrder,      \* history: reads of the folder, in order, that no newer one was put over
    overtakenReads, \* history: an older read was put over a newer one
    overtakenSends  \* history: an older catalog was sent to the sessions last

runtimesVars == <<adapterFiles, adapters, statuses, runtimeJobs, stirred, rulesWatch,
                  readOrder, overtakenReads, overtakenSends>>

\* load_from: the user's file wins over the adapter in the binary.
LoadedAdapters ==
    [id \in AdapterIds |->
        IF adapterFiles[id] # NoAdapter THEN [spec |-> adapterFiles[id], own |-> TRUE]
        ELSE [spec |-> BuiltinAdapters[id], own |-> FALSE]]
Known == {id \in AdapterIds : adapters[id].spec # NoAdapter}

NoStatus == [key |-> "none", status |-> [of |-> "none", outcome |-> "not checked yet"]]
RuntimeJob(ask) ==
    [ask |-> ask, at |-> "begin", spec |-> NoAdapter, view |-> adapters, pending |-> {},
     found |-> [id \in AdapterIds |-> NoStatus], answer |-> <<>>,
     disturbed |-> FALSE, late |-> FALSE]
RuntimesInit ==
    /\ adapterFiles = [id \in AdapterIds |-> NoAdapter] /\ adapters = LoadedAdapters
    /\ statuses = [id \in AdapterIds |-> NoStatus]
    /\ \E scene \in RuntimeScenes : runtimeJobs = [i \in DOMAIN scene |-> RuntimeJob(scene[i])]
    /\ stirred = FALSE /\ rulesWatch = [at |-> "idle", loaded |-> adapters]
    /\ readOrder = <<>> /\ overtakenReads = FALSE /\ overtakenSends = FALSE

Asked(i) == runtimeJobs[i].ask
RuntimeAt(i, op, at) == runtimeJobs[i].at = at /\ Asked(i).op = op

\* ---- the folder and its readers ----

UserSavesAdapter(i) ==
    /\ RuntimeAt(i, "save", "begin") /\ runtimeJobs' = [runtimeJobs EXCEPT ![i].at = "done"]
    /\ adapterFiles' = [adapterFiles EXCEPT ![Asked(i).id] = Asked(i).spec] /\ stirred' = TRUE
    /\ UNCHANGED <<adapters, statuses, rulesWatch, readOrder, overtakenReads, overtakenSends>>

WatcherOf == 0
\* A catalog replaces the one before, and what is cached for another command goes.
\* Overviews on their way have seen the old one.
SetCatalog(who, catalog, jobs) ==
    LET at == SelectInSeq(readOrder, LAMBDA other : other = who)
    IN  /\ adapters' = catalog
        /\ statuses' = [id \in AdapterIds |->
               IF statuses[id].key = catalog[id].spec.command THEN statuses[id] ELSE NoStatus]
        /\ overtakenReads' = (overtakenReads \/ at = 0)
        /\ readOrder' = SubSeq(readOrder, at + 1, Len(readOrder))
        /\ runtimeJobs' = [j \in DOMAIN jobs |->
               IF jobs[j].at = "detect" /\ catalog # adapters
               THEN [jobs[j] EXCEPT !.disturbed = TRUE] ELSE jobs[j]]
\* refresh_state_rules, its second half: a catalog cloned before, to the sessions
\* in the supervisor's table, not to one whose start has taken its adapter and is
\* not there yet.
Refreshed(jobs, catalog) ==
    [j \in DOMAIN jobs |->
        IF jobs[j].ask.op # "start" THEN jobs[j]
        ELSE IF jobs[j].at = "live" /\ catalog[jobs[j].ask.id].spec # NoAdapter
             THEN [jobs[j] EXCEPT !.spec.rules = catalog[jobs[j].ask.id].spec.rules, !.late = FALSE]
        ELSE IF jobs[j].at = "taken" THEN [jobs[j] EXCEPT !.late = TRUE] ELSE jobs[j]]
\* History: a catalog that is no longer the one in use is sent, and nobody is
\* about to send the one in use.
TellsSoon(watch, jobs, catalog) ==
    \/ watch.at = "refresh" \/ (watch.at = "send" /\ watch.loaded = catalog)
    \/ \E j \in DOMAIN jobs : jobs[j].at = "refresh" \/ (jobs[j].at = "send" /\ jobs[j].view = catalog)
SentIn(catalog) ==
    overtakenSends' = (overtakenSends \/ (catalog # adapters /\ ~TellsSoon(rulesWatch', runtimeJobs', adapters)))

RulesWatcherLoads ==
    /\ stirred /\ rulesWatch.at = "idle" /\ stirred' = FALSE
    /\ rulesWatch' = [at |-> "set", loaded |-> LoadedAdapters] /\ readOrder' = Append(readOrder, WatcherOf)
    /\ UNCHANGED <<adapterFiles, adapters, statuses, runtimeJobs, overtakenReads, overtakenSends>>
\* SetsAndRests is the mutant of RulesWatcherSets: the sessions are not told.
SetsAndRests ==
    /\ rulesWatch.at = "set" /\ SetCatalog(WatcherOf, rulesWatch.loaded, runtimeJobs)
    /\ rulesWatch' = [rulesWatch EXCEPT !.at = "idle"] /\ UNCHANGED <<adapterFiles, stirred, overtakenSends>>
RulesWatcherSets ==
    /\ rulesWatch.at = "set" /\ SetCatalog(WatcherOf, rulesWatch.loaded, runtimeJobs)
    /\ rulesWatch' = [rulesWatch EXCEPT !.at = "refresh"] /\ UNCHANGED <<adapterFiles, stirred, overtakenSends>>
\* refresh_state_rules clones the catalog, and then sends it under the lock of
\* the sessions: another catalog may be set, and sent, in between.
RulesWatcherClones ==
    /\ rulesWatch.at = "refresh" /\ rulesWatch' = [at |-> "send", loaded |-> adapters]
    /\ UNCHANGED <<adapterFiles, adapters, statuses, runtimeJobs, stirred, readOrder, overtakenReads, overtakenSends>>
RulesWatcherTells ==
    /\ rulesWatch.at = "send" /\ rulesWatch' = [rulesWatch EXCEPT !.at = "idle"]
    /\ runtimeJobs' = Refreshed(runtimeJobs, rulesWatch.loaded) /\ SentIn(rulesWatch.loaded)
    /\ UNCHANGED <<adapterFiles, adapters, statuses, stirred, readOrder, overtakenReads>>

\* ---- calibration_apply ----

JobGoes(i, at) == runtimeJobs' = [runtimeJobs EXCEPT ![i].at = at]
\* source_and_target: the user's file as it is now, or the text in the binary,
\* by what the catalog says; a file that is gone is an error.
CalibrationReads(i) ==
    LET id == Asked(i).id
        text == IF adapters[id].own THEN adapterFiles[id] ELSE BuiltinAdapters[id]
    IN  /\ RuntimeAt(i, "calibrate", "begin")
        /\ IF text = NoAdapter THEN JobGoes(i, "failed")
           ELSE runtimeJobs' = [runtimeJobs EXCEPT ![i].at = "write", ![i].spec = text]
        /\ UNCHANGED <<adapterFiles, adapters, statuses, stirred, rulesWatch, readOrder, overtakenReads, overtakenSends>>
CalibrationWrites(i) ==
    /\ RuntimeAt(i, "calibrate", "write") /\ JobGoes(i, "load") /\ stirred' = TRUE
    /\ adapterFiles' = [adapterFiles EXCEPT ![Asked(i).id] = [runtimeJobs[i].spec EXCEPT !.rules = Asked(i).rules]]
    /\ UNCHANGED <<adapters, statuses, rulesWatch, readOrder, overtakenReads, overtakenSends>>
CalibrationLoads(i) ==
    /\ RuntimeAt(i, "calibrate", "load") /\ readOrder' = Append(readOrder, i)
    /\ runtimeJobs' = [runtimeJobs EXCEPT ![i].at = "set", ![i].view = LoadedAdapters]
    /\ UNCHANGED <<adapterFiles, adapters, statuses, stirred, rulesWatch, overtakenReads, overtakenSends>>
CalibrationSets(i) ==
    /\ RuntimeAt(i, "calibrate", "set")
    /\ SetCatalog(i, runtimeJobs[i].view, [runtimeJobs EXCEPT ![i].at = "refresh"])
    /\ UNCHANGED <<adapterFiles, stirred, rulesWatch, overtakenSends>>
CalibrationClones(i) ==
    /\ RuntimeAt(i, "calibrate", "refresh")
    /\ runtimeJobs' = [runtimeJobs EXCEPT ![i].at = "send", ![i].view = adapters]
    /\ UNCHANGED <<adapterFiles, adapters, statuses, stirred, rulesWatch, readOrder, overtakenReads, overtakenSends>>
CalibrationTells(i) ==
    /\ RuntimeAt(i, "calibrate", "send") /\ rulesWatch' = rulesWatch
    /\ runtimeJobs' = Refreshed([runtimeJobs EXCEPT ![i].at = "done"], runtimeJobs[i].view)
    /\ SentIn(runtimeJobs[i].view)
    /\ UNCHANGED <<adapterFiles, adapters, statuses, stirred, readOrder, overtakenReads>>

\* ---- overview ----

\* A cached status serves while the command is the one it was detected with.
Fresh0(id) == statuses[id] # NoStatus /\ statuses[id].key = adapters[id].spec.command
OverviewBegins(i) ==
    /\ RuntimeAt(i, "overview", "begin")
    /\ runtimeJobs' = [runtimeJobs EXCEPT
           ![i].at = "detect", ![i].view = adapters,
           ![i].pending = {id \in Known : Asked(i).refresh \/ ~Fresh0(id)}]
    /\ UNCHANGED <<adapterFiles, adapters, statuses, stirred, rulesWatch, readOrder, overtakenReads, overtakenSends>>
\* detect_runtime, without a lock: the command is not there, fails, does not
\* answer in time, or answers.
Detected0(i, id) ==
    /\ RuntimeAt(i, "overview", "detect") /\ id \in runtimeJobs[i].pending
    /\ \E outcome \in {"available", "missing"} :
         LET command == runtimeJobs[i].view[id].spec.command
         IN  runtimeJobs' = [runtimeJobs EXCEPT
                 ![i].pending = @ \ {id},
                 ![i].found[id] = [key |-> command, status |-> [of |-> command, outcome |-> outcome]]]
    /\ UNCHANGED <<adapterFiles, adapters, statuses, stirred, rulesWatch, readOrder, overtakenReads, overtakenSends>>
\* The answer lists the catalog as it is now, with the cache under each name.
OverviewAnswers(i) ==
    LET cache == [id \in AdapterIds |-> IF runtimeJobs[i].found[id] # NoStatus THEN runtimeJobs[i].found[id]
                                        ELSE statuses[id]]
    IN  /\ RuntimeAt(i, "overview", "detect") /\ runtimeJobs[i].pending = {}
        /\ statuses' = cache
        /\ runtimeJobs' = [j \in DOMAIN runtimeJobs |->
               IF j = i THEN [runtimeJobs[i] EXCEPT !.at = "answered", !.view = adapters,
                              !.answer = [id \in Known |-> cache[id].status]]
               ELSE IF runtimeJobs[j].at = "detect" /\ runtimeJobs[i].disturbed
                    THEN [runtimeJobs[j] EXCEPT !.disturbed = TRUE] ELSE runtimeJobs[j]]
        /\ UNCHANGED <<adapterFiles, adapters, stirred, rulesWatch, readOrder, overtakenReads, overtakenSends>>

\* ---- sessions ----

\* start takes the adapter, and enters its detector in the table later.
SessionTakes(i) ==
    /\ RuntimeAt(i, "start", "begin")
    /\ IF Asked(i).id \in Known
       THEN runtimeJobs' = [runtimeJobs EXCEPT ![i].at = "taken", ![i].spec = adapters[Asked(i).id].spec]
       ELSE JobGoes(i, "failed")
    /\ UNCHANGED <<adapterFiles, adapters, statuses, stirred, rulesWatch, readOrder, overtakenReads, overtakenSends>>
SessionEnters(i) ==
    /\ RuntimeAt(i, "start", "taken") /\ JobGoes(i, "live")
    /\ UNCHANGED <<adapterFiles, adapters, statuses, stirred, rulesWatch, readOrder, overtakenReads, overtakenSends>>

RuntimesNext ==
    \/ RulesWatcherLoads \/ RulesWatcherSets \/ RulesWatcherClones \/ RulesWatcherTells
    \/ \E i \in DOMAIN runtimeJobs :
         \/ UserSavesAdapter(i) \/ SessionTakes(i) \/ SessionEnters(i)
         \/ CalibrationReads(i) \/ CalibrationWrites(i) \/ CalibrationLoads(i)
         \/ CalibrationSets(i) \/ CalibrationClones(i) \/ CalibrationTells(i)
         \/ OverviewBegins(i) \/ OverviewAnswers(i) \/ \E id \in AdapterIds : Detected0(i, id)
RuntimesSpec == RuntimesInit /\ [][RuntimesNext]_runtimesVars

\* ---- properties ----

RuntimesRest ==
    /\ ~stirred /\ rulesWatch.at = "idle"
    /\ \A i \in DOMAIN runtimeJobs :
         runtimeJobs[i].at \in {"done", "failed"} \/ Asked(i).op \in {"overview", "start"}
\* "o idle_regex novo vale sem reiniciar agente nenhum" (supervisor/mod.rs:979):
\* once the folder, the watcher and the calibrations rest, the catalog is what
\* the folder holds, unless a read was put over a newer one; and every live
\* session reads its screen by the catalog, unless an older catalog was sent to
\* the sessions after it, or the session's start overlapped the change.
RulesReachSessions ==
    RuntimesRest =>
        /\ ~overtakenReads => adapters = LoadedAdapters
        /\ ~overtakenSends => \A i \in DOMAIN runtimeJobs :
             RuntimeAt(i, "start", "live") /\ ~runtimeJobs[i].late /\ Asked(i).id \in Known
             => runtimeJobs[i].spec.rules = adapters[Asked(i).id].spec.rules
\* An overview shows of each runtime what the command it has now answered, if
\* the catalog stayed as it was meanwhile and no overview that a change had
\* overtaken ended meanwhile: whatever is left in the cache by those.
StatusIsOfItsCommand ==
    \A i \in DOMAIN runtimeJobs :
        runtimeJobs[i].at = "answered" /\ ~runtimeJobs[i].disturbed =>
            \A id \in DOMAIN runtimeJobs[i].answer :
                runtimeJobs[i].view[id].spec.command = runtimeJobs[i].answer[id].of

\* The two uses of an adapter that must not be old: the rules of the sessions
\* that run, and what the overview says is installed.
RuntimesAreCurrent == RulesReachSessions /\ StatusIsOfItsCommand

\* "Agentes ja rodando mantem o adaptador com que subiram ate reiniciarem"
\* (docs/05, line 14): what a session was started with stays its own.  The code
\* does not hold to it: refresh_state_rules sends the new rules to live sessions.
KeepsItsAdapter ==
    [][\A i \in DOMAIN runtimeJobs :
         RuntimeAt(i, "start", "live") => runtimeJobs'[i].spec = runtimeJobs[i].spec]_runtimesVars

=============================================================================
