----------------------------- MODULE Supervisor -----------------------------
(***************************************************************************)
(* The life of ONE agent under AgentSupervisor                             *)
(* (aisense-core/src/supervisor/mod.rs) and PtyManager                     *)
(* (aisense-pty/src/manager.rs).  The supervisor's map and the PTY         *)
(* manager's map are keyed by agent and no operation reads another agent's *)
(* entry, so one agent shows every interleaving of interest.               *)
(*                                                                         *)
(* Concurrent parties, one step per critical section or await:             *)
(*   - activations of start(): from the UI, or from a policy restart;      *)
(*     an activation is named after the session it will register;          *)
(*   - threads inside stop() (Stoppers);                                   *)
(*   - the process, its reader and the pump, which announce the exit;      *)
(*   - on_exit(), one task per session; run_detector(), one per session;   *)
(*   - the application closing (shutdown of supervisor, then of the PTYs). *)
(*                                                                         *)
(* Time is abstracted: any timer may fire at any moment after it is set.   *)
(***************************************************************************)
EXTENDS Naturals, FiniteSets, TLC

CONSTANTS
    Sessions,         \* session ids start() can still mint (bounds the run)
    NoSession,
    Stoppers,         \* threads that may be inside stop()
    Policies,         \* restart policies an agent may be given
    DetectedStates,   \* what the detector may report
    RecordTimeout,    \* may SESSION_RECORD_WAIT elapse before the record?
    ExitStoreFails,   \* may on_exit() fail to write the store?
    SerialCommands,   \* does the caller wait for a command before the next?
    MaxFailures       \* u32::MAX, where saturating_add stops counting

\* Mutant of Running: an agent still starting does not count.
RunningButStarting == {"idle", "busy", "awaiting_input"}

\* AgentState::is_running
Running == {"starting", "idle", "busy", "awaiting_input"}
States  == Running \cup {"stopped", "failed"}

ASSUME SupervisorAssumption ==
    /\ NoSession \notin Sessions
    /\ Policies \subseteq {"never", "on_crash", "always"}
    /\ DetectedStates \subseteq {"idle", "busy", "awaiting_input"}
    /\ RecordTimeout \in BOOLEAN
    /\ ExitStoreFails \in BOOLEAN
    /\ SerialCommands \in BOOLEAN

ASSUME BackoffAssumption == MaxFailures \in Nat \ {0}

VARIABLES
    (* Supervised, the supervisor's entry for the agent, under its mutex.    *)
    state,         \* entry.state
    session,       \* entry.session
    stopRequested, \* entry.stop_requested
    policy,        \* entry.restart_policy
    failures,      \* entry.backoff
    cancelled,     \* sessions whose CancellationToken fired: start() puts a
                   \* fresh token in the entry together with the session
    (* PtyManager *)
    managed,       \* the session in `sessions` for this agent
    proc,          \* proc[s]: the operating system process of session s
    signalled,     \* sessions whose process was sent the kill signal
    (* aisense-store *)
    record,        \* record[s]: the row of `sessions`
    tokens,        \* sessions with a row in `agent_tokens`
    (* Program counters *)
    startpc,       \* startpc[s]: the activation of start() that mints s
    startedBy,     \* who called it: "user" or "policy"
    recorded,      \* sessions whose `recorded` watch was set
    exitpc,        \* exitpc[s]: the on_exit() task of session s
    detecting,     \* sessions whose run_detector() task is alive
    stoppc,        \* stoppc[t]: the thread inside stop()
    app,           \* the application: up, closing, down
    (* Auxiliary *)
    wanted         \* the last command of the human: none, start or stop

entryVars == <<state, session, stopRequested, policy, failures, cancelled>>
ptyVars   == <<managed, proc, signalled>>
storeVars == <<record, tokens>>
taskVars  == <<startpc, startedBy, recorded, exitpc, detecting>>
userVars  == <<stoppc, app, wanted>>
vars == <<entryVars, ptyVars, storeVars, taskVars, userVars>>

StartPCs == {"unused", "preparing", "checking", "forking", "inserting",
             "recording", "granting", "failing", "done"}
ExitPCs  == {"none", "recording", "ending", "revoking", "deciding",
             "sleeping", "done"}

TypeOK ==
    /\ state \in States
    /\ session \in Sessions \cup {NoSession}
    /\ stopRequested \in BOOLEAN
    /\ policy \in {"never", "on_crash", "always"}
    /\ failures \in 0..MaxFailures
    /\ cancelled \subseteq Sessions \cup {NoSession}
    /\ managed \in Sessions \cup {NoSession}
    /\ proc \in [Sessions -> {"none", "alive", "exit_0", "exit_1", "orphan", "gone"}]
    /\ signalled \subseteq Sessions
    /\ record \in [Sessions -> {"none", "open", "closed"}]
    /\ tokens \subseteq Sessions
    /\ startpc \in [Sessions -> StartPCs]
    /\ startedBy \in [Sessions -> {"user", "policy"}]
    /\ recorded \subseteq Sessions
    /\ exitpc \in [Sessions -> ExitPCs]
    /\ detecting \subseteq Sessions
    /\ stoppc \in [Stoppers -> {"idle", "killing", "settling"}]
    /\ app \in {"up", "closing", "down"}
    /\ wanted \in {"none", "start", "stop"}

Init ==
    /\ state = "stopped" /\ session = NoSession /\ stopRequested = FALSE
    /\ policy = "on_crash" /\ failures = 0 /\ cancelled = {}
    /\ managed = NoSession /\ proc = [s \in Sessions |-> "none"]
    /\ signalled = {}
    /\ record = [s \in Sessions |-> "none"] /\ tokens = {}
    /\ startpc = [s \in Sessions |-> "unused"]
    /\ startedBy = [s \in Sessions |-> "user"]
    /\ recorded = {} /\ exitpc = [s \in Sessions |-> "none"]
    /\ detecting = {} /\ stoppc = [t \in Stoppers |-> "idle"]
    /\ app = "up" /\ wanted = "none"

-----------------------------------------------------------------------------
(* Backoff::next_delay (supervisor/backoff.rs): an agent that keeps falling   *)
(* waits longer.  Its state is the number of falls in a row; how long the     *)
(* wait is does not matter here, since a timer may fire at any moment.        *)

\* A run of at least STABLE_AFTER forgets the falls before it.
FallsBefore(failed, stable) == IF stable THEN 0 ELSE failed

\* Mutant of NextFailures: plain addition.
NextFailuresUnbounded(failed, stable) == FallsBefore(failed, stable) + 1

\* What next_delay leaves in the counter: saturating_add(1).
NextFailures(failed, stable) ==
    LET falls == FallsBefore(failed, stable)
    IN  IF falls < MaxFailures THEN falls + 1 ELSE MaxFailures

-----------------------------------------------------------------------------
(* start()                                                                   *)

InStart(a) == startpc[a] \notin {"unused", "done"}
CommandInFlight ==
    \/ \E a \in Sessions : InStart(a) /\ startedBy[a] = "user"
    \/ \E t \in Stoppers : stoppc[t] # "idle"
MayCommand == app = "up" /\ (SerialCommands => ~CommandInFlight)

\* entry.cancel.cancel(): a restart scheduled by the current session is off.
\* Mutant: the token is replaced, or the flag set, without firing it.
CancelNothing   == UNCHANGED cancelled
CancelScheduled == cancelled' = cancelled \cup {session}

Goto(a, label) == startpc' = [startpc EXCEPT ![a] = label]


\* The early check of start(); AlreadyRunning returns with nothing changed.
Enter(a, who) ==
    /\ startpc[a] = "unused"
    /\ state \notin Running
    /\ Goto(a, "preparing")
    /\ startedBy' = [startedBy EXCEPT ![a] = who]

\* The human (or "start the team", or the second half of restart()) starts it.
StartCall(a) ==
    /\ MayCommand
    /\ Enter(a, "user")
    /\ wanted' = "start"
    /\ UNCHANGED <<entryVars, ptyVars, storeVars, recorded, exitpc,
                   detecting, stoppc, app>>

\* The agent, team, adapter, skills or token could not be had: `?` returns.
StartRefused(a) ==
    /\ startpc[a] = "preparing"
    /\ Goto(a, "done")
    /\ UNCHANGED <<entryVars, ptyVars, storeVars, startedBy, recorded, exitpc,
                   detecting, userVars>>

\* prepare_workdir() or build_launch() failed: set_state(Failed).
PrepareFails(a) ==
    /\ startpc[a] = "preparing"
    /\ Goto(a, "done")
    /\ state' = "failed"
    /\ UNCHANGED <<session, stopRequested, policy, failures, cancelled,
                   ptyVars, storeVars, startedBy, recorded, exitpc, detecting,
                   userVars>>

\* The critical section that makes the new session the current one.
Register(a) ==
    /\ startpc[a] = "preparing"
    /\ Goto(a, "checking")
    /\ CancelScheduled
    /\ session' = a
    /\ stopRequested' = FALSE
    /\ \E p \in Policies : policy' = p
    /\ state' = "starting"
    /\ UNCHANGED <<failures, ptyVars, storeVars, startedBy, recorded, exitpc,
                   detecting, userVars>>

\* PtyManager::start under the read lock: refuse a second live session.
CheckAlive(a) ==
    /\ startpc[a] = "checking"
    /\ Goto(a, IF managed # NoSession /\ proc[managed] = "alive"
               THEN "failing" ELSE "forking")
    /\ UNCHANGED <<entryVars, ptyVars, storeVars, startedBy, recorded, exitpc,
                   detecting, userVars>>

\* PtySession::spawn_with_ring, with no lock held: it forks, or fails.  It also
\* fails with the child up, when the reader, the writer or the thread that waits
\* cannot be had: no one kills the child then, and no one holds it.
Fork(a) ==
    /\ startpc[a] = "forking"
    /\ \/ Goto(a, "failing") /\ UNCHANGED proc
       \/ Goto(a, "inserting") /\ proc' = [proc EXCEPT ![a] = "alive"]
       \/ Goto(a, "failing") /\ proc' = [proc EXCEPT ![a] = "orphan"]
    /\ UNCHANGED <<entryVars, managed, signalled, storeVars, startedBy,
                   recorded, exitpc, detecting, userVars>>

\* PtyManager::start under the write lock: the new session replaces whatever
\* was there.  start() then spawns the detector task.
Insert(a) ==
    /\ startpc[a] = "inserting"
    /\ managed' = a
    /\ detecting' = detecting \cup {a}
    /\ Goto(a, "recording")
    /\ UNCHANGED <<entryVars, proc, signalled, storeVars, startedBy, recorded,
                   exitpc, userVars>>

\* spawn_hidden() returned an error: set_state(Failed), whatever is current.
SpawnFailed(a) ==
    /\ startpc[a] = "failing"
    /\ state' = "failed"
    /\ Goto(a, "done")
    /\ UNCHANGED <<session, stopRequested, policy, failures, cancelled,
                   ptyVars, storeVars, startedBy, recorded, exitpc, detecting,
                   userVars>>

\* Mutant of StartSession: a failure leaves on_exit() waiting.
StartSessionForgets(a) ==
    /\ startpc[a] = "recording"
    /\ \/ /\ record' = [record EXCEPT ![a] = "open"]
          /\ Goto(a, "granting")
       \/ /\ Goto(a, "done")
          /\ UNCHANGED record
    /\ UNCHANGED <<entryVars, ptyVars, tokens, startedBy, recorded, exitpc,
                   detecting, userVars>>

\* start_session(); when it fails there is no token, but `recorded` is set.
StartSession(a) ==
    /\ startpc[a] = "recording"
    /\ \/ /\ record' = [record EXCEPT ![a] = "open"]
          /\ Goto(a, "granting")
          /\ UNCHANGED recorded
       \/ /\ Goto(a, "done")
          /\ recorded' = recorded \cup {a}
          /\ UNCHANGED record
    /\ UNCHANGED <<entryVars, ptyVars, tokens, startedBy, exitpc, detecting,
                   userVars>>

\* insert_token(), which may fail, and then recorded_tx.send(true).
InsertToken(a) ==
    /\ startpc[a] = "granting"
    /\ \/ tokens' = tokens \cup {a}
       \/ UNCHANGED tokens
    /\ recorded' = recorded \cup {a}
    /\ Goto(a, "done")
    /\ UNCHANGED <<entryVars, ptyVars, record, startedBy, exitpc, detecting,
                   userVars>>

StartStep(a) ==
    \/ StartRefused(a) \/ PrepareFails(a) \/ Register(a) \/ CheckAlive(a)
    \/ Fork(a) \/ Insert(a) \/ SpawnFailed(a) \/ StartSession(a)
    \/ InsertToken(a)

-----------------------------------------------------------------------------
(* stop(), in two parts: the entry's lock is released in between.            *)

\* The lock.  (An agent with no entry yet is one in its initial state; there
\* stop() sets no flag, but start() would clear it before anyone reads it.)
StopCall(t) ==
    /\ MayCommand
    /\ stoppc[t] = "idle"
    /\ stopRequested' = TRUE
    /\ CancelScheduled
    /\ stoppc' = [stoppc EXCEPT ![t] =
                      IF state \in Running THEN "killing" ELSE "settling"]
    /\ wanted' = "stop"
    /\ UNCHANGED <<state, session, policy, failures, ptyVars, storeVars,
                   taskVars, app>>

\* PtyManager::kill: a signal to the process of the session in the map, if
\* any.  The process decides what to do with it (SIGHUP, on Unix).
StopKill(t) ==
    /\ stoppc[t] = "killing"
    /\ stoppc' = [stoppc EXCEPT ![t] = "idle"]
    /\ signalled' = signalled \cup ({managed} \ {NoSession})
    /\ UNCHANGED <<entryVars, managed, proc, storeVars, taskVars, app, wanted>>

\* Nothing was running when the lock was held: set_state(Stopped).
StopSettle(t) ==
    /\ stoppc[t] = "settling"
    /\ stoppc' = [stoppc EXCEPT ![t] = "idle"]
    /\ state' = "stopped"
    /\ UNCHANGED <<session, stopRequested, policy, failures, cancelled, ptyVars,
                   storeVars, taskVars, app, wanted>>

-----------------------------------------------------------------------------
(* The process, and the announcement of its end                              *)

\* The process ends, by itself or by the signal; the waiter thread clears
\* `running` and keeps the exit code.
ProcessEnds(s, end) ==
    /\ proc[s] = "alive"
    /\ proc' = [proc EXCEPT ![s] = end]
    /\ UNCHANGED <<entryVars, managed, signalled, storeVars, taskVars, userVars>>

\* A process that nobody holds ends when it likes, and nobody sees it.
OrphanEnds(s) ==
    /\ proc[s] = "orphan"
    /\ proc' = [proc EXCEPT ![s] = "gone"]
    /\ UNCHANGED <<entryVars, managed, signalled, storeVars, taskVars, userVars>>

\* The reader saw the end of the output, pump() drained it and called
\* ExitHook::exit, which spawns on_exit().
AnnounceExit(s) ==
    /\ proc[s] \in {"exit_0", "exit_1"}
    /\ exitpc[s] = "none"
    /\ exitpc' = [exitpc EXCEPT ![s] = "recording"]
    /\ UNCHANGED <<entryVars, ptyVars, storeVars, startpc, startedBy, recorded,
                   detecting, userVars>>

ExitGoto(s, from, to) ==
    /\ exitpc[s] = from
    /\ exitpc' = [exitpc EXCEPT ![s] = to]

\* start() recorded the session, or SESSION_RECORD_WAIT elapsed.
\* Mutant: on_exit() does not wait.
NoWait(s)  == TRUE
Waited(s) == s \in recorded \/ RecordTimeout

AwaitRecord(s) ==
    /\ Waited(s)
    /\ ExitGoto(s, "recording", "ending")
    /\ UNCHANGED <<entryVars, ptyVars, storeVars, startpc, startedBy, recorded,
                   detecting, userVars>>

\* end_session(): an UPDATE, which finds no row if start() is late.  A failure
\* of the store is only logged, here and in the next step.
EndSession(s) ==
    /\ ExitGoto(s, "ending", "revoking")
    /\ \/ record' = [record EXCEPT ![s] = IF @ = "open" THEN "closed" ELSE @]
       \/ ExitStoreFails /\ UNCHANGED record
    /\ UNCHANGED <<entryVars, ptyVars, tokens, startpc, startedBy, recorded,
                   detecting, userVars>>

\* revoke_session_tokens()
RevokeTokens(s) ==
    /\ ExitGoto(s, "revoking", "deciding")
    /\ \/ tokens' = tokens \ {s}
       \/ ExitStoreFails /\ UNCHANGED tokens
    /\ UNCHANGED <<entryVars, ptyVars, record, startpc, startedBy, recorded,
                   detecting, userVars>>

\* RestartPolicy::should_restart, for a process that ended this way.
ShouldRestart(p, end) == p = "always" \/ (p = "on_crash" /\ end # "exit_0")

\* The exit of a session that was replaced is ignored.
DecideStale(s) ==
    /\ session # s
    /\ ExitGoto(s, "deciding", "done")
    /\ UNCHANGED <<entryVars, ptyVars, storeVars, startpc, startedBy, recorded,
                   detecting, userVars>>

\* The exit of the current session: its final state, and whether it comes back.
Decide(s) ==
    /\ session = s
    /\ LET restart == ~stopRequested /\ ShouldRestart(policy, proc[s])
       IN  /\ ExitGoto(s, "deciding", IF restart THEN "sleeping" ELSE "done")
           /\ IF restart
              THEN \E stable \in BOOLEAN :
                        failures' = NextFailures(failures, stable)
              ELSE UNCHANGED failures
    /\ state' = IF stopRequested \/ proc[s] = "exit_0"
                THEN "stopped" ELSE "failed"
    /\ UNCHANGED <<session, stopRequested, policy, cancelled, ptyVars, storeVars,
                   startpc, startedBy, recorded, detecting, userVars>>

\* The delay elapsed (even if the token fired meanwhile: `select!` takes either
\* ready branch): on_exit() calls start().
RestartDue(s, a) ==
    /\ ExitGoto(s, "sleeping", "done")
    /\ Enter(a, "policy")
    /\ UNCHANGED <<entryVars, ptyVars, storeVars, recorded, detecting, userVars>>

\* ... or start() refuses, because the agent is already up.
RestartRefused(s) ==
    /\ state \in Running
    /\ ExitGoto(s, "sleeping", "done")
    /\ UNCHANGED <<entryVars, ptyVars, storeVars, startpc, startedBy, recorded,
                   detecting, userVars>>

\* The token fired while the task slept.
RestartCancelled(s) ==
    /\ s \in cancelled
    /\ ExitGoto(s, "sleeping", "done")
    /\ UNCHANGED <<entryVars, ptyVars, storeVars, startpc, startedBy, recorded,
                   detecting, userVars>>

ExitStep(s) ==
    \/ AwaitRecord(s) \/ EndSession(s) \/ RevokeTokens(s)
    \/ DecideStale(s) \/ Decide(s)

RestartStep(s) ==
    \/ \E a \in Sessions : RestartDue(s, a)
    \/ RestartRefused(s) \/ RestartCancelled(s)

-----------------------------------------------------------------------------
(* run_detector() and apply_detection()                                      *)

\* What apply_detection() asks before it believes the detector.
\* Mutant: only the session is compared.
IsCurrent(s)          == session = s
IsCurrentAndRunning(s) == session = s /\ state \in Running

\* A detection for the current, running session becomes its state.
Detect(s, detected) ==
    /\ s \in detecting
    /\ IsCurrentAndRunning(s)
    /\ state' = detected
    /\ UNCHANGED <<session, stopRequested, policy, failures, cancelled, ptyVars,
                   storeVars, taskVars, userVars>>

\* Any other one ends the detector task.
DetectorStops(s) ==
    /\ s \in detecting
    /\ ~IsCurrentAndRunning(s)
    /\ detecting' = detecting \ {s}
    /\ UNCHANGED <<entryVars, ptyVars, storeVars, startpc, startedBy, recorded,
                   exitpc, userVars>>

-----------------------------------------------------------------------------
(* The application closes: AgentSupervisor::shutdown, PtyManager::shutdown   *)

SupervisorShutdown ==
    /\ app = "up"
    /\ app' = "closing"
    /\ stopRequested' = TRUE
    /\ CancelScheduled
    /\ UNCHANGED <<state, session, policy, failures, ptyVars, storeVars, taskVars,
                   stoppc, wanted>>

\* Mutant of PtyShutdown: the map is emptied and nothing is killed.
PtyShutdownForgets ==
    /\ app = "closing"
    /\ app' = "down"
    /\ managed' = NoSession
    /\ UNCHANGED <<entryVars, proc, signalled, storeVars, taskVars, stoppc, wanted>>

PtyShutdown ==
    /\ app = "closing"
    /\ app' = "down"
    /\ managed' = NoSession
    /\ signalled' = signalled \cup
           {s \in {managed} \ {NoSession} : proc[s] = "alive"}
    /\ UNCHANGED <<entryVars, proc, storeVars, taskVars, stoppc, wanted>>

-----------------------------------------------------------------------------
Next ==
    \/ \E a \in Sessions : StartCall(a) \/ StartStep(a)
    \/ \E t \in Stoppers : StopCall(t) \/ StopKill(t) \/ StopSettle(t)
    \/ \E s \in Sessions :
          \/ ProcessEnds(s, "exit_0") \/ ProcessEnds(s, "exit_1") \/ OrphanEnds(s)
          \/ AnnounceExit(s) \/ ExitStep(s) \/ RestartStep(s)
          \/ \E d \in DetectedStates : Detect(s, d)
          \/ DetectorStops(s)
    \/ SupervisorShutdown \/ PtyShutdown

Spec == Init /\ [][Next]_vars

\* Every task of the runtime is scheduled, and the PTY reports the end of the
\* output of a process that ended.  Nothing is assumed of the human, of the
\* process, nor of what the screen shows.
Fairness ==
    /\ \A a \in Sessions : WF_vars(StartStep(a))
    /\ \A t \in Stoppers : WF_vars(StopKill(t) \/ StopSettle(t))
    /\ \A s \in Sessions : /\ WF_vars(AnnounceExit(s))
                           /\ WF_vars(ExitStep(s))
                           /\ WF_vars(RestartStep(s))

FairSpec == Spec /\ Fairness

\* A process that was sent the signal ends: SIGHUP is not ignored.
Obedience ==
    \A s \in Sessions :
        WF_vars(/\ s \in signalled
                /\ ProcessEnds(s, "exit_0") \/ ProcessEnds(s, "exit_1"))

ObedientSpec == FairSpec /\ Obedience

\* The sessions are minted in any order and nothing compares them; the same
\* holds of the threads inside stop().
SupervisorSymmetry == Permutations(Sessions) \cup Permutations(Stoppers)

-----------------------------------------------------------------------------
(* Properties of every interleaving                                          *)

\* A process that the program holds, and one that a failed spawn left.
Alive(s)  == proc[s] = "alive"
Orphan(s) == proc[s] = "orphan"
Over(s)  == exitpc[s] \in {"sleeping", "done"}

\* No ghost: an agent shown as running has a session whose end has not been
\* decided.  No start, stop, stale exit or detection may put the state of a
\* finished session back to a running one: nobody would ever take it down.
NoGhost == state \in Running => session \in Sessions /\ ~Over(session)

\* At most the current session has a restart scheduled that nobody cancelled,
\* and none is left once a stop was asked for.
OneRestartScheduled ==
    \A s \in Sessions : exitpc[s] = "sleeping" /\ s \notin cancelled
                           => session = s /\ ~stopRequested

\* A token is valid only while its session is recorded and open (I4): it needs
\* a row, on_exit() takes it away in the step after it closes the row, and no
\* row of a process that was dealt with is open.  (Provided start() recorded the
\* session within SESSION_RECORD_WAIT, and the store takes on_exit()'s writes.)
TokenMeansOpenSession ==
    \A s \in Sessions :
        /\ s \in tokens => record[s] = "open" \/ exitpc[s] = "revoking"
        /\ exitpc[s] \in {"deciding", "sleeping", "done"} => record[s] # "open"

\* The supervisor implements the abstract life of an agent: it comes up only
\* through the critical section of start(), with a session never used before.
Life == INSTANCE AgentLife WITH
            up <- state \in Running, current <- session,
            used <- (cancelled \cup {session}) \ {NoSession}
LifeSpec == Life!LifeSpec

\* Every process that ends is dealt with: its session is closed, its token
\* revoked, its fate decided.
ExitIsFinalised ==
    \A s \in Sessions : proc[s] \in {"exit_0", "exit_1"} ~> Over(s)

-----------------------------------------------------------------------------
(* Properties of one command at a time, without restarts by policy           *)

\* No orphan but of a spawn that failed with its child up: a live process is in
\* the PTY manager's map, or about to be put there, or was sent the signal, since
\* otherwise nobody could stop it; or start() answers of it that it failed, and
\* keeps neither a row nor a token of it.
NoOrphan ==
    \A s \in Sessions :
        /\ Alive(s) => s = managed \/ s \in signalled \/ startpc[s] = "inserting"
        /\ Orphan(s) => /\ startpc[s] \in {"failing", "done"} /\ s # managed
                        /\ record[s] = "none" /\ s \notin tokens

\* stop() stops: in the end no process that the program holds is left and the
\* state says so, unless the human asked to start it again.
StopStops ==
    wanted = "stop" ~> \/ wanted # "stop"
                       \/ state = "stopped" /\ \A s \in Sessions : ~Alive(s)

-----------------------------------------------------------------------------
(* What docs, comments and tests say, and the code does not do               *)

\* "Falha se ja existir uma viva com esse id": one process at a time.
OneProcess == \A r, s \in Sessions : Alive(r) /\ Alive(s) => r = s

\* "Encerra tudo.  Chamado ao fechar o app para nao deixar processo orfao": once
\* the PTYs are shut down every process was sent the signal, but of starts that
\* still go on.
ShutdownEndsAll ==
    app = "down" => \A s \in Sessions :
        Alive(s) \/ Orphan(s) => s \in signalled \/ InStart(s)

\* "Para o agente e cancela qualquer reinicio agendado": after stop() no
\* restart by policy makes a new session current.
StopCancelsRestart ==
    [][\A a \in Sessions : session # a /\ session' = a /\ startedBy[a] = "policy"
                              => wanted # "stop"]_vars
=============================================================================
