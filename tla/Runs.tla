-------------------------------- MODULE Runs --------------------------------
(***************************************************************************)
(* The named commands of a project (core, project/{config,run}.rs; cli,      *)
(* local.rs; app, commands/board.rs run_all): `aisense run`, and the gate of *)
(* a column, which runs its commands in order.  A file keeps a command from  *)
(* running twice in a directory; the thread of a run waits for the command   *)
(* and then for whoever still holds its output.  The text of the commands    *)
(* and of their output is left out, and so is time: a command may go over    *)
(* its limit, and a lock grow old, at any moment.                            *)
(***************************************************************************)
EXTENDS Naturals, Sequences, FiniteSets

CONSTANTS
    Commands,
    ProjectFiles,    \* what aisense.toml may hold, "missing" among them
    RunScenes,       \* sequences of requests [by, commands]
    RunSlots,        \* bound: the places of the requests in a scene
    MaxRunCrashes, MaxSleeps   \* bounds: processes that die, nights of sleep

ASSUME RunScenesAssumption ==
    \A scene \in RunScenes : \A i \in DOMAIN scene :
        /\ i \in Nat \ {0} /\ scene[i].commands # <<>>
        /\ scene[i] \in [by : {"cli", "gate"}, commands : Seq(Commands)]

VARIABLES
    projectFile,   \* what the directory's aisense.toml holds
    lockDir,       \* "writable" or "readonly": the directory of the locks
    locks,         \* command -> [by, stale], or NoLock
    runs,          \* per request: where it is and what its command does
    notes,         \* the runs whose summary went to the timeline
    loosened,      \* history: commands whose lock did not keep others out
    runCrashes, sleeps

runVars == <<projectFile, lockDir, locks, runs, notes, loosened, runCrashes, sleeps>>

NoLock == [by |-> 0, stale |-> FALSE]
MaxTimeout == 2
\* parse_project_config: every command has a line and a limit within reach,
\* the gates are commands, and what a bench copies is inside the repository.
Entry(file, c) == file.commands[c]
ValidProject(file) ==
    /\ \A c \in DOMAIN file.commands :
         Entry(file, c).line # "" /\ Entry(file, c).timeout \in 1..MaxTimeout
    /\ file.gates \subseteq DOMAIN file.commands /\ file.copies \subseteq {"inside"}
\* load_project, then resolve.
Lookup(c) ==
    CASE projectFile = [kind |-> "missing"] -> "no config"
      [] projectFile.kind = "found" /\ ~ValidProject(projectFile) -> "invalid"
      [] projectFile.kind = "found" /\ ValidProject(projectFile) /\ c \notin DOMAIN projectFile.commands -> "unknown"
      [] OTHER -> "named"

RunInit ==
    /\ projectFile \in ProjectFiles /\ lockDir \in {"writable", "readonly"}
    /\ locks = [c \in Commands |-> NoLock]
    /\ \E scene \in RunScenes :
         runs = [i \in DOMAIN scene |->
            [ask |-> scene[i], at |-> "resolve", n |-> 1, held |-> FALSE,
             child |-> "none", left |-> {}, exits |-> <<>>]]
    /\ notes = {} /\ loosened = {} /\ runCrashes = 0 /\ sleeps = 0

Wanted(i) == runs[i].ask.commands[runs[i].n]
RunStep(i, row) == runs' = [runs EXCEPT ![i] = row]
RunGoes(i, at) == RunStep(i, [runs[i] EXCEPT !.at = at])
SameProject == UNCHANGED <<projectFile, lockDir, runCrashes, sleeps>>

Resolves(i) ==
    /\ runs[i].at = "resolve"
    /\ RunGoes(i, IF Lookup(Wanted(i)) = "named" THEN "look" ELSE "failed")
    /\ SameProject /\ UNCHANGED <<locks, notes, loosened>>

\* RunLock::take looks at the lock, removes what it thinks is an old one, and
\* makes its own; without a place for it, it runs all the same.
LooksAtLock(i) ==
    /\ runs[i].at = "look"
    /\ RunGoes(i, IF locks[Wanted(i)].stale THEN "remove" ELSE "open")
    /\ SameProject /\ UNCHANGED <<locks, notes, loosened>>
RemovesLock(i) ==
    /\ runs[i].at = "remove" /\ locks' = [locks EXCEPT ![Wanted(i)] = NoLock] /\ RunGoes(i, "open")
    /\ SameProject /\ UNCHANGED <<notes, loosened>>
\* OpensAnyway is the mutant of CanOpen: create in the place of create_new.
OpensAnyway(c) == TRUE
CanOpen(c) == locks[c] = NoLock
OpensLock(i) ==
    /\ runs[i].at = "open"
    /\ IF lockDir = "readonly"
       THEN RunGoes(i, "spawn") /\ loosened' = loosened \union {Wanted(i)} /\ UNCHANGED locks
       ELSE IF CanOpen(Wanted(i))
       THEN /\ locks' = [locks EXCEPT ![Wanted(i)] = [by |-> i, stale |-> FALSE]]
            /\ RunStep(i, [runs[i] EXCEPT !.at = "spawn", !.held = TRUE]) /\ UNCHANGED loosened
       ELSE RunGoes(i, "failed") /\ UNCHANGED <<locks, loosened>>
    /\ SameProject /\ UNCHANGED notes

Spawns(i) ==
    /\ runs[i].at = "spawn"
    /\ \/ RunStep(i, [runs[i] EXCEPT !.at = "wait", !.child = "running"])
       \/ RunGoes(i, "unlock failed")
    /\ SameProject /\ UNCHANGED <<locks, notes, loosened>>
\* What a command may have in the background, holding its output: processes of
\* its group, and processes in a session of their own.
Background == SUBSET {"group", "own"}
\* The command ends by itself, leaving nothing or something in the background.
CommandEnds(i) ==
    /\ runs[i].child = "running"
    /\ \E exit \in {"passed", "failed"}, left \in Background :
         RunStep(i, [runs[i] EXCEPT !.child = exit, !.left = left])
    /\ SameProject /\ UNCHANGED <<locks, notes, loosened>>
LeftoverEnds(i) ==
    /\ \E part \in runs[i].left : RunStep(i, [runs[i] EXCEPT !.left = @ \ {part}])
    /\ SameProject /\ UNCHANGED <<locks, notes, loosened>>
\* kill_tree signals the group and then the shell, and waits for neither; that
\* the first could not be sent is not looked at.  What is in a session of its
\* own lives on.  ShellOnly is the mutant of Survivors: the group is spared.
ShellOnly(background) == background
Survivors(background) == background \ {"group"}
\* try_wait, every 20 ms; over the limit, kill_tree.
SeesTheEnd(i) ==
    /\ runs[i].at = "wait"
    /\ \/ /\ runs[i].child \in {"passed", "failed"}
          /\ RunStep(i, [runs[i] EXCEPT !.at = "join", !.exits = Append(@, runs[i].child)])
       \/ /\ runs[i].child = "running"
          /\ \E background \in Background, child \in {"killed", "shell killed"} :
               RunStep(i, [runs[i] EXCEPT
                   !.at = "join", !.child = child, !.exits = Append(@, "timeout"),
                   !.left = IF child = "killed" THEN Survivors(background) ELSE background])
    /\ SameProject /\ UNCHANGED <<locks, notes, loosened>>
\* The pumps are joined without a limit: they end with the last holder of the
\* output.
OutputEnds(i) ==
    /\ runs[i].at = "join" /\ runs[i].left = {} /\ RunGoes(i, "unlock")
    /\ SameProject /\ UNCHANGED <<locks, notes, loosened>>
\* Drop removes the file, whoever made it.  A gate goes on to its next command
\* while they pass.
Unlocks0(i) ==
    /\ runs[i].at \in {"unlock", "unlock failed"}
    /\ locks' = IF runs[i].held THEN [locks EXCEPT ![Wanted(i)] = NoLock] ELSE locks
    /\ LET ended == runs[i].exits # <<>> /\ runs[i].at = "unlock"
           passed == ended /\ runs[i].exits[Len(runs[i].exits)] = "passed"
           more == runs[i].ask.by = "gate" /\ passed /\ runs[i].n < Len(runs[i].ask.commands)
       IN  RunStep(i, [runs[i] EXCEPT
               !.held = FALSE, !.child = "none", !.n = IF more THEN @ + 1 ELSE @,
               !.at = CASE more -> "resolve"
                                  [] ~more /\ runs[i].ask.by = "cli" /\ ended -> "record"
                           [] ~more /\ runs[i].ask.by = "gate" /\ passed -> "passed"
                           [] OTHER -> "failed"])
    /\ SameProject /\ UNCHANGED <<notes, loosened>>
RecordsRun(i) ==
    /\ runs[i].at = "record"
    /\ RunGoes(i, IF runs[i].exits = <<"passed">> THEN "passed" ELSE "failed")
    /\ notes' \in {notes, notes \union {i}}      \* without the program, no note
    /\ SameProject /\ UNCHANGED <<locks, loosened>>

\* The process of a run dies: its command goes on, and nobody limits it.
Dies0(i) ==
    /\ runCrashes < MaxRunCrashes /\ runs[i].at \notin {"passed", "failed", "dead"}
    /\ RunGoes(i, "dead") /\ runCrashes' = runCrashes + 1
    /\ UNCHANGED <<projectFile, lockDir, locks, notes, loosened, sleeps>>
\* A lock is old when its time is over the limit and a minute: its run is
\* dead or waits for the output, or the machine slept (the limit does not
\* count the sleep, the age of the file does).
LockAges(c) ==
    LET i == locks[c].by
    IN  /\ locks[c] # NoLock /\ ~locks[c].stale
        /\ \/ runs[i].at \in {"dead", "join"} /\ UNCHANGED sleeps
           \/ runs[i].at \notin {"dead", "join"} /\ sleeps < MaxSleeps /\ sleeps' = sleeps + 1
        /\ locks' = [locks EXCEPT ![c].stale = TRUE] /\ loosened' = loosened \union {c}
        /\ UNCHANGED <<projectFile, lockDir, runs, notes, runCrashes>>

Runner(i) == \/ Resolves(i) \/ LooksAtLock(i) \/ RemovesLock(i) \/ OpensLock(i) \/ Spawns(i)
             \/ SeesTheEnd(i) \/ OutputEnds(i) \/ Unlocks0(i) \/ RecordsRun(i)
RunNext ==
    \/ \E i \in DOMAIN runs : Runner(i) \/ CommandEnds(i) \/ LeftoverEnds(i) \/ Dies0(i)
    \/ \E c \in Commands : LockAges(c)
\* The process of a run takes its steps; commands may stay for ever.
RunFairness == \A i \in RunSlots : WF_runVars(i \in DOMAIN runs /\ Runner(i))
RunSpec == RunInit /\ [][RunNext]_runVars /\ RunFairness

IsRunning(i, c) == runs[i].child = "running" /\ Wanted(i) = c
\* "Impede o mesmo comando duas vezes ao mesmo tempo no mesmo diretório"
\* (run.rs:98).  Refuted: a lock that grows old, and everyone who takes it
\* over then, lets others in; its holder removes the lock of the next.
NeverTwiceAtOnce ==
    \A c \in Commands : Cardinality({i \in DOMAIN runs : IsRunning(i, c)}) < 2
\* What remains true: a command runs twice at once only if its lock grew old
\* under a run, or could not be made.
TwiceOnlyWhenLoose ==
    \A c \in Commands \ loosened : Cardinality({i \in DOMAIN runs : IsRunning(i, c)}) < 2
\* Who may still hold the output of a command that is over, with nobody to end
\* it: what a command that ended by itself left, what has a session of its own,
\* and what the kill spared because it could not be sent.
HeldOpen(i) ==
    /\ runs[i].left # {}
    /\ runs[i].child \in {"passed", "failed", "shell killed"} \/ "own" \in runs[i].left
\* Every run comes to its end or is held by one of those: a run over its limit
\* whose group was signalled is not held by its group (run.rs, kill_tree), and no
\* run waits for a lock or for the command behind it.
RunsEnd ==
    \A i \in RunSlots :
        (i \in DOMAIN runs) ~> i \in DOMAIN runs /\
            (runs[i].at \in {"passed", "failed", "dead"} \/ HeldOpen(i))
\* "Mata o comando e tudo que ele abriu" (run.rs:160): a run that was killed at
\* its limit comes to its end.  Refuted: what has a session of its own is not in
\* the group that is signalled, keeps the output open, and the pumps are joined
\* without a limit.
LimitEndsTheRun ==
    \A i \in RunSlots :
        (i \in DOMAIN runs /\ runs[i].child = "killed")
            ~> i \in DOMAIN runs /\ runs[i].at \notin {"wait", "join"}
=============================================================================
