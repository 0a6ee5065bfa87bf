------------------------------- MODULE Bench -------------------------------
(***************************************************************************)
(* Benches: a git worktree with a branch of its own for each agent (core,    *)
(* bench/{mod,git,local}.rs).  A start prepares or finds the bench, an agent *)
(* works, merges and publishes there, and a bench is removed with its agent. *)
(* Every call of git or of the disk is a step, may fail, and may be the last *)
(* of the process.  A branch is the set of the changes it has; git's own     *)
(* refusals (two worktrees of a branch, removing what is not committed) are  *)
(* part of the model.                                                        *)
(***************************************************************************)
EXTENDS Naturals, Sequences, FiniteSetsExt

CONSTANTS
    Benches,         \* the agents' handles: bench, folder and branch
    BenchScenes,     \* sequences of requests [op, bench]
    Surroundings,    \* what may surround them: [mode, git, repo, base, setup]
    MaxBroken        \* bound: steps that fail or are the last

\* What is asked for is asked of a bench, and begins at its first step.
BenchOps == {"start", "edit", "base", "sync", "publish", "remove", "vanish"}
ASSUME BenchScenesAssumption == BenchScenes \subseteq Seq([op: BenchOps, bench: Benches])

VARIABLES
    around,        \* the setting: mode, version of git, repository, base branch
    base,          \* changes of the branch of the team's own checkout
    branches,      \* bench -> the changes of its branch, or NoBranch
    folders,       \* bench -> "none", "empty", "other" or "tree"
    registered,    \* the worktrees git knows
    pending,       \* bench -> its changes that are not committed
    prepared,      \* bench -> "no", "copied", "warned" or "done"
    remote,        \* bench -> the changes that were published
    benchJobs, broken,
    made,          \* history: bench -> every change its agent made
    interrupted    \* history: benches whose preparation did not come to its end

benchVars == <<around, base, branches, folders, registered, pending, prepared, remote,
               benchJobs, broken, made, interrupted>>

NoBranch == {}
BaseChanges == <<100, 101>>
BenchInit ==
    /\ around \in Surroundings /\ base = {BaseChanges[1]}
    /\ branches = [b \in Benches |-> NoBranch] /\ registered = {}
    /\ folders \in [Benches -> {"none", "other"}] /\ pending = [b \in Benches |-> {}]
    /\ prepared = [b \in Benches |-> "no"] /\ remote = [b \in Benches |-> {}]
    /\ \E scene \in BenchScenes :
         benchJobs = [i \in DOMAIN scene |-> [ask |-> scene[i], at |-> scene[i].op, warned |-> FALSE]]
    /\ broken = 0 /\ made = [b \in Benches |-> {}] /\ interrupted = {}

Of(i) == benchJobs[i].ask.bench
BenchGoes(i, at) == benchJobs' = [benchJobs EXCEPT ![i].at = at]
WarnsAndGoes(i, warned, at) ==
    benchJobs' = [benchJobs EXCEPT ![i].at = at, ![i].warned = @ \/ warned]
Untouched == UNCHANGED <<around, base, remote, broken, made, interrupted>>
\* The job's turn: the requests of one bench run one after the other (the
\* supervisor's reservation, and the one terminal of an agent).
BenchTurn(i) ==
    \A j \in 1..(i - 1) : Of(j) = Of(i) => benchJobs[j].at \in {"shared", "bench", "error", "done", "dead"}

\* prepare_workdir: the team's own directory, with a warning where a bench was
\* wanted and git cannot give it.
LooksForBench(i) ==
    /\ benchJobs[i].at = "start" /\ BenchTurn(i)
    /\ CASE around.mode = "shared" -> WarnsAndGoes(i, FALSE, "shared")
         [] around.mode # "shared" /\ (around.git # "new" \/ ~around.repo) -> WarnsAndGoes(i, TRUE, "shared")
         [] OTHER -> BenchGoes(i, "list")
    /\ Untouched /\ UNCHANGED <<branches, folders, registered, pending, prepared>>
\* A bench that git knows and that is there is used as it is.
Reuses(i) ==
    /\ benchJobs[i].at = "list"
    /\ BenchGoes(i, IF Of(i) \in registered /\ folders[Of(i)] = "tree" THEN "bench" ELSE "prune")
    /\ Untouched /\ UNCHANGED <<branches, folders, registered, pending, prepared>>
Prunes(i) ==
    /\ benchJobs[i].at = "prune"
    /\ registered' = {b \in registered : folders[b] = "tree"}
    /\ BenchGoes(i, IF folders[Of(i)] \in {"other", "tree"} \/ ~around.base THEN "error" ELSE "add")
    /\ Untouched /\ UNCHANGED <<branches, folders, pending, prepared>>
\* add_worktree: the branch as it was left, or a new one from the base.
\* FromTheBase is the mutant of BranchFor.
FromTheBase(b) == base
BranchFor(b) == IF branches[b] = NoBranch THEN base ELSE branches[b]
AddsWorktree(i) ==
    /\ benchJobs[i].at = "add"
    /\ branches' = [branches EXCEPT ![Of(i)] = BranchFor(Of(i))]
    /\ folders' = [folders EXCEPT ![Of(i)] = "tree"] /\ registered' = registered \union {Of(i)}
    /\ prepared' = [prepared EXCEPT ![Of(i)] = "no"] /\ pending' = [pending EXCEPT ![Of(i)] = {}]
    /\ BenchGoes(i, "copy") /\ interrupted' = interrupted \ {Of(i)}
    /\ UNCHANGED <<around, base, remote, broken, made>>
\* init_submodules may warn; copy_ignored_files: what is not in the repository is told, what cannot be
\* copied ends the start.
CopiesIgnored(i) ==
    /\ benchJobs[i].at = "copy"
    /\ \E missing \in BOOLEAN :
         /\ WarnsAndGoes(i, missing, IF around.setup THEN "setup" ELSE "bench")
         /\ prepared' = [prepared EXCEPT ![Of(i)] =
                CASE around.setup -> "copied" [] ~around.setup /\ missing -> "warned" [] OTHER -> "done"]
    /\ Untouched /\ UNCHANGED <<branches, folders, registered, pending>>
\* run_setup, within ten minutes.
SetupWarns(ok) == ~ok
RunsSetup(i) ==
    /\ benchJobs[i].at = "setup"
    /\ \E ok \in BOOLEAN :
         /\ WarnsAndGoes(i, SetupWarns(ok), "bench")
         /\ prepared' = [prepared EXCEPT ![Of(i)] = IF ok THEN "done" ELSE "warned"]
    /\ Untouched /\ UNCHANGED <<branches, folders, registered, pending>>

\* The agent, and the humans of the base branch.
Edits(i) ==
    /\ benchJobs[i].at = "edit" /\ BenchTurn(i)
    /\ IF folders[Of(i)] # "tree" \/ Of(i) \notin registered
       THEN BenchGoes(i, "done") /\ UNCHANGED <<pending, made>>
       ELSE /\ pending' = [pending EXCEPT ![Of(i)] = @ \union {i}]
            /\ made' = [made EXCEPT ![Of(i)] = @ \union {i}]
            /\ \E next \in {"commit", "done"} : BenchGoes(i, next)
    /\ UNCHANGED <<around, base, branches, folders, registered, prepared, remote, broken, interrupted>>
Commits(i) ==
    /\ benchJobs[i].at = "commit" /\ BenchGoes(i, "done")
    /\ IF folders[Of(i)] # "tree" THEN UNCHANGED <<branches, pending>>
       ELSE /\ branches' = [branches EXCEPT ![Of(i)] = @ \union pending[Of(i)]]
            /\ pending' = [pending EXCEPT ![Of(i)] = {}]
    /\ Untouched /\ UNCHANGED <<folders, registered, prepared>>
BaseMoves(i) ==
    /\ benchJobs[i].at = "base" /\ BenchGoes(i, "done") /\ base' = base \union {BaseChanges[2]}
    /\ UNCHANGED <<around, branches, folders, registered, pending, prepared, remote, broken, made, interrupted>>
\* sync: a merge, never a rebase; a conflict is undone and told.
Syncs(i) ==
    /\ benchJobs[i].at = "sync" /\ BenchTurn(i)
    /\ IF folders[Of(i)] # "tree" THEN BenchGoes(i, "error") /\ UNCHANGED branches
       ELSE \/ branches' = [branches EXCEPT ![Of(i)] = @ \union base] /\ BenchGoes(i, "done")
            \/ base \ branches[Of(i)] # {} /\ BenchGoes(i, "conflict") /\ UNCHANGED branches
    /\ Untouched /\ UNCHANGED <<folders, registered, pending, prepared>>
\* KeepsMerging is the mutant of Aborted: the merge that was begun stays.
KeepsMerging(b) == [pending EXCEPT ![b] = {102}]
Aborted(b) == pending
Aborts(i) ==
    /\ benchJobs[i].at = "conflict" /\ pending' = Aborted(Of(i)) /\ BenchGoes(i, "error")
    /\ Untouched /\ UNCHANGED <<branches, folders, registered, prepared>>
Publishes(i) ==
    /\ benchJobs[i].at = "publish" /\ BenchTurn(i)
    /\ IF folders[Of(i)] # "tree" THEN BenchGoes(i, "error") /\ UNCHANGED remote
       ELSE BenchGoes(i, "done") /\ remote' = [remote EXCEPT ![Of(i)] = branches[Of(i)]]
    /\ UNCHANGED <<around, base, branches, folders, registered, pending, prepared, broken, made, interrupted>>

\* remove_bench: with changes it refuses; git would refuse those of between.
LooksBeforeRemoving(i) ==
    /\ benchJobs[i].at = "remove"
    /\ BenchGoes(i, CASE folders[Of(i)] \in {"none"} -> "done"
                      [] folders[Of(i)] # "none" /\ (pending[Of(i)] # {} \/ ~around.repo \/ folders[Of(i)] = "other") -> "error"
                      [] OTHER -> "worktree")
    /\ Untouched /\ UNCHANGED <<branches, folders, registered, pending, prepared>>
\* ForcedAway is the mutant of Removable: git worktree remove --force.
ForcedAway(b) == b \in registered
Removable(b) == b \in registered /\ pending[b] = {}
RemovesTree(i) ==
    /\ benchJobs[i].at = "worktree"
    /\ IF ~Removable(Of(i)) THEN BenchGoes(i, "error") /\ UNCHANGED <<folders, registered, pending>>
       ELSE /\ folders' = [folders EXCEPT ![Of(i)] = "none"] /\ registered' = registered \ {Of(i)}
            /\ pending' = [pending EXCEPT ![Of(i)] = {}] /\ BenchGoes(i, "done")
    /\ Untouched /\ UNCHANGED <<branches, prepared>>

\* Any step of the preparation may fail, or be the last of the process.
BenchBreaks(i) ==
    /\ broken < MaxBroken /\ benchJobs[i].at \in {"list", "prune", "add", "copy", "setup"}
    /\ BenchGoes(i, "error") /\ broken' = broken + 1
    /\ interrupted' = IF benchJobs[i].at \in {"copy", "setup"} THEN interrupted \union {Of(i)} ELSE interrupted
    /\ UNCHANGED <<around, base, branches, folders, registered, pending, prepared, remote, made>>
\* A human takes the folder of a bench away without git.
FolderVanishes(i) ==
    /\ benchJobs[i].at = "vanish" /\ BenchTurn(i) /\ BenchGoes(i, "done")
    /\ folders' = [folders EXCEPT ![Of(i)] = "none"]
    /\ made' = [made EXCEPT ![Of(i)] = @ \ pending[Of(i)]] /\ pending' = [pending EXCEPT ![Of(i)] = {}]
    /\ UNCHANGED <<around, base, branches, registered, prepared, remote, broken, interrupted>>

BenchNext ==
    \E i \in DOMAIN benchJobs :
        \/ LooksForBench(i) \/ Reuses(i) \/ Prunes(i) \/ AddsWorktree(i) \/ CopiesIgnored(i) \/ RunsSetup(i)
        \/ Edits(i) \/ Commits(i) \/ BaseMoves(i) \/ Syncs(i) \/ Aborts(i) \/ Publishes(i)
        \/ LooksBeforeRemoving(i) \/ RemovesTree(i) \/ BenchBreaks(i) \/ FolderVanishes(i)
BenchSpec == BenchInit /\ [][BenchNext]_benchVars

\* What an agent wrote is in its bench or in its branch, whatever is started,
\* merged, removed and created again around it ("apagar trabalho de um agente
\* é o tipo de coisa que não tem volta", mod.rs:219).
WorkIsKept ==
    \A b \in Benches : made[b] \subseteq branches[b] \union pending[b]
ReadyQuietly(i) == benchJobs[i].at # "bench" /\ benchJobs'[i].at = "bench" /\ ~benchJobs'[i].warned
WarnedBefore(i) == benchJobs[i].at = "list" /\ prepared[Of(i)] = "warned"
\* A start that says nothing of its bench gives one that was copied to and set
\* up, or of which an earlier start had warned; unless that earlier start was
\* cut short, which the next one neither notices nor repeats (mod.rs:150).
QuietBenchIsPrepared ==
    \A i \in DOMAIN benchJobs : ReadyQuietly(i) =>
        prepared'[Of(i)] = "done" \/ WarnedBefore(i) \/ Of(i) \in interrupted

\* A bench is safe to work in: it keeps what was made in it, and does not pass
\* for prepared when it is not (mod.rs:150, mod.rs:219).
BenchesAreSafe == [][WorkIsKept' /\ QuietBenchIsPrepared]_benchVars

\* "sem isso o agente sobe numa bancada que não builda" (docs/16:83): refuted,
\* a start that was cut short leaves such a bench to the next one, untold.
StartedBenchBuilds ==
    [][\A i \in DOMAIN benchJobs : ReadyQuietly(i) =>
         prepared'[Of(i)] = "done" \/ WarnedBefore(i)]_benchVars
=============================================================================
