# AISENSE in TLA+

AISENSE is a desktop application that runs a team of AI command line agents, each in a
pseudo-terminal, and connects them by a message bus, a board of cards, shared notes and work
directories. Its core is Rust (`crates/`): asynchronous services over one SQLite database, called
at the same time by the agents (through a CLI or an MCP server, over a local socket), by the
desktop window and by the core's own tasks. This directory models that core: TLA+ modules
translated from the source, TLC configurations that check them on small instances, and proofs
TLAPS checks for every instance. `PROJECT.json` maps every definition to the lines it
translates, and lists the runs, the mutants, the hazards and the theorems.

Contents

1. The system: components, state, operations, interactions
2. The modules
3. What each run checks and shows
4. Bounds
5. Fairness
6. What is proved, and how
7. What the runs refute in the docs
8. Divergences seen, without a run
9. What is not modelled, and the plan

Commands, in this directory: `tlc -config SupervisorRaces.cfg Supervisor.tla` (and likewise for
each `.cfg`, with the module section 3 names), `tlapm SupervisorProofs.tla` (and likewise `AskProofs`,
`PushProofs`, `BusProofs`, `BoardProofs`, `DeskProofs`, `HostProofs`, `SiftProofs`).

---------------------------------------------------------------------------------------------

## 1. The system

Paths are relative to `src/crates/`.

### Agent supervisor: `aisense-core/src/supervisor`, `aisense-pty/src/manager.rs`

*State.* Per agent, under one mutex: its state (stopped, starting, idle, busy, awaiting_input,
failed), the current session, whether a stop was requested, the restart policy, the backoff, a
cancellation token. Next to it, under another lock, the PTY manager's map of live sessions; in the
store, a row per session and per token.
*Operations.* start (user, or restart by policy), stop, restart, shutdown; the exit hook of each
session; the detector task of each session; the boot instructions typed on the first prompt.
*Interaction.* It forks processes through the PTY manager, writes sessions and tokens to the store,
and tells an observer each change of state, after the lock is released: that is what drives push.
*Hard.* `start()` awaits for seconds between its check and the section that registers the session;
the PTY manager checks, forks and inserts in three steps; exits of replaced sessions, late
detections, restarts asleep while a stop arrives, store failures while the process already runs.
*Correct when.* No finished session is shown as running; a stop leaves nothing scheduled; a token
is valid only while its session is open; every exit is finalised; no process is left without owner.

### Push delivery: `aisense-core/src/bus/push.rs`, `aisense-app/src/commands/push.rs`

*State.* Per agent: the messages pending, what the queue believes of the agent's state, the time of
the last injection. Three tasks (hub, tick, injector) and an unbounded channel between them.
*Operations.* enqueue, state change, tick, forget (the message was read), inject.
*Interaction.* Hears the bus's broadcast channel, the supervisor's observer and the reader's
observer; types into the PTY; updates the delivery rows the inbox also updates.
*Hard.* Every pair of these parties races on the row, on the queue or on the agent's state.
*Correct when.* In order, once, never into a question, `delivered` is true, and nothing forgotten.

### The bus: `aisense-core/src/bus`

*State.* Messages, deliveries, channels and their members in the store; the hub (a broadcast channel
of 1024); the graph of who waits for whom; the anti-loop guards (windows of sent messages,
repetitions, paused teams) under one mutex.
*Operations.* send, note, status, ask (blocks until an answer or a timeout), reply, wait, inbox;
save, delete, join and leave of a channel; resume of a paused team.
*Interaction.* A call is a task of the IPC server; its client may disappear at any time.
*Hard.* Crossed questions; a receiver that lags; failures after the edge was registered; an await
between a refusal and its notice; member lists that are read and written back whole.
*Correct when.* No ring of blocked agents, no edge left behind, no answer or message slept through;
the limits hold in every window and each is announced once; who joined gets the messages.

### Board: `aisense-core/src/board`, `aisense-store/src/board.rs`

*State.* Cards (column, owner, reason of a block, approval, checklist, version), dependencies,
comments, activity rows, columns with limits, approval and a gate of commands, automations.
*Operations.* add, claim, move, block, assign, archive, approve, reject, update, check, link,
comment, split; save of columns and automations; the tick of cards that stand still. Automations
fire on the write of each and call the same operations again.
*Interaction.* Called by every agent and the human; notifies over the bus; runs commands.
*Hard.* No call is a transaction; a card is read, edited in memory and written back under its
version; the gate may take minutes; automations may trigger each other.
*Correct when.* No edit is lost, a card has one owner, limits hold, approval cannot be avoided,
every call ends, an automation fires once for what it is for.

### The rest

| Component | State and operations | Hard behaviour | Property it needs |
| --- | --- | --- | --- |
| State detector and boot text, `state/detector.rs`, `supervisor/boot.rs` | a screen, the silence; a text to type and its deadline | rules that change in a silence; first prompt against deadline against exit | it wakes in time; the text is typed once |
| PTY output, `session.rs`, `ring.rs`, `batch.rs`, `log.rs`, `manager.rs` | ring, batch, log file; reader, pump, waiter threads; a panel that hides and shows | drain before exit; bounds; a history that meets a stream | no hole, and the exit comes last |
| Logs, `transcript.rs` | one file for all sessions of an agent, offsets | rotation while it is read | a session's text is its own |
| Store, `repo/`, `aisense-store` | tables with keys, and a store in memory for the tests | cascades by hand and by keys | both answer alike |
| Upgrade, `db.rs` | the file, backups by version | a program that dies between two steps | nothing is lost |
| Teams, proposals, agents, `supervisor/team.rs`, `proposal/`, `agent/` | rows; start, stop, restart all; propose, decide; edits of rows | one of many fails; executed before decided | nobody left down; executed exactly when accepted |
| Shared notes, `notes.rs` | Markdown files; append, write under a hash, delete | a lock per process | no text replaced unseen |
| Skills, `skill/` | a library of folders, its catalog, mirror and watcher; skills put beside an agent's project | temporary files, reloads, a manifest written last | shown is what is there; the user's folders stay |
| Benches and named commands, `bench/`, `project/` | git worktrees; child processes, lock files | setup interrupted; locks that grow old | work is kept; runs end |
| Local socket, `aisense-ipc` | one connection per client; frames, tokens | a client, a program or an answer that is lost | a call runs once at most |
| Preferences, `settings.rs` | a file, the keychain, a form | a crash in a save, a stale form | told is kept |
| Runtimes, `adapter/` | a catalog, its watcher, a cache of detections | reloads that overlap | rules reach the sessions |
| CLI, MCP, hooks, desktop window | none of their own | -- | -- |

### How they interact

```
  CLI / MCP / window --> IPC handler --> BusService --> store
                                   |        |  hub (broadcast)
                                   |        v
                                   |     push: hub task -> queues -> injector --> PTY --> agent
                                   |        ^  state observer                      |
                                   |        |                                      v
                                   +--> Supervisor <-- detector <-- screen --------+
                                   +--> BoardService -- notices --> BusService
                                             `-- gate --> project commands
```

---------------------------------------------------------------------------------------------

## 2. The modules

| Module | Models | Kind |
| --- | --- | --- |
| `Supervisor` | one agent under the supervisor, its backoff and the PTY manager | component |
| `AgentLife` | what the supervisor promises of one agent | abstract specification |
| `SupervisorProofs` | theorems of `Supervisor` and of `Terminal`, the process of an agent and its output | proofs |
| `Boot` | the detector, its task, its timers and the boot text, of an agent of some sessions | component |
| `Push` | delivery to one agent, from the row to the terminal | component |
| `Guards` | the anti-loop guards, one operation per critical section | component, used by `Bus` |
| `Bus` | send, note, status, channels, with the guards between a call and its message | composes `Guards` |
| `Ask` | ask, reply, wait, and the graph of waits | component |
| `AskProofs` | theorems of `Ask` | proofs |
| `Sift`, `SiftProofs` | what a list leaves when it is filtered; lemmas about it | operator of `Push`, `Guards`, `Board`, `BoardSetup`, `Team` and `Notes`; proofs |
| `PushProofs`, `BusProofs`, `BoardProofs` | theorems of `Push`, of `Bus` with `Guards`, of `Board` and `Cards` | proofs |
| `DeskProofs` | theorems of `Proposals`, `Bench`, `Settings`, `Team`, `BoardSetup`, `Library` and `Runtimes`, which are components of the desk | proofs |
| `HostProofs` | theorems of `Ipc`, `Runs`, `Boot`, `Upgrade`, `Native` and `Notes`, which deal with the machine: its sockets, locks, screens, files | proofs |
| `Board` | the cards of one team and the calls that move them | component |
| `Cards` | the calls that edit a card, its dependencies and comments | component |
| `BoardSetup` | columns, automations and the tick of cards that stand still | component |
| `Terminal` | output from the read of the pseudo-terminal to the panel | component |
| `Transcript` | the log of an agent and the text made of it | component |
| `Rows` | the rows the ports store | used by the stores |
| `MemoryStore`, `SqliteStore` | each call of the ports, in each store | components |
| `StoreContract` | both stores behind the same calls | composes the two |
| `Upgrade` | backup, migrations and restore of the database | component |
| `Team`, `Proposals` | calls on a team; decisions and rows of agents | components |
| `Notes`, `Library`, `Native` | shared notes; the library of skills; skills beside a project | components |
| `Bench`, `Runs` | worktrees of agents; named commands | components |
| `Ipc` | the local socket, its connections and tokens | component |
| `Settings`, `Runtimes` | preferences and secrets; adapters, their detection and rules | components |
| `MCBoard`, `MCBus`, `MCStore`, `MCTerminal` | instances for TLC | model checking |
| `MCBoot` | an instance of `Boot` and one of `Runs` | model checking |
| `MCDesk` | an instance of each of thirteen small components | model checking |

**Steps.** In all of them a step of the model is what the code does between two points where
another party may run: a critical section of a mutex, one statement or transaction of SQLite, one
operation on a channel or on a file, or one await. A critical section that ends just before another
effect of the same thread is two steps whenever somebody could tell. A call that runs by itself is
a record with the place `at` where it is; the actions are its steps, and a `scene` is the sequence
of calls that an instance makes at the same time.

**Supervisor.** The supervisor's map and the PTY manager's map are keyed by agent and no operation
reads another's entry, so one agent is enough. `state`, `session`, `stopRequested`, `policy`,
`failures` and `cancelled` are the fields of `Supervised`; the cancellation token is replaced with
the session, so `cancelled` is the set of sessions whose token fired. `managed` is the manager's
map, `proc` the operating system's process, `record` and `tokens` the store. An activation of
`start()` is named after the session it will mint and its steps are `Enter` (the early check),
`PrepareFails` / `StartRefused` / `Register` (the critical section), `CheckAlive`, `Fork`,
`Insert`, `SpawnFailed`, `StartSession`, `InsertToken`. `Fork` has the three outcomes of
`spawn_with_ring`: no child, a child that will be inserted, and an error answered with the child up
(the reader, the writer or the waiting thread could not be had), which leaves an `orphan` that no
map holds and no signal reaches; it ends when it likes (`OrphanEnds`). `stop()` is `StopCall`, then `StopKill` or
`StopSettle`. The exit task of a session is `AnnounceExit`, `AwaitRecord`, `EndSession`,
`RevokeTokens`, `Decide` or `DecideStale`, and, when it restarts, `RestartDue`, `RestartRefused` or
`RestartCancelled`: in a `select!` either ready branch wins. `Detect` and `DetectorStops` are
`apply_detection()`; `SupervisorShutdown` and `PtyShutdown` the closing of the window. Timers may
fire at any time. Program counters aside, the only auxiliary variable is `wanted`, the last command
of the human.

**Boot.** A screen is its lines and what they match; the rules are a set that a catalog may change
at any time. `Judge` is `evaluate`, `NextDeadline` what the task sleeps for; `Task(s)` goes from a
screen or a deadline to a decision, `Apply` brings it to the supervisor, `TimeOut` is
`boot_timed_out`, and the text is typed outside the lock. Starts run alone here: their races are
Supervisor's.

**Push.** One agent. `Store` and `Publish` are `dispatch()`; `Hear`, `HearLagged`, `Enqueue`,
`ResolveFails` the hub task; `Notify` the observer of the supervisor, told after the lock;
`Tick` and `Rest` the timer and the throttle; `Ready` is `PushQueues::ready`, which every operation
of the queue ends with. `TakeInjection`, `Type`, then per message `ReadRow` and `SaveRow` (or
`LoseRow`), are the injector. `Fetch`, `Mark`, `Forget` are a reader of the inbox.

**Guards and Bus.** `Verdict`, `Count`, `Resume` and the rest are the operations of `GuardState`,
with a clock; `Bus` runs calls that read, ask the guards, give way, and write: the message with its
deliveries is one transaction (`Route`), the members of a channel are read in one step and written
in another. `passed`, `refused`, `joined`, `raced` and `mixed` are history.

**Ask.** A call of ask, a reply and a wait are tasks with a program counter. `Register` and
`Refuse` are the critical section on the graph. `cursor` is the position of a receiver of the
broadcast channel: more than `HubCapacity` behind, its next receive is `Lagged`. `Leave` is the
drop of the guard `Waiting`, on every way out. Self-questions are allowed by the code and
the model, and refused by the graph.

**Board.** `todo[p]` is what the call of `p` has still to do, a sequence of steps: `find`, `gate`,
`read`, `write`, `record`, then the automations it fired, each `act` followed by a `read` and
`write` of its own. `Edited` and `Refuses` are the closures given to `update_with()`; `UpToDate`
and `Fits` the `WHERE` of `update_card()`; `Again` its retry. `Fails` says how far an error
reaches: an error ends a call, but only one action of an automation. `cameFrom` is what
`reject()` looks for in the activity rows. Add, dependencies and their check for cycles are
separate steps, because the code has awaits between them.

**Cards and BoardSetup.** `Cards` has the calls that edit what is on a card: each is found, read,
written under its version (and tried again), recorded, and only then completes the checklist's
automation, adds or removes edges, comments and tells. `BoardSetup` has `save_columns` (moves and
columns in one write, the automations in a second), `set_automations`, and `tick`, which asks for
the cards that stand still and fires each rule once per passage (`staleFired`, in memory).

**Terminal.** Output is counted in pieces. The reader appends to the ring and the stream; the pump
takes, logs, feeds the detector and batches (`Receive`, `Wake`, `SeeDone`, `EmitReady`, `Deliver`,
`Drain`); `show`, `hide` and `clear` are calls of the panel, which merges the history it is answered
with the events (`HydrationGate`). The exit comes from the waiter and the pump together.

**Stores.** `MemoryStore` and `SqliteStore` have one operator per call of the ports, over the same
rows; `Cascade` is what the keys of the tables do, and the other store does by hand. In
`StoreContract` each call is made to both, and the answers and what can be read must agree.

**Upgrade.** Programs that know different versions open one database, one after the other.
`database` and `backups` are files that may be whole, torn or empty; `Connects0`, `LooksAtVersions`,
`RemovesBackup`, `VacuumBegins`, `VacuumEnds`, `Migrates`, `Undoes`, `RestoreBegins`, `RestoreEnds`
are the steps of `db.rs`, and `StartDies` may come between any two.

**The other components** keep a record per call as described under *Steps*: `Team` (below), `Proposals` (propose,
decide with execute and record, edits of whole rows), `Notes` (each access to the file system, the
lock of the folder, the diff a stale writer is shown), `Library` (temporary file, fill, rename;
events, the watcher, reads put over the catalog and the mirror), `Native` (the manifest read first
and written last, folders ours or the user's), `Bench` (git's calls and refusals, what was copied and
set up), `Runs` (lock file, shell, what the command left in its group or in a session of its own and
the output that holds, the kill of the group at the limit, sleep of the machine),
`Ipc` (probe and bind, hello, requests, answers, ends), `Transcript` (a reader of the log, byte by
byte, against the sessions that write and rotate it), `Settings` (load, write aside, rename, hub,
keychain), `Runtimes` (reads of the folder, detections without a lock, calibration, sessions; the
clone of a catalog and its sending to the sessions are two steps, as in `refresh_state_rules`).

**Team.** A call has a list of agents and deals with one at a time. The start of an agent is three
steps, whoever starts it: its state is checked and its row read (`StartBegins`, `RestartBegins`);
seconds later it registers its session, or gives up (`StartRegisters`, `RestartRegisters`); then its
process comes up, or the spawn fails (`StartSpawns`, `RestartSpawns`). Nobody looks at the row again,
so a retirement, a deletion, a stop or another start may come between any two. A restart by policy is
such a start with a delay before it (`Due`); `restarts` has where it is. `agents` has, per agent, the
fields of `Supervised` that matter here and what the manager's map holds: nothing, the process of the
session that registered last, or of one it replaced. `told` are the calls that had that process
killed. An exit and what `on_exit()` decides of it are one step here, and so are the flag and the
signal of a stop: `Supervisor` has them apart, and the orphans of failed spawns.

**Abstractions.** Texts, names, layout and logging are left out; a message, a session, a card is a
model value. Times are left out where nothing compares them: whatever waits for a time may happen at
any moment (`Guards` and `Boot` have clocks). SQLite is sequentially consistent, one statement or
transaction per step. A broadcast channel is the sequence of what was sent and a position per
receiver.

---------------------------------------------------------------------------------------------

## 3. What each run checks and shows

| Run | Module, configuration | Result | States | What it asks |
| --- | --- | --- | --- | --- |
| `sup_races` | `Supervisor`, `SupervisorRaces.cfg` | pass | 2,092,073 | Concurrent starts, a stop, exits, detections, a restart by policy, shutdown: `TypeOK`, `NoGhost`, `OneRestartScheduled`, `TokenMeansOpenSession`, and `AgentLife` is implemented (`LifeSpec`). |
| `sup_serial` | `Supervisor`, `SupervisorSerial.cfg` | pass | 215,904 | One command at a time and no restart by policy, but a store that may fail: `NoOrphan`, and the liveness `StopStops`, `ExitIsFinalised`. |
| `sup_two_processes` | `Supervisor`, `SupervisorTwoProcesses.cfg` | violation | | `OneProcess` (section 7). |
| `boot_all` | `MCBoot`, `BootAll.cfg` | pass | 325,858 | Screens, silences, changes of rules, a boot text, exits: `DetectorIsExact`, `AgentSettles`. In other behaviours of the same run, named commands: `TwiceOnlyWhenLoose`, `RunsEnd`. |
| `push_all` | `Push`, `PushAll.cfg` | pass | 488,305 | Two messages and a reader, with every fault or none: `DeliveryIsTrue`, and, without faults, `PushReaches`. |
| `ask_all` | `Ask`, `AskAll.cfg` | pass | 164,632 | Two crossed questions, an answer, a wait and a channel of one: `TypeOK`, `NoDeadlock`, `EdgesAreWaits`, `CallsAreAnswered`. |
| `bus_all` | `MCBus`, `BusAll.cfg` | pass | 1,431,763 | Sends at their limits, blocks and resumes, threads of replies, edits of a channel: `GuardsHold`, `MessagesReach`. |
| `board_all` | `MCBoard`, `BoardAll.cfg` | pass | 250,689 | Two calls at once with a gate and automations: `EditsAreWhole`, `MovesFit`, `AutomationsEnd`. |
| `store_both` | `MCStore`, `StoreBoth.cfg` | pass | 108,384 | Every call of the ports to both stores, in any order: `StoresAreOne`. |
| `term_all` | `MCTerminal`, `TerminalAll.cfg` | pass | 455,361 | Output, a panel that hides, shows and clears, an end at any moment: `OutputIsExact`, `ExitIsTold`. |
| `desk_all` | `MCDesk`, `DeskAll.cfg` | pass | 1,878,132 | Thirteen components that share nothing, with two to five overlapping calls each: fourteen properties, listed below. |
| `upgrade_backup_lost` | `MCDesk`, `UpgradeBackupLost.cfg` | violation | | `DataIsSomewhere` (section 7). |

Each behaviour of `desk_all` chooses one component and the others stay as they begin, so that
their state spaces add and do not multiply; `boot_all` is made the same way. Several properties
are conjunctions of two statements about one matter, which are named and commented one by one in the
module. `upgrade_backup_lost` takes the behaviours of the upgrade alone (`UpgradeAlone`).

The properties in words.

*Agent supervisor*

- **NoGhost.** An agent shown as running has a session whose end was not decided yet. A stale exit
  or detection, or a stop that settles late, could break it, and nobody would take the agent down.
- **OneRestartScheduled.** At most the current session has a restart that nobody cancelled, and
  none once a stop was asked for.
- **TokenMeansOpenSession.** A token is only valid while its session's row is open, except in the
  one step between closing the row and revoking. It needs `recorded`: without the wait in
  `on_exit()`, a process that dies at once leaves its token behind.
- **LifeSpec.** The refinement: the agent comes up only as a session never current before.
- **NoOrphan.** A process the program holds can be stopped: it is in the manager's map, or about to
  be, or it was sent the signal. The code does make orphans, of spawns that fail with the child up:
  of those the property says what is kept, namely nothing. `start()` answers that it failed, and there
  is no row and no token for them. No shutdown reaches them: `ShutdownEndsAll` (section 8).
- **StopStops, ExitIsFinalised.** A stop ends in `stopped` with no process the program holds; every
  exit is handled.
- **DetectorIsExact.** The task never sleeps through something its clock would make it say, also when
  the rules change in a silence; the boot text of a session is typed once or its time ran out,
  never both.
- **AgentSettles.** "Waiting for the first prompt" does not last, and an agent does not stay
  "starting": silence decides something.
- **TwiceOnlyWhenLoose, RunsEnd.** A named command runs twice at once only if its lock grew old under
  a run or could not be made. Every run comes to its end, or is held by a process that keeps its
  output open and that nobody will end: one left by a command that ended by itself, one in a session
  of its own, which the kill of the group does not reach, or any if that kill could not be sent. A run
  whose group was killed at the limit is never held by its group, and none waits for a lock.
  That the limit ends every run is `LimitEndsTheRun`, which TLC refutes (section 8).

*Push and the bus*

- **DeliveryIsTrue.** What was typed is a subsequence of what was broadcast (FIFO, nothing twice), and
  `delivered` in the store means the text reached the terminal.
- **PushReaches.** Without faults, a stored message is typed or read. The interleavings that
  threaten it are the queue, the throttle, the stale view of the agent and `forget`.
- **NoDeadlock.** No set of agents is blocked on questions to itself.
- **EdgesAreWaits.** The graph counts exactly the questions under way, on every way out of `ask`.
- **CallsAreAnswered.** A lost broadcast does not make a call sleep through what it waits for.
- **GuardsHold.** In no window more passes than the limits say, with resumes in between; and a team
  that is blocked is told, except when a resume came between the block and its notice.
- **MessagesReach.** Who joined a channel before a message was sent, and stayed, gets it, whatever is
  created, deleted or left meanwhile: only edits of the members at the same time can lose somebody.
  The reply that makes a thread as long as its limit warns its sender, and no other does.

*Board*

- **EditsAreWhole.** Whatever was read, the row written is the edit applied to the row as it is now;
  of two claims, or two starts of work, one wins, and only an explicit assign replaces an owner.
- **MovesFit.** A move, claim or assignment leaves the column within its limits, or finds them
  exceeded no more than they were.
- **AutomationsEnd.** Every call ends, with circles of automations and with competing writers.
- **CardCallsHold.** The automation of a finished checklist runs once per write that finished it;
  only two calls that look for a cycle at the same time can close one; a comment reaches everybody
  who had commented when the call began.
- **RulesAreSound.** The automations name columns that are there, unless two saves overlapped or the
  program ended between their two writes; a card that stands still fires a rule once per passage.

*The rest of `desk_all`, the stores and the terminal*

- **StoresAreOne.** Both stores answer alike and hold the same rows, so that what the domain's tests
  show on the store in memory holds for SQLite.
- **OutputIsExact.** History and transcript end with the last piece read, without a hole, within
  their limits; the panel shows no gap; when the exit is announced nothing more is to come.
- **ExitIsTold.** Whatever happens, the end of the process is announced.
- **TeamCallsHold.** When a start or a restart of a team is done each agent it was for has a process,
  is reported, or had one that ended of something else than this very call's stop. What is up when its
  row is gone was told to stop, unless a start of that agent was under way when it was retired, began
  after that, or overlapped another start (`loose`). Those are real:
  TLC refutes `DeletionLeavesNobody` (section 8).
- **DecisionsCount.** What is recorded as accepted was executed; of two decisions one counts.
- **NotesKeepTexts.** A text leaves a note only by the hand of somebody who had read it, or who deletes
  it; a stale writer is shown both texts whole.
- **SkillFoldersStay.** A skill an agent wants stays in its project through failed starts and other
  agents; a folder of the user is never touched.
- **LibraryIsSeen.** Once still, catalog and database show what the folders hold; half a file is
  only ever shown of an import, of two saves at once, or of a folder that was moved with half a file in
  it. Both parts say what they except.
- **BenchesAreSafe.** What an agent wrote is in its bench or its branch; a start that says nothing
  gives a bench that was copied to and set up, or warned of.
- **SocketCallsHold.** No call of a session that has ended; a call is done once at most, and what was
  answered as done was; a program that serves is the one its clients reach.
- **DataIsKept, RollbackRestores.** What the user did is in the database or a backup, unless a copy
  back was cut short; a start that says it rolled back left what it found.
- **TextIsItsOwn.** The transcript of a session is what that session wrote, if it was not rotated
  away, whoever writes meanwhile.
- **PreferencesHold.** A restart finds the settings last answered; a secret the user was told is kept
  is given to the agents, and a forgotten one is not.
- **RuntimesAreCurrent.** Once still, the catalog is what the folder holds, unless an older read was put
  over a newer one (`overtakenReads`); every live session reads its screen by the catalog, unless an
  older catalog was sent to the sessions after it (`overtakenSends`) or the session's start overlapped
  the change (`late`); an overview shows what the present command answered, unless a change overtook
  it. That the sessions' rules follow at all is what the docs
  deny: `KeepsItsAdapter`, which TLC refutes (section 8).

Each property of a passing run has a mutant: an operator beside the definition it replaces
(`IsCurrent` beside `IsCurrentAndRunning`, `OldBackupServes` beside `RemovesBackup`, ...), a slip a
programmer could make there, under which TLC finds the property violated.

---------------------------------------------------------------------------------------------

## 4. Bounds

- *Supervisor.* Two sessions: one to be replaced and one that replaces it, which is what stale
  exits, late detections and overtaking starts need; three for `sup_two_processes`, whose shortest
  story has a first life, a policy restart and a start by the user. One thread in `stop()`; the
  proofs cover any number. `MaxFailures = 1` reaches the saturation of the counter at once. A
  detection is always "idle": the supervisor treats every detected state alike.
- *Boot.* Two sessions, so that a late decision may meet the next one. The clock counts
  `Quiet = 1 < BootTimeout = 2 < LongSilence = 3`, the order they have in the code; screens of up to
  two lines, one for each rule and one for none; a budget of screens and changes of rules per scene.
- *Runs.* Two slots and one crash of the program: one run, and one that finds its lock. Each command
  leaves any part of its group or of a session of its own in the background.
- *Push.* Two messages, so that order and a batch of two happen, one reader, a channel of one so that
  the hub task may lag. The queues of different agents share nothing but the lock.
- *Ask.* Two agents that may ask each other or themselves, two calls, one reply, one wait, a channel
  of one. Rings of more than two agents are covered by the proof of `NoDeadlock`.
- *Bus.* Four parts, each with the calls it is about: *limits* (one call at a time, four calls, three
  instants, limits of one and two), *blocks* (two at a time), *threads* (two at a time, a depth of
  two), *channels* (two at a time, three calls). `Minute = 1 < RepeatWindow = 2 < Hour = 3`: their
  order is what matters, and every window can pass within `MaxNow`.
- *Board.* Two agents, two cards, four columns, two calls, `WriteAttempts = 2` and `MaxDepth = 2`
  where the code has larger values: two writers exhaust two attempts, and a circle of two automations
  reaches the cut. The first state is a fresh card, or a card blocked by one somebody works on. The
  automations are the ones every team is born with, or a set that runs in circles and also assigns,
  moves on blocking and asks for a move into the approval column.
- *Terminal.* A few pieces per scene; limits of ring, log, batch and channel of one to three, so that
  each of them is passed.
- *Stores.* Nine groups of calls, each with the two or three rows of each kind that it is about, so that
  every foreign key can be missing and every unique key taken; the calls come in any order and number.
  `SessionsKept = 1`, versions up to two.
- *Team.* Two agents, one of which restarts by policy, two calls, any of the agents up at first. One
  restart by policy per agent is on its way at a time (`restarts`): a second one needs another session
  that fails within the delay and the start of the first.
- *Desk.* A scene is a sequence of two to five calls that may all overlap (`MC...Scenes`, `...Tales`);
  the scenes are the meetings that section 1 calls hard. One failing write (`MaxFailures`), one broken
  bench (`MaxBroken`), one crash (`MaxCrashes`, `MaxAppCrashes`), one overlapping reload
  (`MaxSyncs`). Five programs and three versions for `Upgrade`: the loss of
  `upgrade_backup_lost` takes one good start and three that fail. `SessionsKept = 2` where the code
  keeps 200.

`CHECK_DEADLOCK FALSE` everywhere: a run ends when its sessions, messages or calls are used up, and
nobody has to command, ask, answer or call.

---------------------------------------------------------------------------------------------

## 5. Fairness

Every task of the tokio runtime, and every thread, is scheduled again: weak fairness of each task's
own steps. Nothing is assumed of the human, of a client, or of a timer that the code does not rely
on; of the agent itself, only what is said below for `StopStops` and for push.

- *Supervisor* (`FairSpec`): the steps of start, stop and exit. `ObedientSpec` adds that a process
  that was signalled ends. The code sends one SIGHUP and has no second, stronger signal, so
  `StopStops` is stated under that assumption and is false without it.
- *Boot* (`BootFairness`): the clock goes on, a session that was asked for is spawned, and the task,
  the timer and the exit of each session run. Nothing of what the agent writes.
- *Runs* (`RunFairness`): the task of each run. A command may never end; the limit is the code's.
- *Push*: publish, the hub task, the tick, the throttle, the notifications, the injector, and a
  reader that fetched. Of the agent: it is started, works on what is typed, and strongly fair
  `Detect("idle")`, its prompt is recognised again and again. That is an assumption on the agent: push
  waits for an idle agent by design, so an agent left at a question for ever gets nothing.
- *Ask*: the calls' own steps. No timeout is relied upon: `CallsAreAnswered` holds although
  `AskTimesOut` and `WaitTimesOut` may never happen.
- *Board*: the steps of each caller. A gate is a step too, because `project/run.rs` kills a command
  at its timeout.
- *Terminal*: the reader, the waiter and the pump. That the pseudo-terminal gives an end of file when
  the process has ended is assumed of the operating system.

`desk_all`, `bus_all` and `store_both` state no liveness and assume no fairness.

---------------------------------------------------------------------------------------------

## 6. What is proved, and how

For every number of sessions, threads, agents, teams, calls, messages, versions and programs, from
the assumptions named in the modules, which give the constants their shape: `SupervisorAssumption`,
`BackoffAssumption`, `AskAssumption`, `PushAssumption`, `UpgradeAssumption`, `BootAssumption`;
`GuardsAssumption` and `BusAssumption` (an agent's name is no team's and no channel's, a call names
the team of who makes it, an edit of a channel its slug); `BoardShape`, `Bounds`, `Names` and `RowsAndRules` (a board has a column to pick from and one
that ends, as `save_columns` sees to); `OrderAssumption` and `TeamScenesAssumption`,
`BenchScenesAssumption`, `IpcScenesAssumption`, `RunScenesAssumption` (what a scene is);
`SetupAssumption` (the same, and that the automations there are at first were valid, as
`set_automations` sees to); `LibraryAssumption` (what a request to the library is, and that no file is
half written at first); `NativeAssumption` (what a start asks for, and that there are finitely many
skills); `RuntimesAssumption` (what an adapter and a request about one is); `NoteAssumption` (a text is a
list, a request about a note the team may have); `CardsAssumption` (what a request about a card is, and
that the rows there are at first have been written);
`LimitsAssumption` (the limits of the output are positive, and what a scene bounds);
`AppsAssumption`, `SecretValuesAssumption`. TLC evaluates each of them in the runs.

| Theorem | States |
| --- | --- |
| `SupervisorProofs!TypeCorrect` | `Spec => []TypeOK`; the counter of falls saturates within its type |
| `SupervisorProofs!NoGhostHolds` | `Spec => []NoGhost` |
| `SupervisorProofs!OneRestartScheduledHolds` | `Spec => []OneRestartScheduled` |
| `SupervisorProofs!ImplementsLife` | `Spec => LifeSpec`, the refinement of `AgentLife` |
| `SupervisorProofs!TokenMeansOpenSessionHolds` | `[]TokenMeansOpenSession`, if the record meets its deadline and the store takes `on_exit()`'s writes |
| `SupervisorProofs!NoOrphanHolds` | `[]NoOrphan`, with one command at a time and no restart by policy |
| `SupervisorProofs!OutputIsExactHolds` | `OutputSpec => []OutputIsExact`, for any limits of ring, log, channel and read |
| `AskProofs!TypeCorrect` | `Spec => []TypeOK`; no count of the graph is negative |
| `AskProofs!EdgesAreWaitsHolds` | `Spec => []EdgesAreWaits` |
| `AskProofs!NoDeadlockHolds` | `Spec => []NoDeadlock`, for rings of any length |
| `PushProofs!DeliveryIsTrueHolds` | `Spec => []DeliveryIsTrue` |
| `PushProofs!TypedOnceHolds` | `Spec => []TypedOnce`: no message is typed twice |
| `BusProofs!JoinsReachHolds` | `Spec => []JoinsReach`, the half of `MessagesReach` about channels |
| `BusProofs!GuardsHoldAlways` | `Spec => []GuardsHold`: the limits in every window, and that blocks are told |
| `BoardProofs!BoardTypes` | `Spec => []TypeOK`; no automation runs deeper than `MaxDepth` |
| `BoardProofs!EditsAreWholeHolds` | `Spec => EditsAreWhole`, an action property |
| `BoardProofs!MovesFitHolds` | `Spec => MovesFit`, an action property |
| `BoardProofs!CardCallsHoldAlways` | `CardSpec => []CardCallsHold` |
| `DeskProofs!DecisionsCountHolds` | `ProposalSpec => []DecisionsCount` |
| `DeskProofs!BenchesAreSafeHolds` | `BenchSpec => []BenchesAreSafe` |
| `DeskProofs!PreferencesHoldAlways` | `SettingsSpec => []PreferencesHold` |
| `DeskProofs!TeamCallsHoldAlways` | `TeamSpec => []TeamCallsHold` |
| `DeskProofs!RulesAreSoundHolds` | `SetupSpec => []RulesAreSound`, for automations that differ from each other |
| `DeskProofs!LibraryIsSeenHolds` | `LibrarySpec => []LibraryIsSeen` |
| `DeskProofs!RuntimesAreCurrentHolds` | `RuntimesSpec => []RuntimesAreCurrent` |
| `HostProofs!SocketCallsHoldAlways` | `IpcSpec => []SocketCallsHold` |
| `HostProofs!TwiceOnlyWhenLooseHolds` | `RunSpec => []TwiceOnlyWhenLoose` |
| `HostProofs!DetectorIsExactHolds` | `Spec => []DetectorIsExact` |
| `HostProofs!SkillFoldersStayHolds` | `NativeSpec => []SkillFoldersStay` |
| `HostProofs!NotesKeepTextsHolds` | `NoteSpec => NotesKeepTexts`, an action property |
| `HostProofs!DataIsKeptHolds` | `UpgradeSpec => []DataIsKept`, for any programs and versions |
| `HostProofs!RollbackRestoresHolds` | `UpgradeSpec => RollbackRestores`, an action property |
| `SiftProofs!SiftedIsThinned` | what `Sifted` computes of a list of any length |

*The life of an agent.* `NoGhost` is not inductive: `Register(a)` makes a session current that must
not be over, and `Decide(s)` takes the agent down only if its session is the current one. `LifeInv`
adds `FreshUntilRegistered` (a session that was not registered left no trace), `CancelMeansStop`
(the current session's token fired exactly when a stop was requested) and `ReplacedIsCancelled` (a
replaced session is not asleep uncancelled). `OneRestartScheduled` follows from the last two, and
the refinement from the first: the used sessions of `AgentLife` are `cancelled` and the current
one, because `Register` cancels what it replaces.

*Tokens.* `RecordInv` follows one session through two tasks: until `recorded` is set there is no
token, and `on_exit()` stays before its first write; from then on `start()` writes nothing. The
hypotheses are real: with `RecordTimeout`, the token comes after the revocation (section 8).

*Orphans.* Between the check of `PtyManager::start` and its insertion no lock is held. `SerialInv`
says what keeps a live process from being replaced there: one `start()` runs at a time
(`OneStart`), and what was in the map when it looked is still not alive when it inserts
(`CheckStillTrue`). Without the hypotheses the property is false: `sup_two_processes`. An orphan of a
failed spawn stays that of a start on its way to its refusal, or over, so nobody writes a row for it.

*The graph of waits.* `NoDeadlock` is about tasks and `Register` looks at a graph, so the
invariant needs `EdgesAreWaits`, and this needs `BlockedKnown` (the ends of a blocked call's edge
are agents). The edges are counted: `LeaveKeeps` shows that a call that leaves takes one of several
equal edges and no other's. In `NoDeadlock`, a new edge from `a` to `b` could only complete a
ring if a set closed under the old edges, holding `b`, held `a`: `Reaches` says that there is a
closed set without it.

*Push.* The terminal alone does not say why the next text is not out of order. `PathInv` follows all of
the way: what was typed, what the injector holds, what is in its channel and what is queued are each
in the order of the broadcast, each was broadcast before all of the next, and all of it is among what
the hub task has handed over. The lemmas `PathHandOver`, `PathTake`, `PathType`, `PathThin`,
`PathHear` and `PathEnqueue` are the moves of a message along it. `SavingInv` adds what the injector
remembers while it saves row after row, with the inbox writing the same rows.

*The guards.* The code forgets the old entries of its logs and clears them on a resume, so "never more
than the limit in a window" is a statement about a history that the state no longer has.
`LogsFollow` bridges the two: each message that a window still counts has a place of its own in the
log (an injection, `Follows`), which adding, sifting out what is old and the passing of time keep; a
log that is not full then bounds the window (`LogsBound`). `RepeatsAreCounted` says that the counter of
an agent is at least the length of the run that ends with its last message. `ToldInv` follows a block
to its notice: it is on its way to one (`blocked`, `notice`), or there is one outside all channels,
which no deletion of a channel takes with it. The calls of the bus that are not about guards still
have to be shown to leave all this alone, which is what `GuardsStay`, `ToldStays` and `JobsGo` are for.

*Channels.* A message has no list of who joined before it, and an edit of a channel reads its members
and writes them back later. `JoinInv` says who has joined: a member of the one channel of that slug
(`JoinedAreMembers`), as long as no two edits of it overlapped; then they are `mixed`, and that is
for good (`EditsApart`). Calls are numbered, so a message waits for no join later than itself
(`NumbersApart`). From the routing of a message to its end, every step that a call has still to take
names who joined before it (`CallsHeed`): that is the contract from which `JoinsReach` follows when
the message is stored.

*The board.* `StepsSound` is a contract for the steps a call has still to take: a card that a step is
about is on the board, unless this very step puts it there, and the row a `write` was read from is
older than the row there is, or is that row (`ReadFrom`). Rows only grow in version (`RowsGrow`), so
another caller's write turns the second case into the first and never back, and `WriteLands`
compares versions: it lands only on the row it read. That is `EditsAreWhole`. `Shaped` keeps a call's
additions first. `MovesFit` then needs no more than that the count is taken in the writing step
(`OneMore`).

*Edits of a card.* The three parts of `CardCallsHold` speak of calls that are over, and `CardInv` of those
under way. `CardRowsHold` counts: a write that finished a checklist is
counted in `completed` and owed by its call (`OwedOn`) until `FireComplete` pays; the row that a call
remembers from before its write is by its version the row it wrote over, so it knows what the write
changed (`WrittenFrom`). `EdgesHold`: until two calls look for a cycle at once, one call at a time is
between its look and its last edge, and from nothing it still has to add can its own card be reached
(`Clear`). Its next edge then closes no cycle (`EdgeClosesNone`), and makes no more cards reachable from
the rest of them (`ReachesSame`); that `Reaches` finds all there is to reach takes as many rounds as there are cards
(`ReachesCloses`). `CommentsHold`: whoever had commented when a call began is among those it read before
it inserted (`Told`), and is told unless it is its own author.

*The desk.* `ProposalInv`: of the decisions of one proposal one comes to tell its author (`OneTells`),
and what is recorded as accepted was executed (`DecisionsAreSound`). `BenchInv`: of two requests of one
bench the later waits for the earlier (`TurnsHold`), and a registered tree was prepared, warned of, is
being prepared or was cut short (`TreeIsPrepared`). `SettingsInv`: what the file says at every point of
a save (`FileFollows`), and that a secret in the keychain is named by all the settings there are, in
the file, in memory and on their way (`SecretsFollow`).

`TeamInv` follows two things. Of each call that starts: whoever it was for is in what it has still to
do, is reported, or is `Answered` (`StartsSoFar`), and what answers for it - a process this call did
not kill, or one that ended of something else - stays through every step of the others. Of each agent
that is not `loose`: one start is in flight at a time, who has registered is in charge until its spawn,
and a process that is up is of the session in charge, with no start beside it and no restart
scheduled (`Tidy`). It is what makes the retirement of an agent final: who is `Away`, its row gone or
about to go, was put down, asked to stop and with its process told (`PutDown`), and nothing that is
in flight could bring it back. Where a start does overlap, `Loosens` says so in the step in which it
begins, and `RetireStop` in the step that finds one in flight.

`SetupInv`, of the columns with their automations: unless saves overlapped or the process ended
between two writes, one call rewrites at a time (`OneRewrites`), what it is about to write suits the
columns there are by then (`Suits`), and the rules suit them or the other half is on its way
(`RulesSuit`). While nobody rewrote the rules, all ticks read the first ones, and the keys that have
fired are in step with what ran (`RanOnce`). Two equal automations would each fire, which is right,
but the history does not tell them apart: hence the hypothesis.

`LibraryInv`: who has read the folders and not yet put what they read is queued in the order of the
reads, as long as no older read was put over a newer one. `CatalogFollows` says that what the last of
that queue read is what the folders hold, or the catalog is if nobody is queued; or else the watcher
has been told, by an event it has not taken, in a burst that is not over, or by being about to read
(`Told`). `MirrorFollows` says the same of the catalog and its readers for the database, where a
command that is about to read stands for the watcher. `HalvesKnown` follows half a file from the save
or the import that writes it to the folder, to what was read and to the catalog; a save alone in its
folder never renames one, since `halves` was told when a second one opened the same temporary file.

`RuntimesInv` has the same queue of readers for the folder of the adapters (`ReadsFollow`). The sessions
may only be behind the catalog while somebody is still to clone it, or holds the catalog as it is and
is still to send it (`SessionsFollow`, `TellsSoon`); an older one that is sent when nobody is about to
send the newest is what `overtakenSends` remembers, in the step in which it is sent. An overview that no
change overtook has seen the catalog as it is, and for each runtime in it either has still to ask, has
asked, or finds in the cache an answer of that very command (`Overlooks`), which stays so whatever other
overviews end meanwhile: those overtaken would have disturbed it. An adapter that was removed is in no
overview, although an overtaken one may leave an answer for it in the cache.

*The host.* `IpcInv` puts every call in one place (`Fits`): with its client, on its way, carried out, or
answered; a connection that was given up brings none any more (`GivenUp`), so a client that connects
again does not have its call done twice. `OneListens` says that one program at a time is between
probing and its end, unless two crossed. `RunInv`: a lock names who holds it, unless it grew old or
could not be made (`RunnersHold`, `OldLocksAreLoose`). `BootInv`: the text of a session is held by the
agent, being typed, typed, or given up, and in one of them only (`TextIsInOnePlace`);
`DetectorIsExact` follows with `DeadlineIsDue`, which compares `NextDeadline` with `Judge` case by
case. These components have nothing in common; they are in one module as the theorems of the desk are.

*The upgrade.* `DataIsKept` says that what the user was told of is in the file or in some backup; it
is not inductive, because a copy back empties the file and then trusts one particular backup.
`UpgradeInv` says which: the programs come in turn (`InTurn`); what a program found is in the file
while it looks and in the backup it made once it migrates, and the user's rows are in that
(`FoundIsKept`); nothing is missing from the file but during a copy (`FileIsWhole`). A step moves one
program, so `OneKeeps` and `GoesKeeps` leave only that program to look at, and `NobodyCopies` gives
the whole file to every other step.

*Skills beside a project.* `SkillFoldersStay` speaks of the shared folder, and nothing in a start looks
at it before it deletes: the manifest decides. `NativeInv` ties the two. What an agent holds is listed
under the handle of its home, in the manifest and in what the start under way has in memory, and that
handle is neither the one that starts nor among those it lets go of (`Keeps`); so no list of orphans
has it. A folder the user made is in no manifest, and of what a start owns in memory each is listed or
was placed by it (`OwnersKnown`), so it counts as foreign (`BareUnlisted`).

*Notes.* `NoteInv` says who may rename: the call that holds the lock, and it has read what is there
(`RenameKnows`), so what `NotesKeepTexts` asks of a step follows from the lock; a call in the way of
somebody's text has the difference of what is there and what it wanted (`StaleKnows`). That this
difference, read without its added lines, is the one text and, without the removed ones, the other, is
`DiffShows`, for lists of any length: the common beginning and end are those of both (`CommonSuffixIs`)
and do not overlap, and filtering goes piece by piece (`SiftedBut`).

*The output.* `OutputInv` has three parts, one for each stretch of the way. `HistoryInv`: ring and
log are lists of consecutive pieces that end with the last one read (`EndsAt`), which `Push` keeps
because what it leaves is an end of what was there with what came (`PushIs`), and the ring holds no
less than its limits ask for. `PumpInv`: every piece read was seen by the detector, was lost, or is in
the channel or in hand; the last stages of the pump come only after the reader is done. `PanelInv`: what is on
the screen, what waits there for the history, and what is on its way (`Way`: events, batch, batcher,
channel, hand, in that order) are together a `Trail`, in which every piece from `base` on that was not lost comes after
all those before it. No order is asked of a piece that comes twice, so a history that overlaps with
the batches is one. The panel is on such a trail from the moment its own `show` is served, and not
before: until then the batcher may be hidden and drop what passes. `PanelCalls` is what makes it
so, since the calls are served in order: after its own `show` only wipes are left, so the batcher
stays visible, and a reply of its generation came from that call. The notice of the end is no piece,
and may overtake what waits (`TrailToEnd`), which is why `EndIsLast` fails and this does not.

*Lists.* `retain` and `filter` of the source are `Sifted`, a recursive function. TLAPS cannot use an
induction theorem that takes an operator, but it can use that the naturals are well-founded: a list
for which the function did not exist, or kept a wrong element, would have a shortest one
(`LeastOne`). `SiftedIsThinned` and `SiftedHasPlaces` are proved that way, and likewise
`VersionsHaveEnds` in the upgrade, and what `FlattenSeq` and the folds of the ring are, step by step
(`FlatIsLast`, `FoldIsSteps`).

*Only model-checked.* Liveness under fairness (`StopStops`, `ExitIsFinalised`, `AgentSettles`,
`RunsEnd`, `PushReaches`, `CallsAreAnswered`, `AutomationsEnd`, `ExitIsTold`), which is out of the
prover's reach. Of the safety properties: `LongThreadsWarn`, the other half of `MessagesReach`,
and `StoresAreOne`, for which section 9 has a plan; and `TextIsItsOwn`, which compares what folds over
a file's bytes compute, and would take an induction over data. It is also a property of the outputs
the run writes rather than of every output: a long log is cut at a line end, and where a program puts
a line end inside an escape sequence, the cut view shows as text the rest of a sequence that the
whole log swallows.

---------------------------------------------------------------------------------------------

## 7. What the runs refute in the docs

| Run | The text | The code |
| --- | --- | --- |
| `sup_two_processes` | `manager.rs:58`: fails if a live one exists, since two would leave an orphan | check, fork and insert are three steps; two starts past the check fork twice, and the first process leaves the map |
| `upgrade_backup_lost` | `db.rs:200`: the backup stays for a second attempt | the copy empties the database first; a program that dies there leaves an empty file, which the next start takes for a new database, and the start after that replaces the backup by one of it |

## 8. Divergences seen, without a run

**Statements of the docs that TLC refutes.** Each is a definition of its module, with the text it
quotes. They hold in no run, so they are no property of one; `tlc` shows the counterexample when the
definition is added to the configuration of that component.

| Module | Definition | The text | Why it does not hold |
| --- | --- | --- | --- |
| `Supervisor` | `StopCancelsRestart` | `supervisor/mod.rs:794`, a stop cancels a scheduled restart | once the sleep's branch was taken (`:888`) nobody looks at the token again, and the new `start()` clears `stop_requested` |
| `Supervisor` | `ShutdownEndsAll` | `manager.rs:229`, ends everything when the application closes, so as to leave no orphan | a spawn that answers an error with its child up (`session.rs:175-182`, `231-235`) leaves a process in no map |
| `Team` | `DeletionLeavesNobody` | `commands/teams.rs:39-40`, the agents are stopped first, since a live process of a team that is gone would be an orphan | a start reads the row, and registers and spawns seconds later without looking again (`supervisor/mod.rs:397-531`) |
| `Runtimes` | `KeepsItsAdapter` | `docs/05:14-15`, `adapter/watch.rs:3-4`, `docs/guia/adaptadores.md:19-20`, a running agent keeps its adapter until it is restarted | `refresh_state_rules` sends the new rules to the sessions that run (`supervisor/mod.rs:979-991`), as its own comment says |
| `Runs` | `LimitEndsTheRun` | `run.rs:160`, kills the command and all that it opened | only the process group is signalled (`run.rs:171-176`); what has a session of its own keeps the output open, and `pump.join()` (`:249`) has no limit |
| `Push` | `NeverTypesAtAQuestion` | `docs/07:140`, never while `awaiting_input` | decided under the lock, typed later by a task that does not look again (`commands/push.rs:121`) |
| `Push` | `ReadStaysRead` | `bus/service.rs:404`, drain marks all as read | the injector reads a delivery and writes back every column (`commands/push.rs:242`) |
| `Ask` | `ReadIsDelivered` | `bus/service.rs:985`, delivered in the call itself | the server does not look at the connection while the call blocks (`transport.rs:86`) |
| `Board` | `EntersByApproval` | `board/service.rs:1198`, only `approve` passes the gate | `reject()` goes back to where the card came from, also when that is the approval column (`:1803`) |
| `Board` | `WipHolds` | `docs/13:51`, counted in the statement that writes | `add()` counts first and inserts later (`:1081`) |
| `Cards` | `NoDependencyCycle` | `docs/13:141`, cycles are refused | two calls look at the same time, and add their edges later |
| `Bus` | `PauseIsTold` | `docs/07:201`, never silent | `block()` reads the handle of the sender between `admit()` and `first_block()`: a resume in between makes the next pause silent (`service.rs:347`) |
| `Boot` | `SilenceIsIdle` | `detector.rs:8`, a long silence is idle | the low-confidence idle comes once in a silence: calibrated to "busy" after it, and then to rules that match nothing, the agent stays busy (`detector.rs:168`) |
| `Boot` | `PendingIsWaiting` | what `BootDelivery` is said to be | the text of a replaced session, typed late, marks the delivery of the current one, whose text still waits (`supervisor/mod.rs:910`) |
| `Terminal` | `EndIsLast` | `hydration.ts:3`, `session.rs:116` | the notice of the end is written by the panel when the event comes, also while the history is still on its way (`Terminal.tsx:132`) |
| `StoreContract` | the constant `MoveToNew` | `tests/repositories.rs:3`, one behaviour | with it, a column may be replaced while its cards move to a new one: SQLite moves them before it inserts (`board.rs:240`) |
| `Team` | `ArchivedIsQuiet` | `commands/teams.rs:39` | a restart by policy, or a start that was under way, comes up in the archived team later (`:130`) |
| `Proposals` | `RejectedIsNotApplied`, `OrderIsAllItWrites` | a rejected proposal is not executed; an order is all a reorder writes | executed before it is recorded; rows are read and written whole |
| `BoardSetup` | `EveryStaleRuleFires`, `RenamesKeepRules` | each rule fires for a card that stands still; rules follow a renamed column | what fired is keyed by the place of the rule in the list; a rule that creates cards in the renamed column is dropped (`service.rs:2242`) |
| `Native` | `NeverOverwritesAUsers` | `materialize.rs:18` | a folder of the user under a name the manifest lists is overwritten |
| `Library` | `FolderMovesAreSeen` | `watch.rs:41` | the rename of a folder is an event that the filter lets fall |
| `Bench` | `StartedBenchBuilds` | `docs/16:83` | setup cut short is neither noticed nor repeated |
| `Runs` | `NeverTwiceAtOnce` | `run.rs:98` | a lock grows old by the wall clock, and who takes it over removes that of the next |
| `Ipc` | `TokensLiveWithTheirSession` | `bus/service.rs:237` | a second program revokes all tokens before it finds the socket taken (`commands/bus.rs:74`) |
| `Settings` | `WarningIsGiven` | `settings.rs:462` | the load for the log's level (`main.rs:59`) has moved the broken file away before |
| `Transcript` | `OthersAreNotShown` | `transcript.rs:90` | the new file is told from the old by its length alone, and it grows |

**What else the models do as the code does.** Worth knowing when the properties are read:

- *Supervisor.* `SESSION_RECORD_WAIT` (5 s) may elapse while `start()` records: the token is inserted
  after it was revoked and stays (`mod.rs:847`; `RecordTimeout`, off in the runs).
- *Boot.* A spawn that fails leaves the boot "waiting"; the fallback of the long silence fires also
  when the rule for "busy" matches.
- *Push.* The hub task ends for good at the first `Lagged` (`commands/push.rs:86`), hence "without
  faults" in `PushReaches`; a message read before the hub task enqueues it is typed all the same.
- *Bus.* `admit()` counts a message that the route may refuse afterwards; `resume()` clears what was
  announced of all teams; two joins at once lose a member, and two first joins answer that the
  channel exists; a warning that cannot be stored fails a call whose message was stored.
- *Board.* `approve()` compares the approver with the assignee before a gate that may take minutes;
  `move()` skips the approval if its first read finds the card already there; `unblock_dependents()`
  moves a card out of whatever column it has got to; `reject()` puts a card into a blocked column
  without a reason.
- *Cards, BoardSetup.* Two comments at once do not tell each other's authors; a split that fails keeps
  its earlier parts; done and approve with a note are two calls; a crash between the columns and the
  automations leaves rules for columns that are gone.
- *Terminal.* The events of the window are taken to arrive in order. On Windows, output that nobody
  read when the console closes is lost. A history that meets the stream may show a piece twice
  where the gate allows it.
- *Stores.* The store in memory accepts a message to a channel that was deleted, a card without its
  column or assignee, automations of a board that is not there, comments and proposals of an agent
  that is gone; it counts revoked tokens, cuts the history of sessions and names errors in its own
  way. `StoreContract` keeps to calls the services can make.
- *Upgrade.* Two programs at once are left out, though nothing forbids them; a broken file is empty or
  torn, and a torn file is noticed.
- *Team, Proposals.* A stop is one step here, and an exit with its decision (their inside is
  Supervisor's); two writes of one agent's row lose one of them.
- *Notes.* `delete` takes no lock; two spellings of a folder, or two programs, do not share theirs.
- *Native, Library.* The manifest is written last, so a start that dies leaves folders nobody lists; the
  temporary file of a save has one name for all; an old read may be put over a newer catalog. The
  system would let a copy go on in a folder the user has just moved, or refuse the move; here the rest
  of the copy is lost, which leaves half a file for ever where the system leaves it for a moment.
- *Runs, Bench.* A process left behind by a command holds its run for as long as it lives, the limit
  notwithstanding; in a folder that cannot
  be written there is no lock; a reused bench is not set up again, and warns once; a bench is retired
  without waiting for its agent's end.
- *Ipc.* Two programs that bind at once remove each other's socket; an answer over `MAX_FRAME` is lost
  after the call was done; the version in the hello is not compared.
- *Transcript.* A session without a row shows in the text of the one before it.
- *Settings.* Two programs share the temporary file; the agents noted as running are stale after a
  crash; a form that was opened before a change writes the old fields back.
- *Runtimes.* An overview that a change overtakes shows the status of the old command; detection joins the
  readers of a child's output without a limit (`detect.rs:129`); a start that overlaps a refresh
  keeps the old rules; of two refreshes that overlap the older catalog may be sent last
  (`supervisor/mod.rs:982`), and its rules stay.

---------------------------------------------------------------------------------------------

## 9. What is not modelled, and the plan

*Components.* The CLI, the MCP server and the hooks turn arguments and lines of JSON into one call of
the local socket, and print its answer: sequential text processing. The desktop application's
commands are calls of the services modelled here, made one at a time by the window; the window
itself is React. Team templates, the layout of panels and the creation of a team are validation and a
sequence of inserts. The launch of a process composes a command line. Diagnostics, notifications and
updates read what others keep, or call the system. The pseudo-terminal library is third-party code,
of which the models take what the code relies on (marked external in the map).

*Within components.* The resize of a terminal; the composition and cleaning of texts; the parsing of
skills, adapters, settings and project files; names and colours; the words of notices; more than one
agent in `Supervisor`, `Boot` and `Push`, whose state is keyed by agent; in `Board` what `Cards` and
`BoardSetup` have, and the other way round; in `Ipc` the operations behind the calls.

*Proofs worth having next*, in this order:

1. `LongThreadsWarn` of `Bus`, in `BusProofs`. It holds for every value of the constants only if no
   call deletes a channel, which takes the notes in it along, and if one thread depth is in force; it
   needs that a note is stored, or about to be, for each reply at that depth, and that the replies
   above a message stay as they are (a least counterexample, as in `LeastOne`).
2. `StoresAreOne`: each call maps equal rows to equal rows. It is large rather than deep.
3. An abstract board in which an edit is one atomic step, which `Board` implements by its versions:
   `ReadFrom` is the refinement's invariant.

*Compositions worth having next*: `Ipc` with `Supervisor` (the life of a token seen from a
connection), and `Board` with `Push` (a notice of the board to an agent that works).
