-------------------------------- MODULE Boot --------------------------------
(***************************************************************************)
(* From the output of an agent to its state, and from its first prompt to  *)
(* the instructions typed there: the detector (aisense-core,               *)
(* state/detector.rs), the task that feeds it, its decisions applied by    *)
(* the supervisor, and the BOOT.md over the terminal (supervisor/mod.rs,   *)
(* supervisor/boot.rs).  One agent and its sessions; a start runs alone,   *)
(* as the races between commands are in Supervisor.  A screen is its       *)
(* lines, a line what it may match, and time is counted in steps.          *)
(***************************************************************************)
EXTENDS Integers, Sequences, FiniteSetsExt

CONSTANTS
    MaxSessions, Budgets,    \* bounds: the sessions; [starts, outputs, calibrations] of an instance
    Rules,                   \* of an adapter: what its expressions match on a line
    Screens,                 \* sequences of lines
    TailLines,               \* the lines that count
    Adapters, McpBoot,       \* [flag, mcp, config, inject, boot] of each adapter
    Quiet, BootTimeout, LongSilence    \* quiet_ms, STDIN_BOOT_TIMEOUT, LOW_CONFIDENCE_SILENCE

Nothing == "nothing"
Seen    == {"idle", "busy", "awaiting"}
Running == Seen \cup {"starting"}

ASSUME BootAssumption ==
    /\ MaxSessions \in Nat \ {0} /\ Budgets \subseteq [starts : 0 .. MaxSessions, outputs : Nat, calibrations : Nat]
    /\ TailLines \in Nat \ {0} /\ McpBoot \in BOOLEAN
    /\ Quiet \in Nat \ {0} /\ BootTimeout \in Nat \ {0} /\ LongSilence \in Nat
    /\ Quiet < LongSilence /\ BootTimeout <= LongSilence

VARIABLES
    agent,    \* the entry of the supervisor: [session, state, boot, pending, rules, listens]
    wire,     \* the session whose process the pseudo-terminal holds, or 0
    process,  \* per session: "none", "up", "gone", then "told" when on_exit has run
    queue,    \* per session: what its detector has not received
    detector, \* per session
    task,     \* per session: where the task of the detector is
    timer,    \* per session: the time since its start, or Off
    catalog,  \* the rules in force
    budget,   \* outputs and calibrations left
    typed, gaveUp   \* history: the texts typed for each session, the sessions that gave up

vars == <<agent, wire, process, queue, detector, task, timer, catalog, budget, typed, gaveUp>>
history == <<typed, gaveUp>>

Sessions == 1 .. MaxSessions
Off == -1
Never == LongSilence + 1
Statuses == {"delivered", "waiting", "skipped", "failed"}

-----------------------------------------------------------------------------
(* StateDetector                                                             *)

\* decide: the lowest line that matches; on one line the question comes first.
First(matches) ==
    IF "awaiting" \in matches THEN "awaiting" ELSE IF "busy" \in matches THEN "busy" ELSE "idle"
Decide(rules, screen) ==
    LET hits == {i \in 1 .. Len(screen) : i > Len(screen) - TailLines /\ rules[screen[i]] # {}}
    IN  IF hits = {} THEN Nothing ELSE First(rules[screen[Max(hits)]])

New(rules) == [state |-> "starting", sure |-> TRUE, silent |-> 0, evaluated |-> FALSE,
               guessed |-> FALSE, rules |-> rules, screen |-> <<>>]
Set(d, state, sure) == [d EXCEPT !.state = state, !.sure = sure]
\* A step of the detector tells of a change.
Tells(d, e) == d.state # e.state \/ d.sure # e.sure

\* feed: an agent that rests does not write by itself.
Feed(d, text) ==
    LET e == [d EXCEPT !.screen = text, !.silent = 0, !.evaluated = FALSE, !.guessed = FALSE]
    IN  IF d.state \in {"idle", "awaiting"} THEN Set(e, "busy", TRUE) ELSE e

SetRules(d, rules) == [d EXCEPT !.rules = rules, !.evaluated = FALSE]

Waits(d) == d.state \in {"starting", "busy"}
Evaluate(d) ==
    LET seen == Decide(d.rules, d.screen)
        e    == [d EXCEPT !.evaluated = TRUE]
    IN  IF seen = Nothing THEN e ELSE Set(e, seen, TRUE)
\* tick: the screen once after each output, and the long silence if that told nothing.
Judge(d) ==
    LET e == IF ~d.evaluated /\ d.silent >= Quiet THEN Evaluate(d) ELSE d
    IN  IF ~Tells(d, e) /\ ~d.guessed /\ d.silent >= LongSilence /\ Waits(d)
        THEN Set([e EXCEPT !.guessed = TRUE], "idle", FALSE)
        ELSE e

NextDeadline(d) ==
    IF ~d.evaluated THEN Quiet ELSE IF Waits(d) /\ ~d.guessed THEN LongSilence ELSE Never

-----------------------------------------------------------------------------
TypeOK ==
    /\ agent \in [session : 0 .. MaxSessions, state : Running \cup {"stopped", "failed"},
                  boot : Statuses \cup {Nothing}, pending : BOOLEAN, rules : Rules,
                  listens : BOOLEAN]
    /\ wire \in 0 .. agent.session
    /\ process \in [Sessions -> {"none", "up", "gone", "told"}]
    /\ \A s \in Sessions : process[s] = "none" => task[s] = "over" /\ timer[s] = Off
    /\ \A s \in Sessions : detector[s].state \in Running /\ detector[s].silent \in 0 .. LongSilence
    /\ task \in [Sessions -> {"loop", "apply", "type", "typed", "refused", "over"}]
    /\ timer \in [Sessions -> Off .. BootTimeout]
    /\ agent.pending => agent.boot \in {"waiting", "delivered", "failed"}
    /\ typed \in [Sessions -> 0 .. 1]

Init ==
    /\ catalog \in Rules
    /\ agent = [session |-> 0, state |-> "stopped", boot |-> Nothing, pending |-> FALSE,
                rules |-> catalog, listens |-> FALSE]
    /\ wire = 0 /\ process = [s \in Sessions |-> "none"] /\ queue = [s \in Sessions |-> <<>>]
    /\ detector = [s \in Sessions |-> New(catalog)] /\ task = [s \in Sessions |-> "over"]
    /\ timer = [s \in Sessions |-> Off]
    /\ budget \in Budgets
    /\ typed = [s \in Sessions |-> 0] /\ gaveUp = {}

\* choose_boot_channel
Channel(adapter) ==
    IF adapter.flag THEN "flag"
    ELSE IF adapter.mcp /\ adapter.config /\ McpBoot THEN "mcp"
    ELSE IF adapter.inject = "stdin" /\ adapter.boot THEN "stdin"
    ELSE "none"
\* prepare_boot: the status, and whether a text waits for the prompt.
BootOf(adapter, materialized) ==
    LET waits == materialized /\ Channel(adapter) = "stdin"
    IN  [pending |-> waits,
         status  |-> IF ~materialized THEN "failed"
                     ELSE IF waits THEN "waiting"
                     ELSE IF Channel(adapter) = "none" THEN "skipped"
                     ELSE "delivered"]

\* start(): the new session is registered before its process exists.
Start ==
    /\ agent.state \notin Running /\ budget.starts > 0
    /\ budget' = [budget EXCEPT !.starts = @ - 1]
    /\ \E adapter \in Adapters, materialized \in BOOLEAN :
        LET boot == BootOf(adapter, materialized)
        IN  agent' = [session |-> agent.session + 1, state |-> "starting", boot |-> boot.status,
                      pending |-> boot.pending, rules |-> catalog, listens |-> TRUE]
    /\ UNCHANGED <<wire, process, queue, detector, task, timer, catalog, history>>

\* The process is up, then the timer and the detector; or it does not start.
Spawn ==
    LET s == agent.session
    IN  /\ agent.state = "starting" /\ process[s] = "none"
        /\ \/ /\ wire' = s /\ process' = [process EXCEPT ![s] = "up"]
              /\ detector' = [detector EXCEPT ![s] = New(agent.rules)]
              /\ task' = [task EXCEPT ![s] = "loop"]
              /\ timer' = [timer EXCEPT ![s] = IF agent.boot = "waiting" THEN 0 ELSE Off]
              /\ UNCHANGED agent
           \/ /\ agent' = [agent EXCEPT !.state = "failed"]
              /\ UNCHANGED <<wire, process, detector, task, timer>>
        /\ UNCHANGED <<queue, catalog, budget, history>>

-----------------------------------------------------------------------------
(* run_detector: one task per session                                        *)

\* The next input, or the deadline, whichever the task picks when both are due.
Step(s, d) == /\ detector' = [detector EXCEPT ![s] = d]
              /\ task' = [task EXCEPT ![s] = IF Tells(detector[s], d) THEN "apply" ELSE "loop"]
Receive(s) ==
    /\ task[s] = "loop" /\ queue[s] # <<>> /\ queue' = [queue EXCEPT ![s] = Tail(@)]
    /\ LET input == Head(queue[s])
       IN  Step(s, IF input.kind = "output" THEN Feed(detector[s], input.of)
                   ELSE SetRules(detector[s], input.of))
    /\ UNCHANGED <<agent, wire, process, timer, catalog, budget, history>>
Wake(s) ==
    /\ task[s] = "loop" /\ detector[s].silent >= NextDeadline(detector[s])
    /\ Step(s, Judge(detector[s]))
    /\ UNCHANGED <<agent, wire, process, queue, timer, catalog, budget, history>>
\* The task returns, and drops the queue and its detector.
End(s) == /\ task' = [task EXCEPT ![s] = "over"] /\ queue' = [queue EXCEPT ![s] = <<>>]
          /\ detector' = [detector EXCEPT ![s] = New(@.rules)]
\* Nobody can send to it any more.
Close(s) ==
    /\ task[s] = "loop" /\ queue[s] = <<>> /\ process[s] = "told"
    /\ ~(agent.session = s /\ agent.listens)
    /\ agent' = agent /\ End(s)
    /\ UNCHANGED <<wire, process, timer, catalog, budget, history>>

Decided(s) ==
    LET prompt == detector[s].state = "idle" /\ detector[s].sure
    IN  /\ agent' = [agent EXCEPT !.state = detector[s].state, !.pending = @ /\ ~prompt]
        /\ task' = [task EXCEPT ![s] = IF agent.pending /\ prompt THEN "type" ELSE "loop"]
        /\ UNCHANGED <<queue, detector>>
\* apply_detection.  Only a prompt that a rule has seen takes the text.
Apply(s) ==
    /\ task[s] = "apply"
    /\ IF agent.session # s \/ agent.state \notin Running
       THEN agent' = agent /\ End(s)
       ELSE Decided(s)
    /\ UNCHANGED <<wire, process, timer, catalog, budget, history>>

\* deliver_stdin_boot: it writes to the process of the moment...
Type(s) ==
    /\ task[s] = "type" /\ typed' = [typed EXCEPT ![s] = @ + 1]
    /\ task' = [task EXCEPT ![s] = IF process[wire] = "up" THEN "typed" ELSE "refused"]
    /\ UNCHANGED <<agent, wire, process, queue, detector, timer, catalog, budget, gaveUp>>
\* ... and then records it on the session of the moment.
Record(s) ==
    /\ task[s] \in {"typed", "refused"} /\ task' = [task EXCEPT ![s] = "loop"]
    /\ agent' = [agent EXCEPT !.boot = IF task[s] = "typed" THEN "delivered" ELSE "failed"]
    /\ UNCHANGED <<wire, process, queue, detector, timer, catalog, budget, history>>

\* boot_timed_out.  TimeOutLeaves and TimeOutIfUp are its mutants.
TimeOutLeaves(s) ==
    /\ timer[s] = BootTimeout /\ timer' = [timer EXCEPT ![s] = Off]
    /\ IF agent.session = s /\ agent.pending
       THEN agent' = [agent EXCEPT !.boot = "failed"] /\ gaveUp' = gaveUp \cup {s}
       ELSE UNCHANGED <<agent, gaveUp>>
    /\ UNCHANGED <<wire, process, queue, detector, task, catalog, budget, typed>>
TimeOutIfUp(s) ==
    /\ timer[s] = BootTimeout /\ timer' = [timer EXCEPT ![s] = Off]
    /\ IF agent.session = s /\ agent.pending /\ agent.state \in Running
       THEN /\ agent' = [agent EXCEPT !.boot = "failed", !.pending = FALSE]
            /\ gaveUp' = gaveUp \cup {s}
       ELSE UNCHANGED <<agent, gaveUp>>
    /\ UNCHANGED <<wire, process, queue, detector, task, catalog, budget, typed>>
TimeOut(s) ==
    /\ timer[s] = BootTimeout /\ timer' = [timer EXCEPT ![s] = Off]
    /\ IF agent.session = s /\ agent.pending
       THEN /\ agent' = [agent EXCEPT !.boot = "failed", !.pending = FALSE]
            /\ gaveUp' = gaveUp \cup {s}
       ELSE UNCHANGED <<agent, gaveUp>>
    /\ UNCHANGED <<wire, process, queue, detector, task, catalog, budget, typed>>

-----------------------------------------------------------------------------
(* The process, the clock and the catalogue                                  *)

Send(s, kind, of) ==
    queue' = IF task[s] = "over" /\ process[s] # "none" THEN queue
             ELSE [queue EXCEPT ![s] = Append(@, [kind |-> kind, of |-> of])]

Output(s) ==
    /\ process[s] = "up" /\ budget.outputs > 0
    /\ budget' = [budget EXCEPT !.outputs = @ - 1]
    /\ \E text \in Screens : Send(s, "output", text)
    /\ UNCHANGED <<agent, wire, process, detector, task, timer, catalog, history>>

\* The process ends by itself or is killed.
Die(s) == /\ process[s] = "up" /\ process' = [process EXCEPT ![s] = "gone"]
          /\ UNCHANGED <<agent, wire, queue, detector, task, timer, catalog, budget, history>>

\* on_exit, as far as the state goes.
OnExit(s) ==
    /\ process[s] = "gone" /\ process' = [process EXCEPT ![s] = "told"]
    /\ IF agent.session = s
       THEN \E state \in {"stopped", "failed"} :
                agent' = [agent EXCEPT !.state = state, !.listens = FALSE]
       ELSE agent' = agent
    /\ UNCHANGED <<wire, queue, detector, task, timer, catalog, budget, history>>

\* refresh_state_rules: the adapters are loaded again, or calibrated.
Calibrate ==
    /\ budget.calibrations > 0 /\ budget' = [budget EXCEPT !.calibrations = @ - 1]
    /\ \E rules \in Rules :
        /\ catalog' = rules
        /\ IF agent.listens THEN Send(agent.session, "rules", rules) ELSE queue' = queue
    /\ UNCHANGED <<agent, wire, process, detector, task, timer, history>>

Clock ==
    /\ detector' = [s \in Sessions |->
           IF task[s] # "over" /\ detector[s].silent < LongSilence
           THEN [detector[s] EXCEPT !.silent = @ + 1] ELSE detector[s]]
    /\ timer' = [s \in Sessions |->
           IF timer[s] \in 0 .. BootTimeout - 1 THEN timer[s] + 1 ELSE timer[s]]
    /\ UNCHANGED <<agent, wire, process, queue, task, catalog, budget, history>>

Task(s) == Receive(s) \/ Wake(s) \/ Close(s) \/ Apply(s) \/ Type(s) \/ Record(s)
Next == \/ Start \/ Spawn \/ Calibrate \/ Clock
        \/ \E s \in Sessions : Task(s) \/ TimeOut(s) \/ Output(s) \/ Die(s) \/ OnExit(s)

BootFairness ==
    /\ WF_vars(Clock) /\ WF_vars(Spawn)
    /\ \A s \in Sessions : WF_vars(Task(s)) /\ WF_vars(TimeOut(s)) /\ WF_vars(OnExit(s))
Spec == Init /\ [][Next]_vars /\ BootFairness

-----------------------------------------------------------------------------
(* The task never sleeps through something its clock would make it say:      *)
(* next_deadline is never after a decision of tick, whatever came before, a  *)
(* change of rules in the middle of a silence included.                      *)
NeverOversleeps ==
    \A s \in Sessions : LET d == detector[s] IN
        \A silent \in 0 .. LongSilence :
            Tells(d, Judge([d EXCEPT !.silent = silent])) => NextDeadline(d) <= silent

(* The text of a session is typed once, or its time ran out, never both: the *)
(* decision of the detector and the timer take it from the same place.       *)
TypedOrGivenUp ==
    \A s \in Sessions : typed[s] + (IF s \in gaveUp THEN 1 ELSE 0) <= 1

(* The detector wakes when it has something to say, and the text it sets off *)
(* is typed once at most, whatever the timer of BOOT_TIMEOUT does meanwhile. *)
DetectorIsExact == TypeOK /\ NeverOversleeps /\ TypedOrGivenUp

(* What the user is told of the instructions is settled: "waiting for the    *)
(* first prompt" does not last, also when the process ends before it.        *)
BootIsSettled == []<>(agent.boot # "waiting" \/ process[agent.session] = "none")

(* An agent does not stay "starting": when it falls silent something is      *)
(* decided, if only by the long silence.                                     *)
StartingEnds == []<>(agent.state # "starting")

(* Neither the state of an agent nor that of its instructions hangs.         *)
AgentSettles == BootIsSettled /\ StartingEnds

(* BootDelivery says what became of the instructions in the current session: *)
(* while its text is pending it is not delivered.  The code does not hold to *)
(* it (see the README).                                                      *)
PendingIsWaiting == agent.pending => agent.boot = "waiting"

(* Rule 3 of the detector: a long silence in which no rule matches ends as   *)
(* idle.  The code does not hold to it after two calibrations.               *)
SilenceIsIdle ==
    \A s \in Sessions : LET d == detector[s] IN
        task[s] = "loop" /\ NextDeadline(d) = Never /\ Decide(d.rules, d.screen) = Nothing
            => d.state # "busy"
=============================================================================
