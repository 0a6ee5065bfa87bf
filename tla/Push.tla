-------------------------------- MODULE Push --------------------------------
(***************************************************************************)
(* Delivery by `push` to ONE agent: from the row of a message in the store *)
(* to the text typed in the agent's terminal                               *)
(* (aisense-core/src/bus/push.rs, aisense-app/src/commands/push.rs, and the *)
(* inbox of bus/service.rs that competes with it).                         *)
(*                                                                         *)
(* The parties, one step per lock, await or channel operation:             *)
(*   - dispatch(): a message is stored, then broadcast on the hub;         *)
(*   - the hub task: hears a message, resolves it, enqueues it;            *)
(*   - the supervisor: the agent changes state, and the observer is told   *)
(*     after the supervisor's lock was released;                           *)
(*   - the tick task, and the throttle's timer;                            *)
(*   - the injector task: types what it receives, then updates the rows;   *)
(*   - readers: `aisense inbox --drain` and `aisense wait` of the agent.   *)
(*                                                                         *)
(* The body, the composition and the sanitising of the text are not here:  *)
(* a message is its identity.  The sender of `tx` follows the queue's lock *)
(* so closely that both are one step; two of them are at least a throttle  *)
(* apart.                                                                  *)
(***************************************************************************)
EXTENDS Naturals, Sequences, SequencesExt, FiniteSets, Sift

CONSTANTS
    Messages,    \* messages routed to the agent, whose mode is push
    Readers,     \* invocations of inbox or wait by the agent
    HubCapacity, \* HUB_CAPACITY of the broadcast channel
    Faults       \* what may go wrong: "stop", "write", "skip" and "lag"

ASSUME PushAssumption ==
    /\ HubCapacity \in Nat \ {0}
    /\ Faults \subseteq {"stop", "write", "skip", "lag"}

\* AgentState with its confidence, as far as delivery tells states apart;
\* "idle" is the state with high confidence, "unsure" the one with low.
Views == {"stopped", "starting", "busy", "awaiting_input", "idle", "unsure"}
Quiet == "none"  \* no notification under way

VARIABLES
    faults,     \* what may go wrong in this behaviour: nothing, or all of Faults
    agent,      \* the supervisor's state of the agent
    notice,     \* notice[task]: what that task is about to tell the observer
    row,        \* row[m]: the state of the delivery of m in the store
    published,  \* what dispatch() broadcast on the hub, in order
    heard,      \* how much of it the hub task received
    hubTask,    \* "listening", "resolving" (holding a message) or "ended"
    pending,    \* queue.pending
    view,       \* queue.state and queue.confidence
    rested,     \* PUSH_THROTTLE elapsed since queue.last_injection
    tx,         \* the channel from the queues to the injector
    injector,   \* what the injector is doing
    terminal,   \* the messages typed in the terminal, in order
    reader      \* reader[r]: what that reader is doing

storeVars == <<row>>
hubVars   == <<published, heard, hubTask>>
queueVars == <<pending, view, rested, tx>>
agentVars == <<faults, agent, notice>>
vars == <<agentVars, storeVars, hubVars, queueVars, injector, terminal, reader>>

Tasks == {"detector", "life"}
Idle  == [pc |-> "idle", items |-> <<>>, ok |-> TRUE, seen |-> "none"]
Rows  == {"none", "pending", "delivered", "read"}

TypeOK ==
    /\ faults \in {{}, Faults}
    /\ agent \in Views
    /\ notice \in [Tasks -> Views \cup {Quiet}]
    /\ row \in [Messages -> Rows]
    /\ published \in Seq(Messages)
    /\ heard \in 0..Len(published)
    /\ hubTask \in {"listening", "resolving", "ended"}
    /\ pending \in Seq(Messages)
    /\ view \in Views
    /\ rested \in BOOLEAN
    /\ tx \in Seq(Seq(Messages))
    /\ injector \in [pc: {"idle", "typing", "reading", "saving"},
                     items: Seq(Messages), ok: BOOLEAN, seen: Rows]
    /\ terminal \in Seq(Messages)
    /\ reader \in [Readers -> [pc: {"idle", "marking", "telling"},
                               items: SUBSET Messages]]

Init ==
    /\ faults \in {{}, Faults}
    /\ agent = "stopped" /\ notice = [t \in Tasks |-> Quiet]
    /\ row = [m \in Messages |-> "none"]
    /\ published = <<>> /\ heard = 0 /\ hubTask = "listening"
    /\ pending = <<>> /\ view = "stopped" /\ rested = TRUE /\ tx = <<>>
    /\ injector = Idle /\ terminal = <<>>
    /\ reader = [r \in Readers |-> [pc |-> "idle", items |-> {}]]

-----------------------------------------------------------------------------
(* PushQueues, under its mutex                                               *)

\* PushQueues::ready on the queue <<p, v>>: hand everything over, or wait.
\* ReadyCopies is its mutant: the queue is copied instead of taken.
ReadyCopies(p, v) ==
    IF p # <<>> /\ v = "idle" /\ rested
    THEN pending' = p /\ view' = "busy" /\ rested' = FALSE /\ tx' = Append(tx, p)
    ELSE pending' = p /\ view' = v /\ UNCHANGED <<rested, tx>>

Ready(p, v) ==
    IF p # <<>> /\ v = "idle" /\ rested
    THEN pending' = <<>> /\ view' = "busy" /\ rested' = FALSE /\ tx' = Append(tx, p)
    ELSE pending' = p /\ view' = v /\ UNCHANGED <<rested, tx>>

\* PushQueues::tick, in its task of every 500 ms.
Tick ==
    /\ Ready(pending, view)
    /\ UNCHANGED <<agentVars, storeVars, hubVars, injector, terminal, reader>>

\* PUSH_THROTTLE elapses.
Rest ==
    /\ ~rested /\ rested' = TRUE
    /\ UNCHANGED <<agentVars, storeVars, hubVars, pending, view, tx, injector,
                   terminal, reader>>

-----------------------------------------------------------------------------
(* dispatch() and the hub task                                               *)

\* route(): the message and its delivery are one transaction.
Store(m) ==
    /\ row[m] = "none"
    /\ row' = [row EXCEPT ![m] = "pending"]
    /\ UNCHANGED <<agentVars, hubVars, queueVars, injector, terminal, reader>>

\* hub.send()
Publish(m) ==
    /\ row[m] # "none" /\ m \notin ToSet(published)
    /\ published' = Append(published, m)
    /\ UNCHANGED <<agentVars, storeVars, heard, hubTask, queueVars, injector,
                   terminal, reader>>

\* The hub task is too slow: it missed more than the channel keeps.
Lagged == "lag" \in faults /\ Len(published) - heard > HubCapacity

\* hub.recv(): the next message...
Hear ==
    /\ hubTask = "listening" /\ ~Lagged
    /\ heard < Len(published)
    /\ heard' = heard + 1
    /\ hubTask' = "resolving"
    /\ UNCHANGED <<agentVars, storeVars, published, queueVars, injector,
                   terminal, reader>>

\* ... or RecvError::Lagged, which ends the `while let Ok(..)`.
HearLagged ==
    /\ hubTask = "listening" /\ Lagged
    /\ hubTask' = "ended"
    /\ UNCHANGED <<agentVars, storeVars, published, heard, queueVars, injector,
                   terminal, reader>>

\* PushQueues::enqueue, once directory() and push_item() answered.
Queued(p, m) == IF m \in ToSet(p) THEN p ELSE Append(p, m)

Enqueue ==
    /\ hubTask = "resolving"
    /\ hubTask' = "listening"
    /\ Ready(Queued(pending, published[heard]), view)
    /\ UNCHANGED <<agentVars, storeVars, published, heard, injector, terminal,
                   reader>>

\* directory() or push_item() found nothing to deliver to.
ResolveFails ==
    /\ "skip" \in faults
    /\ hubTask = "resolving"
    /\ hubTask' = "listening"
    /\ UNCHANGED <<agentVars, storeVars, published, heard, queueVars, injector,
                   terminal, reader>>

-----------------------------------------------------------------------------
(* The supervisor and its observer, PushSink::state                          *)

\* The detector reads a new screen: apply_detection().  It runs from the spawn
\* on, which start() does after it told the observer.
Detect(v) ==
    /\ agent # "stopped" /\ agent # v
    /\ notice["detector"] = Quiet /\ notice["life"] = Quiet
    /\ agent' = v
    /\ notice' = [notice EXCEPT !["detector"] = v]
    /\ UNCHANGED <<faults, storeVars, hubVars, queueVars, injector, terminal, reader>>

\* start() and on_exit().
LifeChange(from, to) ==
    /\ notice["life"] = Quiet
    /\ (agent = "stopped") = (from = "stopped")
    /\ agent' = to
    /\ notice' = [notice EXCEPT !["life"] = to]
    /\ UNCHANGED <<faults, storeVars, hubVars, queueVars, injector, terminal, reader>>

Start == LifeChange("stopped", "starting")
Exit  == "stop" \in faults /\ LifeChange("running", "stopped")

\* PushQueues::state, called by the observer after the lock was released: the
\* queue of a process that stopped is only the inbox again.
PendingAfter(p, v) == IF v = "stopped" THEN <<>> ELSE p

Notify(t) ==
    /\ notice[t] # Quiet
    /\ notice' = [notice EXCEPT ![t] = Quiet]
    /\ Ready(PendingAfter(pending, notice[t]), notice[t])
    /\ UNCHANGED <<faults, agent, storeVars, hubVars, injector, terminal, reader>>

-----------------------------------------------------------------------------
(* The injector task                                                         *)

TakeInjection ==
    /\ injector.pc = "idle" /\ tx # <<>>
    /\ tx' = Tail(tx)
    /\ injector' = [injector EXCEPT !.pc = "typing", !.items = Head(tx)]
    /\ UNCHANGED <<agentVars, storeVars, hubVars, pending, view, rested, terminal,
                   reader>>

\* The agent or its adapter is gone.
SkipInjection ==
    /\ "skip" \in faults
    /\ injector.pc = "typing"
    /\ injector' = Idle
    /\ UNCHANGED <<agentVars, storeVars, hubVars, queueVars, terminal, reader>>

\* writer.write(): the whole text at once, or an error.
Type ==
    /\ injector.pc = "typing"
    /\ \/ /\ injector' = [injector EXCEPT !.pc = "reading", !.ok = TRUE]
          /\ terminal' = terminal \o injector.items
       \/ /\ "write" \in faults \/ agent = "stopped"
          /\ injector' = [injector EXCEPT !.pc = "reading", !.ok = FALSE]
          /\ UNCHANGED terminal
    /\ UNCHANGED <<agentVars, storeVars, hubVars, queueVars, reader>>

\* deliveries_of() of the next item ...
ReadRow ==
    /\ injector.pc = "reading"
    /\ injector' = [injector EXCEPT !.pc = "saving",
                                    !.seen = row[Head(injector.items)]]
    /\ UNCHANGED <<agentVars, storeVars, hubVars, queueVars, terminal, reader>>

\* What inject() writes back: the row it read, delivered if it was pending.
Outcome(seen, ok) == IF ok /\ seen = "pending" THEN "delivered" ELSE seen

\* The next item of the injection, if any.
NextItem ==
    LET rest == Tail(injector.items)
    IN  injector' = IF rest = <<>> THEN Idle
                    ELSE [injector EXCEPT !.pc = "reading", !.items = rest]

\* ... and update_delivery(), which overwrites every column.
SaveRow ==
    /\ injector.pc = "saving"
    /\ row' = [row EXCEPT ![Head(injector.items)] =
                   Outcome(injector.seen, injector.ok)]
    /\ NextItem
    /\ UNCHANGED <<agentVars, hubVars, queueVars, terminal, reader>>

\* Either of the two fails; the error is dropped.
LoseRow ==
    /\ "skip" \in faults
    /\ injector.pc \in {"reading", "saving"}
    /\ NextItem
    /\ UNCHANGED <<agentVars, storeVars, hubVars, queueVars, terminal, reader>>

InjectorStep == TakeInjection \/ Type \/ ReadRow \/ SaveRow

-----------------------------------------------------------------------------
(* The inbox of the agent, BusService::inbox and BusService::wait            *)

Unread == {m \in Messages : row[m] \in {"pending", "delivered"}}

\* The query: every unread message (inbox), or one (wait).
Fetch(r) ==
    /\ reader[r].pc = "idle"
    /\ Unread # {}
    /\ \E items \in {Unread} \cup {{m} : m \in Unread} :
           reader' = [reader EXCEPT ![r] = [pc |-> "marking", items |-> items]]
    /\ UNCHANGED <<agentVars, storeVars, hubVars, queueVars, injector, terminal>>

\* mark_read(), one transaction.
Mark(r) ==
    /\ reader[r].pc = "marking"
    /\ row' = [m \in Messages |->
                   IF m \in reader[r].items \cap Unread THEN "read" ELSE row[m]]
    /\ reader' = [reader EXCEPT ![r].pc = "telling"]
    /\ UNCHANGED <<agentVars, hubVars, queueVars, injector, terminal>>

\* PushQueues::forget, called by the observer: `retain`.
\* ForgetAll is its mutant: the whole queue goes.
ForgetAll(p, ids)  == <<>>
Forgotten(p, ids) == Sifted(p, Messages \ ids)

Forget(r) ==
    /\ reader[r].pc = "telling"
    /\ pending' = Forgotten(pending, reader[r].items)
    /\ reader' = [reader EXCEPT ![r] = [pc |-> "idle", items |-> {}]]
    /\ UNCHANGED <<agentVars, storeVars, hubVars, view, rested, tx, injector,
                   terminal>>

-----------------------------------------------------------------------------
Next ==
    \/ \E m \in Messages : Store(m) \/ Publish(m)
    \/ Hear \/ HearLagged \/ Enqueue \/ ResolveFails
    \/ \E v \in Views \ {"stopped", "starting"} : Detect(v)
    \/ Start \/ Exit
    \/ \E t \in Tasks : Notify(t)
    \/ Tick \/ Rest
    \/ InjectorStep \/ SkipInjection \/ LoseRow
    \/ \E r \in Readers : Fetch(r) \/ Mark(r) \/ Forget(r)

Spec == Init /\ [][Next]_vars

\* What was typed makes the agent work.
Answer == agent = "idle" /\ view = "busy" /\ Detect("busy")

\* The tasks run, the timers fire, a stored message is broadcast, the agent is
\* started, works on what was typed, and again and again its prompt is recognised:
\* it is not left at a question for ever.  A reader that fetched finishes.
Fairness ==
    /\ \A m \in Messages : WF_vars(Publish(m))
    /\ WF_vars(Hear) /\ WF_vars(Enqueue)
    /\ \A t \in Tasks : WF_vars(Notify(t))
    /\ WF_vars(Rest) /\ WF_vars(Tick) /\ WF_vars(InjectorStep)
    /\ WF_vars(Start) /\ WF_vars(Answer) /\ SF_vars(Detect("idle"))
    /\ \A r \in Readers : WF_vars(Mark(r)) /\ WF_vars(Forget(r))

FairSpec == Spec /\ Fairness

-----------------------------------------------------------------------------
(* Properties                                                                *)

\* FIFO, and nothing twice: what was typed is what was broadcast, in that order,
\* with gaps for what was read, refused or lost meanwhile (docs/07, rule 3).
TypedInOrder ==
    \A i, j \in 1..Len(terminal) : i < j =>
        \E k, l \in 1..Len(published) :
            k < l /\ published[k] = terminal[i] /\ published[l] = terminal[j]

\* "Delivered" is the truth: the text reached the terminal.
DeliveredWasTyped ==
    \A m \in Messages : row[m] = "delivered" => m \in ToSet(terminal)

\* What the terminal got and what the rows say are one story: everything typed
\* once and in order, everything called delivered typed (push.rs, commands/push.rs).
DeliveryIsTrue == TypeOK /\ TypedInOrder /\ DeliveredWasTyped

\* Nothing failing, a message stored for an agent is typed, or read by other means:
\* no interleaving of enqueueing, detection, throttle and reading forgets it.
PushReaches ==
    faults = {} => \A m \in Messages :
        row[m] # "none" ~> m \in ToSet(terminal) \/ row[m] = "read"

-----------------------------------------------------------------------------
(* What docs and comments say, and the code does not do                      *)

\* "Nunca injeta com estado awaiting_input."
NeverTypesAtAQuestion == [][terminal' # terminal => agent # "awaiting_input"]_vars

\* "drain marca todas como lidas": a message that was read stays read.
ReadStaysRead ==
    [][\A m \in Messages : row[m] = "read" => row'[m] = "read"]_vars
=============================================================================
