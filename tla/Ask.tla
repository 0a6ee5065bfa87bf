-------------------------------- MODULE Ask ---------------------------------
(***************************************************************************)
(* Questions between agents (aisense-core/src/bus/service.rs): `ask`       *)
(* blocks until an answer or a timeout, `reply` answers, `wait` blocks     *)
(* until any message, and the graph of who waits for whom refuses the      *)
(* question that would close a cycle.                                      *)
(*                                                                         *)
(* Each call of an operation is a task of the IPC server.  Between two of  *)
(* its awaits a task is one step.  The client at the other end of the      *)
(* connection may leave; the server learns of it only when it writes the   *)
(* result, so nothing here looks at `gone` but the properties.          *)
(*                                                                         *)
(* A question is the call that made it.  The order of the store's ids, the *)
(* guards against loops and the text are not here: a dispatch that fails,  *)
(* for whatever reason, is AskFails.                                       *)
(***************************************************************************)
EXTENDS Integers, Sequences, FiniteSets

CONSTANTS
    Agents,      \* the agents of one team
    NoAgent,
    Calls,       \* calls of ask: each sends one question
    Replies,     \* answers that may be sent
    Waiters,     \* calls of wait
    Quitters,    \* the calls of either whose client may leave
    HubCapacity, \* what the broadcast channel keeps for a slow receiver
    NoMessage

Messages == Calls \cup Replies
Tasks    == Calls \cup Waiters

ASSUME AskAssumption ==
    /\ IsFiniteSet(Calls)
    /\ Quitters \subseteq Tasks
    /\ NoAgent \notin Agents
    /\ NoMessage \notin Messages
    /\ Calls \cap Replies = {} /\ Calls \cap Waiters = {}
    /\ HubCapacity \in Nat \ {0}

VARIABLES
    pc,        \* pc[x]: what the task of the call, reply or wait x does
    from,      \* from[x]: the agent that called x
    to,        \* to[m]: the agent that m is delivered to
    about,     \* about[r]: the question that r answers
    waits,     \* WaitGraph: how many edges from one agent to another
    row,       \* row[m]: the delivery of m in the store
    published, \* what was broadcast on the hub, in order
    cursor,    \* cursor[x]: how much of it the receiver of x has consumed
    result,    \* result[x]: what the call of ask or wait x holds, or returned
    gone       \* the calls whose client is no longer connected

graphVars == <<waits>>
busVars   == <<row, published, about>>
vars == <<pc, from, to, graphVars, busVars, cursor, result, gone>>

InGraph   == {"sending", "stored", "waiting", "rereading"}
AskSteps  == InGraph \cup {"idle", "marking", "done"}
WaitSteps == {"idle", "looking", "listening", "marking", "done"}

Edge(c) == <<from[c], to[c]>>

TypeOK ==
    /\ pc \in [Messages \cup Waiters ->
                  AskSteps \cup WaitSteps \cup {"replied"}]
    /\ \A c \in Calls : pc[c] \in AskSteps
    /\ from \in [Messages \cup Waiters -> Agents \cup {NoAgent}]
    /\ to \in [Messages -> Agents \cup {NoAgent}]
    /\ about \in [Replies -> Calls \cup {NoMessage}]
    /\ waits \in [Agents \X Agents -> Nat]
    /\ row \in [Messages -> {"none", "pending", "read"}]
    /\ published \in Seq(Messages)
    /\ cursor \in [Tasks -> Nat]
    /\ result \in [Tasks -> Messages \cup {NoMessage}]
    /\ gone \subseteq Quitters

Init ==
    /\ pc = [x \in Messages \cup Waiters |-> "idle"]
    /\ from = [x \in Messages \cup Waiters |-> NoAgent]
    /\ to = [m \in Messages |-> NoAgent]
    /\ about = [r \in Replies |-> NoMessage]
    /\ waits = [e \in Agents \X Agents |-> 0]
    /\ row = [m \in Messages |-> "none"]
    /\ published = <<>>
    /\ cursor = [x \in Tasks |-> 0]
    /\ result = [x \in Tasks |-> NoMessage]
    /\ gone = {}

-----------------------------------------------------------------------------
(* WaitGraph                                                                 *)

Edges == {e \in Agents \X Agents : waits[e] > 0}

\* WaitGraph::path finds a way from x to y along the edges E: every set that
\* holds x and is closed under E holds y.
\* ReachesBack is its mutant: the way is looked for in the wrong direction.
ReachesBack(E, x, y) ==
    \A S \in SUBSET Agents :
        y \in S /\ (\A e \in E : e[1] \in S => e[2] \in S) => x \in S
Reaches(E, x, y) ==
    \A S \in SUBSET Agents :
        x \in S /\ (\A e \in E : e[1] \in S => e[2] \in S) => y \in S

\* Waiting::drop and WaitGraph::remove: one edge, of maybe several equal ones.
\* Its mutants: all the equal ones go; the edge is dropped twice.
WithoutAll(w, e)   == [w EXCEPT ![e] = 0]
WithoutTwice(w, e) == [w EXCEPT ![e] = @ - 2]
Without(w, e) == [w EXCEPT ![e] = IF @ > 0 THEN @ - 1 ELSE 0]

-----------------------------------------------------------------------------
(* ask                                                                       *)

Goto(x, step) == pc' = [pc EXCEPT ![x] = step]

\* One critical section: look for the cycle, add the edge.  The receiver of the
\* hub is created before the question is sent.
Register(c, a, b) ==
    /\ pc[c] = "idle"
    /\ ~Reaches(Edges, b, a)
    /\ waits' = [waits EXCEPT ![<<a, b>>] = @ + 1]
    /\ from' = [from EXCEPT ![c] = a] /\ to' = [to EXCEPT ![c] = b]
    /\ cursor' = [cursor EXCEPT ![c] = Len(published)]
    /\ Goto(c, "sending")
    /\ UNCHANGED <<busVars, result, gone>>

\* BusError::WouldDeadlock.
Refuse(c, a, b) ==
    /\ pc[c] = "idle"
    /\ Reaches(Edges, b, a)
    /\ Goto(c, "done")
    /\ UNCHANGED <<from, to, graphVars, busVars, cursor, result, gone>>

\* route() stores the question ...
Send(c) ==
    /\ pc[c] = "sending"
    /\ row' = [row EXCEPT ![c] = "pending"]
    /\ Goto(c, "stored")
    /\ UNCHANGED <<from, to, graphVars, published, about, cursor, result, gone>>

\* ... and dispatch() broadcasts it.
Publish(c) ==
    /\ pc[c] = "stored"
    /\ published' = Append(published, c)
    /\ Goto(c, "waiting")
    /\ UNCHANGED <<from, to, graphVars, row, about, cursor, result, gone>>

\* broadcast::Receiver::recv: what the receiver of x gets next.
Lagged(x)  == Len(published) - cursor[x] > HubCapacity
Present(x) == ~Lagged(x) /\ cursor[x] < Len(published)
Heard(x)   == published[cursor[x] + 1]
Consume(x) == cursor' = [cursor EXCEPT ![x] = @ + 1]
Skip(x)    == cursor' = [cursor EXCEPT ![x] = Len(published) - HubCapacity]
Drop(x)    == cursor' = [cursor EXCEPT ![x] = 0]

\* Leaving the loop, or the function, drops `waiting`, and the receiver with it.
Leave(c, step, answer) ==
    /\ waits' = Without(waits, Edge(c))
    /\ Drop(c)
    /\ Goto(c, step)
    /\ result' = [result EXCEPT ![c] = answer]

\* dispatch() refused (agent_stopped, a guard, the store), or replies_to() failed.
AskFails(c) ==
    /\ pc[c] \in {"sending", "rereading"}
    /\ Leave(c, "done", NoMessage)
    /\ UNCHANGED <<from, to, busVars, gone>>

AskTimesOut(c) ==
    /\ pc[c] = "waiting"
    /\ Leave(c, "done", NoMessage)
    /\ UNCHANGED <<from, to, busVars, gone>>

Answers(m, c) == m \in Replies /\ about[m] = c

\* The answer arrives.
HearAnswer(c) ==
    /\ pc[c] = "waiting" /\ Present(c)
    /\ Answers(Heard(c), c)
    /\ Leave(c, "marking", Heard(c))
    /\ UNCHANGED <<from, to, busVars, gone>>

HearOther(c) ==
    /\ pc[c] = "waiting" /\ Present(c)
    /\ ~Answers(Heard(c), c)
    /\ Consume(c)
    /\ UNCHANGED <<pc, from, to, graphVars, busVars, result, gone>>

\* RecvError::Lagged: the answer may be in the store already.
\* LagIgnored is the mutant: nothing is looked up.
LagIgnored(c)   == Goto(c, "waiting")
LagRemedied(c) == Goto(c, "rereading")

HearLag(c) ==
    /\ pc[c] = "waiting" /\ Lagged(c)
    /\ Skip(c)
    /\ LagRemedied(c)
    /\ UNCHANGED <<from, to, graphVars, busVars, result, gone>>

\* replies_to(question), and its first element if there is one.
Stored(c) == {r \in Replies : row[r] # "none" /\ about[r] = c}

RereadFinds(c) ==
    /\ pc[c] = "rereading"
    /\ \E r \in Stored(c) : Leave(c, "marking", r)
    /\ UNCHANGED <<from, to, busVars, gone>>

RereadMisses(c) ==
    /\ pc[c] = "rereading"
    /\ Stored(c) = {}
    /\ Goto(c, "waiting")
    /\ UNCHANGED <<from, to, graphVars, busVars, cursor, result, gone>>

\* The answer counts as read, and the call returns it.  Also the end of a wait.
MarkResult(x) ==
    /\ pc[x] = "marking"
    /\ row' = [row EXCEPT ![result[x]] = "read"]
    /\ Goto(x, "done")
    /\ UNCHANGED <<from, to, graphVars, published, about, cursor, result, gone>>

AskStep(c) ==
    \/ Send(c) \/ Publish(c)
    \/ HearAnswer(c) \/ HearOther(c) \/ HearLag(c)
    \/ RereadFinds(c) \/ RereadMisses(c)

-----------------------------------------------------------------------------
(* reply                                                                     *)

\* The recipient of a question answers it: once, twice, or after the timeout.
Reply(r, c) ==
    /\ pc[r] = "idle"
    /\ row[c] # "none"
    /\ from' = [from EXCEPT ![r] = to[c]] /\ to' = [to EXCEPT ![r] = from[c]]
    /\ about' = [about EXCEPT ![r] = c]
    /\ row' = [row EXCEPT ![r] = "pending"]
    /\ Goto(r, "stored")
    /\ UNCHANGED <<graphVars, published, cursor, result, gone>>

ReplyPublish(r) ==
    /\ pc[r] = "stored"
    /\ published' = Append(published, r)
    /\ Goto(r, "replied")
    /\ UNCHANGED <<from, to, graphVars, row, about, cursor, result, gone>>

\* "Answered = read."
ReplyMark(r) ==
    /\ pc[r] = "replied"
    /\ row' = [row EXCEPT ![about[r]] = "read"]
    /\ Goto(r, "done")
    /\ UNCHANGED <<from, to, graphVars, published, about, cursor, result, gone>>

-----------------------------------------------------------------------------
(* wait                                                                      *)

Unread(a) == {m \in Messages : to[m] = a /\ row[m] = "pending"}

\* It subscribes before it looks into the inbox.
Wait(w, a) ==
    /\ pc[w] = "idle"
    /\ from' = [from EXCEPT ![w] = a]
    /\ cursor' = [cursor EXCEPT ![w] = Len(published)]
    /\ Goto(w, "looking")
    /\ UNCHANGED <<to, graphVars, busVars, result, gone>>

LookFinds(w) ==
    /\ pc[w] = "looking"
    /\ \E m \in Unread(from[w]) : result' = [result EXCEPT ![w] = m]
    /\ Goto(w, "marking") /\ Drop(w)
    /\ UNCHANGED <<from, to, graphVars, busVars, gone>>

LookMisses(w) ==
    /\ pc[w] = "looking"
    /\ Unread(from[w]) = {}
    /\ Goto(w, "listening")
    /\ UNCHANGED <<from, to, graphVars, busVars, cursor, result, gone>>

\* A message for the agent, or a lag: look again.
Wakes(w) == Lagged(w) \/ (Present(w) /\ to[Heard(w)] = from[w])

Hear(w) ==
    /\ pc[w] = "listening" /\ (Present(w) \/ Lagged(w))
    /\ IF Lagged(w) THEN Skip(w) ELSE Consume(w)
    /\ Goto(w, IF Wakes(w) THEN "looking" ELSE "listening")
    /\ UNCHANGED <<from, to, graphVars, busVars, result, gone>>

WaitTimesOut(w) ==
    /\ pc[w] = "listening"
    /\ Goto(w, "done") /\ Drop(w)
    /\ UNCHANGED <<from, to, graphVars, busVars, result, gone>>

WaitStep(w) == LookFinds(w) \/ LookMisses(w) \/ Hear(w)

-----------------------------------------------------------------------------
\* The client is killed, or gives up.
ClientLeaves(x) ==
    /\ x \in Quitters \ gone /\ pc[x] \notin {"idle", "done"}
    /\ gone' = gone \cup {x}
    /\ UNCHANGED <<pc, from, to, graphVars, busVars, cursor, result>>

Next ==
    \/ \E c \in Calls :
        \/ \E a, b \in Agents : Register(c, a, b) \/ Refuse(c, a, b)
        \/ AskStep(c) \/ AskFails(c) \/ AskTimesOut(c)
        \/ \E r \in Replies : Reply(r, c)
    \/ \E r \in Replies : ReplyPublish(r) \/ ReplyMark(r)
    \/ \E w \in Waiters : \/ WaitStep(w) \/ WaitTimesOut(w)
                         \/ \E a \in Agents : Wait(w, a)
    \/ \E x \in Tasks : MarkResult(x) \/ ClientLeaves(x)

Spec == Init /\ [][Next]_vars

\* Every task is scheduled.  Nobody has to ask, to answer or to wait, and no
\* timeout is relied upon.
Fairness ==
    /\ \A c \in Calls : WF_vars(AskStep(c))
    /\ \A r \in Replies : WF_vars(ReplyPublish(r))
    /\ \A w \in Waiters : WF_vars(WaitStep(w))
    /\ \A x \in Tasks : WF_vars(MarkResult(x))

FairSpec == Spec /\ Fairness

-----------------------------------------------------------------------------
(* Properties                                                                *)

Blocked(c) == pc[c] \in InGraph

\* No deadlock: there is no set of agents each of whom is blocked on a question
\* to one of them.
NoDeadlock ==
    \A S \in (SUBSET Agents) \ {{}} :
        \E a \in S : \A c \in Calls :
            Blocked(c) /\ from[c] = a => to[c] \notin S

\* The graph is exactly the questions under way: an edge that stayed behind
\* would refuse questions for ever, a missing one would let a deadlock through.
EdgesAreWaits ==
    \A e \in Agents \X Agents :
        waits[e] = Cardinality({c \in Calls : Blocked(c) /\ Edge(c) = e})

\* An answer sent while its question is waited for ends the wait, whatever
\* the channel loses.
AnswerEndsAsk ==
    \A c \in Calls : pc[c] = "waiting" /\ Stored(c) # {} ~> pc[c] = "done"

\* An agent in `wait` is not left there with something to read in its inbox.
MessageEndsWait ==
    \A w \in Waiters : pc[w] = "listening" /\ Unread(from[w]) # {}
        ~> pc[w] = "done" \/ Unread(from[w]) = {}

\* Nobody sleeps through what he waits for: the loops of ask() and wait() look
\* into the store again when the channel lagged (bus/service.rs:964).
CallsAreAnswered == AnswerEndsAsk /\ MessageEndsWait

\* "A resposta foi entregue a quem perguntou na propria chamada: conta como
\* lida": what an ask marks as read, its client is there to receive.
ReadIsDelivered ==
    [][\A c \in Calls : pc[c] = "marking" /\ pc'[c] = "done" => c \notin gone]_vars
=============================================================================
