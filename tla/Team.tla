-------------------------------- MODULE Team --------------------------------
(***************************************************************************)
(* What is done to a whole team: start, stop and restart all of it         *)
(* (aisense-core, supervisor/team.rs), archive or delete it, or delete one *)
(* agent (aisense-app, commands/teams.rs and agents.rs).  A call works on  *)
(* the list of agents it read at first, one agent at a time.  The start of *)
(* one agent reads its row, registers its session and spawns its process,  *)
(* and awaits in between: the other calls, the processes that end and the  *)
(* restarts by policy interleave with it there.                            *)
(*                                                                         *)
(* Supervisor has the start of one agent in full: its records, its tokens, *)
(* the two halves of a stop, an exit that is told late, and the processes  *)
(* that the manager does not hold.                                         *)
(***************************************************************************)
EXTENDS Naturals, Sequences, SequencesExt, FiniteSetsExt, Sift

CONSTANTS
    Order,           \* the agents of the team, in its order
    Autostart,       \* those that start with the team
    Restarted,       \* those whose failure schedules a restart
    TeamScenes       \* the requests [op, agent] made at the same time

TeamOps == {"start", "stop", "restart", "archive", "delete", "retire"}
ASSUME OrderAssumption == Order \in Seq(ToSet(Order))
ASSUME TeamScenesAssumption ==
    \A scene \in TeamScenes : scene \in Seq([op : TeamOps, agent : ToSet(Order)])

VARIABLES
    members,    \* the agents that are in the store
    teamRow,    \* the team is "open", "archived" or "deleted"
    agents,     \* per agent: [state, asked, scheduled, session, proc, told], see below
    restarts,   \* per agent: where its restart by policy is, at most one at a time
    calls,      \* per request: where it is, the agents left, its targets, those it could not start
    loose,      \* history: agents with two starts, or a start and a retirement, that overlapped
    ended       \* history: <<agent, told>> of the processes that ended since its last start

teamVars == <<members, teamRow, agents, restarts, calls, loose, ended>>

Agents == ToSet(Order)
\* asked: stop_requested; session: who registered last, a call or the policy;
\* proc: what the manager holds, of that session or of one it replaced; told:
\* the calls that had it killed.
AgentOf(state, proc) == [state |-> state, asked |-> FALSE, scheduled |-> FALSE,
                         session |-> 0, proc |-> proc, told |-> {}]
Policy == 0
Running(a) == agents[a].state = "running"
Up(a) == agents[a].proc # "none"
InOrder(set) == Sifted(Order, set)
Idle(request) == [op |-> request.op, agent |-> request.agent, at |-> "list", todo |-> <<>>,
                  targets |-> {}, failures |-> {}]

TeamInit ==
    /\ members = Agents /\ teamRow = "open" /\ loose = {} /\ ended = {}
    /\ agents \in [Agents -> {AgentOf("stopped", "none"), AgentOf("running", "own")}]
    /\ restarts = [a \in Agents |-> "none"]
    /\ \E scene \in TeamScenes : calls = [i \in DOMAIN scene |-> Idle(scene[i])]

StepsThrough(i, call) == calls' = [calls EXCEPT ![i] = call]
Moves(i, at, todo) == StepsThrough(i, [calls[i] EXCEPT !.at = at, !.todo = todo])

-----------------------------------------------------------------------------
(* AgentSupervisor: start and stop of one agent                              *)

\* The state is checked, and the row is read.  Rows only go away, so that the
\* check and the read are one step.
Starts(a) == a \in members /\ ~Running(a)
\* A start that fails before it registers: what it prepares may leave "failed".
GivesUp(a) == \/ agents' = agents
              \/ agents' = [agents EXCEPT ![a].state = "failed"]
\* Whoever registers takes the agent over, whatever process there is.
Registers(a, who) ==
    agents' = [agents EXCEPT ![a] =
        [@ EXCEPT !.state = "running", !.asked = FALSE, !.scheduled = FALSE, !.session = who,
                  !.proc = IF Up(a) THEN "stale" ELSE "none"]]
\* The manager refuses a second process, or the fork fails.
SpawnFails(a) == agents' = [agents EXCEPT ![a].state = "failed"] /\ ended' = ended
\* The process comes up; one that was there has ended just before.
ComesUp(a, who) ==
    /\ agents' = [agents EXCEPT ![a] =
           [@ EXCEPT !.proc = IF agents[a].session = who THEN "own" ELSE "stale", !.told = {}]]
    /\ ended' = {e \in ended : e[1] # a}

\* Call i has the process killed; what is not running is stopped, and not restarted.
Stop(i, a) ==
    agents' = [agents EXCEPT ![a] =
        [@ EXCEPT !.asked = TRUE, !.scheduled = FALSE,
                  !.state = IF Running(a) THEN "running" ELSE "stopped",
                  !.told = agents[a].told \cup (IF Running(a) /\ Up(a) THEN {i} ELSE {})]]

\* on_exit: the policy may schedule a restart; of a session that was replaced,
\* nothing is decided.
Exit(a) ==
    /\ Up(a) /\ ended' = ended \cup {<<a, agents[a].told>>}
    /\ \/ /\ agents[a].proc = "stale"
          /\ agents' = [agents EXCEPT ![a] = [@ EXCEPT !.proc = "none", !.told = {}]]
       \/ /\ agents[a].proc = "own"
          /\ \E state \in IF agents[a].asked THEN {"stopped"} ELSE {"stopped", "failed"} :
                agents' = [agents EXCEPT ![a] = [@ EXCEPT !.proc = "none", !.told = {},
                    !.state = state, !.scheduled = state = "failed" /\ a \in Restarted]]
    /\ UNCHANGED <<members, teamRow, restarts, calls, loose>>

-----------------------------------------------------------------------------
(* Who starts an agent: a call, or the policy                                *)

\* The starts of an agent that have begun and are not over.
Starting(call, a) == call.at \in {"read", "registered"} /\ Head(call.todo) = a
InFlight(a) == {i \in DOMAIN calls : Starting(calls[i], a)}
                   \cup (IF restarts[a] # "none" THEN {Policy} ELSE {})
\* Those whom a call that deletes has stopped so far.
Retired(call) ==
    IF call.at \in {"retire", "stopping"} THEN call.targets \ ToSet(call.todo)
    ELSE IF call.at = "bench" THEN call.targets \ ToSet(Tail(call.todo))
    ELSE {}
\* History: a start of a begins beside these others.
Loosens(a, others) ==
    loose' = IF others = {} /\ \A i \in DOMAIN calls : a \notin Retired(calls[i])
             THEN loose ELSE loose \cup {a}

\* The delay is over.  It may be over although a stop came just before: select!
\* takes either.
Due(a) ==
    /\ agents[a].scheduled /\ restarts[a] = "none" /\ Loosens(a, InFlight(a))
    /\ agents' = [agents EXCEPT ![a].scheduled = FALSE]
    /\ restarts' = [restarts EXCEPT ![a] = "due"]
    /\ UNCHANGED <<members, teamRow, calls, ended>>
RestartBegins(a) ==
    /\ restarts[a] = "due" /\ Loosens(a, InFlight(a) \ {Policy})
    /\ restarts' = [restarts EXCEPT ![a] = IF Starts(a) THEN "read" ELSE "none"]
    /\ UNCHANGED <<members, teamRow, agents, calls, ended>>
RestartRegisters(a) ==
    /\ restarts[a] = "read"
    /\ \/ GivesUp(a) /\ restarts' = [restarts EXCEPT ![a] = "none"]
       \/ Registers(a, Policy) /\ restarts' = [restarts EXCEPT ![a] = "registered"]
    /\ UNCHANGED <<members, teamRow, calls, loose, ended>>
RestartSpawns(a) ==
    /\ restarts[a] = "registered" /\ (SpawnFails(a) \/ ComesUp(a, Policy))
    /\ restarts' = [restarts EXCEPT ![a] = "none"]
    /\ UNCHANGED <<members, teamRow, calls, loose>>
Restart(a) == Due(a) \/ RestartBegins(a) \/ RestartRegisters(a) \/ RestartSpawns(a)

\* start_many: who cannot start is reported, and does not stop the others.
Reports(i, a) == StepsThrough(i, [calls[i] EXCEPT !.at = "start", !.todo = Tail(@),
                                                  !.failures = @ \cup {a}])
\* StartRested, its mutant, passes over those that still run.
StartRested(i) ==
    /\ calls[i].at = "start" /\ calls[i].todo # <<>>
    /\ LET a == Head(calls[i].todo)
       IN  IF Starts(a) THEN Loosens(a, InFlight(a)) /\ Moves(i, "read", calls[i].todo)
           ELSE loose' = loose /\ Moves(i, "start", Tail(calls[i].todo))
    /\ UNCHANGED <<members, teamRow, agents, restarts, ended>>
StartBegins(i) ==
    /\ calls[i].at = "start" /\ calls[i].todo # <<>>
    /\ LET a == Head(calls[i].todo)
       IN  IF Starts(a) THEN Loosens(a, InFlight(a)) /\ Moves(i, "read", calls[i].todo)
           ELSE loose' = loose /\ Reports(i, a)
    /\ UNCHANGED <<members, teamRow, agents, restarts, ended>>
\* What comes of the row that was read: it may be gone by now.
StartRegisters(i) ==
    /\ calls[i].at = "read"
    /\ LET a == Head(calls[i].todo)
       IN  \/ GivesUp(a) /\ Reports(i, a)
           \/ Registers(a, i) /\ Moves(i, "registered", calls[i].todo)
    /\ UNCHANGED <<members, teamRow, restarts, loose, ended>>
StartSpawns(i) ==
    /\ calls[i].at = "registered"
    /\ LET a == Head(calls[i].todo)
       IN  \/ SpawnFails(a) /\ Reports(i, a)
           \/ ComesUp(a, i) /\ Moves(i, "start", Tail(calls[i].todo))
    /\ UNCHANGED <<members, teamRow, restarts, loose>>
StartsDone(i) ==
    /\ calls[i].at = "start" /\ calls[i].todo = <<>> /\ Moves(i, "done", <<>>)
    /\ UNCHANGED <<members, teamRow, agents, restarts, loose, ended>>

-----------------------------------------------------------------------------
(* start_team, stop_team, restart_team; archive; delete                      *)

Alive == {a \in members : Running(a)}
StartTargets == {a \in members \cap Autostart : ~Running(a)}

\* Which agents, and what comes first.
List(i) ==
    LET op == calls[i].op
        restart == op = "restart" /\ Alive # {}
        targets == CASE op \in {"stop", "archive"} \/ restart -> Alive
                     [] op = "start" \/ (op = "restart" /\ Alive = {}) -> StartTargets
                     [] op = "delete" -> members
                     [] OTHER -> {calls[i].agent} \cap members
        first == IF op \in {"stop", "archive"} \/ restart THEN "stop"
                 ELSE IF op \in {"start", "restart"} THEN "start"
                 ELSE "retire"
    IN  /\ calls[i].at = "list"
        /\ \/ StepsThrough(i, [calls[i] EXCEPT !.at = first, !.todo = InOrder(targets), !.targets = targets])
           \/ op = "delete" /\ Moves(i, "refused", <<>>)     \* a bench has changes
        /\ UNCHANGED <<members, teamRow, agents, restarts, loose, ended>>

\* stop_many: one after the other...
StopNext(i) ==
    /\ calls[i].at = "stop" /\ calls[i].todo # <<>>
    /\ Stop(i, Head(calls[i].todo)) /\ Moves(i, "stop", Tail(calls[i].todo))
    /\ UNCHANGED <<members, teamRow, restarts, loose, ended>>
\* ... and then until all have gone, or STOP_WAIT is over, which may be at any time.
Stopped(i) ==
    /\ calls[i].at = "stop" /\ calls[i].todo = <<>>
    /\ CASE calls[i].op = "restart" -> Moves(i, "start", InOrder(calls[i].targets))
         [] calls[i].op = "archive" -> Moves(i, "shelve", <<>>)
         [] OTHER -> Moves(i, "done", <<>>)
    /\ UNCHANGED <<members, teamRow, agents, restarts, loose, ended>>

\* retire: the row is read, then the stop, which does not wait, and then the
\* bench, or a refusal that leaves what was done so far.
RetireReads(i) ==
    /\ calls[i].at = "retire" /\ calls[i].todo # <<>>
    /\ IF Head(calls[i].todo) \in members THEN Moves(i, "stopping", calls[i].todo)
       ELSE Moves(i, "refused", <<>>)
    /\ UNCHANGED <<members, teamRow, agents, restarts, loose, ended>>
RetireStop(i) ==
    /\ calls[i].at = "stopping"
    /\ LET a == Head(calls[i].todo)
       IN  /\ Stop(i, a) /\ Moves(i, "bench", calls[i].todo)
           /\ loose' = IF InFlight(a) = {} THEN loose ELSE loose \cup {a}
    /\ UNCHANGED <<members, teamRow, restarts, ended>>
RetireBench(i) ==
    /\ calls[i].at = "bench"
    /\ Moves(i, "refused", <<>>) \/ Moves(i, "retire", Tail(calls[i].todo))
    /\ UNCHANGED <<members, teamRow, agents, restarts, loose, ended>>

\* set_team_archived, delete_team, delete_agent
Shelve(i) ==
    /\ calls[i].at = "shelve" \/ (calls[i].at = "retire" /\ calls[i].todo = <<>>)
    /\ CASE calls[i].op = "archive" ->
              /\ teamRow' = IF teamRow = "open" THEN "archived" ELSE teamRow
              /\ members' = members
         [] calls[i].op = "delete" -> teamRow' = "deleted" /\ members' = {}
         [] OTHER -> teamRow' = teamRow /\ members' = members \ calls[i].targets
    /\ Moves(i, "done", <<>>) /\ UNCHANGED <<agents, restarts, loose, ended>>

Call(i) == \/ List(i) \/ StopNext(i) \/ Stopped(i)
           \/ StartBegins(i) \/ StartRegisters(i) \/ StartSpawns(i) \/ StartsDone(i)
           \/ RetireReads(i) \/ RetireStop(i) \/ RetireBench(i) \/ Shelve(i)
TeamNext == (\E i \in DOMAIN calls : Call(i)) \/ (\E a \in Agents : Exit(a) \/ Restart(a))
TeamSpec == TeamInit /\ [][TeamNext]_teamVars

-----------------------------------------------------------------------------
(* Restart all leaves nobody down in silence: when it is done each agent it  *)
(* was for has a process, or is reported, or its process ended of something  *)
(* else than this call's own stop.  Also when the old process outlives       *)
(* STOP_WAIT, or another call stops or starts the agent in between.          *)
NobodyIsLeftDown ==
    \A i \in DOMAIN calls : calls[i].op \in {"start", "restart"} /\ calls[i].at = "done" =>
        \A a \in calls[i].targets :
            \/ Up(a) \/ a \in calls[i].failures
            \/ \E e \in ended : e[1] = a /\ e[2] # {i}

(* No process outlives its team or its agent: what is up when the row is     *)
(* gone was killed, unless a start of the agent overlapped its retirement or *)
(* another start.                                                            *)
NoProcessOutlivesItsRow ==
    \A a \in Agents \ members : Up(a) => agents[a].told # {} \/ a \in loose

(* Both: what the calls on a team start and stop is what they were asked to. *)
TeamCallsHold == NobodyIsLeftDown /\ NoProcessOutlivesItsRow

(* The same of a team that is deleted, with no exception.  stop_team of      *)
(* commands/teams.rs says why its agents are stopped first: a live process   *)
(* of a team that is gone would be an orphan.  A start that had read its row *)
(* by then spawns its process all the same, and nothing stops that one.      *)
DeletionLeavesNobody ==
    \A a \in Agents : teamRow = "deleted" /\ Up(a) => agents[a].told # {}

(* Of a team that is archived, as stop_team says too.  The code does not     *)
(* hold to it: it stops what runs, and what waits for its restart by policy  *)
(* comes up later.                                                           *)
ArchivedIsQuiet ==
    \A a \in Agents : teamRow = "archived" /\ Up(a) =>
        \/ agents[a].asked
        \/ \E i \in DOMAIN calls : calls[i].op \in {"start", "restart"}
=============================================================================
